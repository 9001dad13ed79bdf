----------------------------- MODULE DemoClient -----------------------------
(***************************************************************************)
(* The page of the demo (src/demo/public/app.js) and the answers it gets   *)
(* from the server (src/demo/server.mjs).                                  *)
(*                                                                         *)
(* A click on "Scan" posts a scan and disables the button; once the server *)
(* has given the scan an id, a timer of its own polls it every two         *)
(* seconds.  A timer does not wait for the answers of its earlier polls:   *)
(* they overlap, come late, or never come.  Opening a permalink starts a   *)
(* poll without touching the button, so that two scans may be polled at    *)
(* once.  An answer "done" shows the scan: its report in a frame, its      *)
(* prompt, which is fetched and comes later, and, when the scan compares   *)
(* two states of a repository, two buttons that switch between them.       *)
(*                                                                         *)
(* Left out: wording of the status line, the leaderboard, the buttons with *)
(* preset repositories, and the numbers shown beside the report.           *)
(***************************************************************************)
EXTENDS Naturals, Sequences

CONSTANTS
    Scans,      \* ids the server may give
    Compares,   \* those of them that are scans of the scenario "compare"
    Permalinks, \* and those the page may be opened at
    NoScan,
    MaxTries    \* polls of one timer before it gives up: 240

ASSUME ClientConstants ==
    /\ Compares \subseteq Scans /\ Permalinks \subseteq Scans
    /\ NoScan \notin Scans
    /\ MaxTries \in Nat \ {0}

VARIABLES
    server,     \* what the server knows of every scan
    saved,      \* scans whose reports the server has written to its disk
    posts,      \* requests for a scan that wait for their answer
    lost,       \* one of these requests failed without an answer
    interval,   \* scans whose timer runs
    tries,      \* ticks of every timer
    req,        \* the request of every tick
    button,     \* the scan button can be clicked
    shown,      \* the scan whose results are visible
    bar,        \* the two buttons of a comparison are visible
    seg,        \* the one that is highlighted
    frame,      \* the report in the frame
    listeners,  \* what a click on either of them runs, in order
    prompts,    \* scans of which a prompt is being fetched, once or more often
    box,        \* the scan of the prompt in the text area, which can be copied
    link        \* the scan the visible share link leads to

page == <<button, shown, bar, seg, frame, listeners, box, link>>
net == <<posts, lost, req, prompts>>
clientVars == <<server, saved, interval, tries, page, net>>

Halves == {"original", "hacked"}
Reports == [scan : Scans, half : Halves \cup {"whole"}]
NoReport == [scan |-> NoScan, half |-> "whole"]

(***************************************************************************)
(* The server's side: jobs of scans, which a restart forgets although      *)
(* their reports stay on the disk.  A busy scan is queued or running: the  *)
(* page only words the two differently.                                    *)
(***************************************************************************)
ServerStates == {"free", "busy", "done", "error", "gone"}

\* Mutant: a scan is done before its reports are written.
MutFinish(s) ==
    /\ server[s] = "busy"
    /\ server' = [server EXCEPT ![s] = "done"]
    /\ UNCHANGED <<saved, interval, tries, page, net>>


Finish(s) ==
    /\ server[s] = "busy"
    /\ \/ server' = [server EXCEPT ![s] = "done"] /\ saved' = saved \cup {s}
       \/ server' = [server EXCEPT ![s] = "error"] /\ UNCHANGED saved
    /\ UNCHANGED <<interval, tries, page, net>>

Restart ==
    /\ \E s \in Scans : server[s] \notin {"free", "gone"}
    /\ server' = [s \in Scans |-> IF server[s] = "free" THEN "free" ELSE "gone"]
    /\ UNCHANGED <<saved, interval, tries, page, net>>

(***************************************************************************)
(* The page as it is loaded: at the permalink of a scan it polls this scan *)
(* at once, whatever the server knows of it by now.                        *)
(***************************************************************************)
Known(permalink) ==
    IF permalink = NoScan THEN {"free"} ELSE ServerStates \ {"free"}

ClientInit ==
    /\ \E permalink \in Permalinks \cup {NoScan}, st \in ServerStates :
          /\ st \in Known(permalink)
          /\ server = [s \in Scans |-> IF s = permalink THEN st ELSE "free"]
          /\ interval = {permalink} \ {NoScan}
          /\ \/ st # "done" /\ saved = {}
             \/ st \in {"done", "gone"} /\ saved = {permalink}
    /\ posts = 0 /\ lost = FALSE
    /\ tries = [s \in Scans |-> 0]
    /\ req = [s \in Scans |-> [t \in 1..MaxTries |-> "none"]]
    /\ button = TRUE /\ shown = NoScan
    /\ bar = FALSE /\ seg = "original" /\ frame = NoReport
    /\ listeners = [h \in Halves |-> <<>>]
    /\ prompts = {}
    /\ box = NoScan /\ link = NoScan

ClickScan ==
    /\ button
    /\ \E s \in Scans : server[s] = "free"    \* bound: ids left for the answer
    /\ button' = FALSE
    /\ shown' = NoScan
    /\ frame' = NoReport
    /\ box' = NoScan
    /\ link' = NoScan
    /\ posts' = posts + 1
    /\ UNCHANGED <<server, saved, interval, tries, bar, seg, listeners,
                   lost, req, prompts>>

\* The server takes the scan on; its id comes back and its timer starts.
PostAccepted(s) ==
    /\ posts > 0
    /\ server[s] = "free"
    /\ posts' = posts - 1
    /\ server' = [server EXCEPT ![s] = "busy"]
    /\ interval' = interval \cup {s}
    /\ UNCHANGED <<saved, tries, page, lost, req, prompts>>

\* 400, 429 or 500: the button comes back.
PostRefused ==
    /\ posts > 0
    /\ posts' = posts - 1
    /\ button' = TRUE
    /\ UNCHANGED <<server, saved, interval, tries, lost, req, prompts,
                   shown, bar, seg, frame, listeners, box, link>>

\* No answer at all: nothing catches the failure, and the button stays disabled.
PostLost ==
    /\ posts > 0
    /\ posts' = posts - 1
    /\ lost' = TRUE
    /\ UNCHANGED <<server, saved, interval, tries, page, req, prompts>>

\* Mutant: the timer waits for the answer of its last poll.
MutPoll(s) ==
    /\ s \in interval
    /\ tries[s] < MaxTries
    /\ \A t \in 1..MaxTries : req[s][t] # "sent"
    /\ tries' = [tries EXCEPT ![s] = @ + 1]
    /\ req' = [req EXCEPT ![s][tries'[s]] = "sent"]
    /\ UNCHANGED <<server, saved, interval, page, posts, lost, prompts>>

(***************************************************************************)
(* The timer of a scan, and the answers to its polls in any order.         *)
(***************************************************************************)
Poll(s) ==
    /\ s \in interval
    /\ tries[s] < MaxTries
    /\ tries' = [tries EXCEPT ![s] = @ + 1]
    /\ req' = [req EXCEPT ![s][tries'[s]] = "sent"]
    /\ UNCHANGED <<server, saved, interval, page, posts, lost, prompts>>

\* Mutant: the button is forgotten when the timer gives up.
MutGiveUp(s) ==
    /\ s \in interval
    /\ tries[s] = MaxTries
    /\ tries' = [tries EXCEPT ![s] = @ + 1]
    /\ interval' = interval \ {s}
    /\ UNCHANGED <<server, saved, page, net>>


GiveUp(s) ==
    /\ s \in interval
    /\ tries[s] = MaxTries
    /\ tries' = [tries EXCEPT ![s] = @ + 1]
    /\ interval' = interval \ {s}
    /\ button' = TRUE
    /\ UNCHANGED <<server, saved, net, shown, bar, seg, frame, listeners,
                   box, link>>

TimerTick(s) == Poll(s) \/ GiveUp(s)

\* The server answers a poll with the state the scan is in at that moment.
Answer(s, t) ==
    /\ req[s][t] = "sent"
    /\ server[s] \in {"done", "error"}
    /\ req' = [req EXCEPT ![s][t] = server[s]]
    /\ UNCHANGED <<server, saved, interval, tries, page, posts, lost, prompts>>

\* Busy, 404, or no answer that arrives: only the status line changes.
Unanswered(s, t) ==
    /\ req[s][t] = "sent"
    /\ req' = [req EXCEPT ![s][t] = "none"]
    /\ UNCHANGED <<server, saved, interval, tries, page, posts, lost, prompts>>

\* showResults: a listener is added to either button at every comparison
\* shown, and the share link appears only for a report of a whole scan.
ShowResults(s) ==
    LET compared == s \in Compares
        report == [scan |-> s, half |-> IF compared THEN "hacked" ELSE "whole"]
    IN  /\ shown' = s
        /\ bar' = compared
        /\ seg' = IF compared THEN "hacked" ELSE seg
        /\ listeners' = IF compared THEN [h \in Halves |-> Append(listeners[h], s)]
                        ELSE listeners
        /\ frame' = report
        /\ prompts' = prompts \cup {s}
        /\ link' = IF compared THEN link ELSE s

PollDone(s, t) ==
    /\ req[s][t] = "done"
    /\ req' = [req EXCEPT ![s][t] = "none"]
    /\ interval' = interval \ {s}
    /\ button' = TRUE
    /\ ShowResults(s)
    /\ UNCHANGED <<server, saved, tries, posts, lost, box>>

PollError(s, t) ==
    /\ req[s][t] = "error"
    /\ req' = [req EXCEPT ![s][t] = "none"]
    /\ interval' = interval \ {s}
    /\ button' = TRUE
    /\ UNCHANGED <<server, saved, tries, posts, lost, prompts, shown, bar,
                   seg, frame, listeners, box, link>>

\* Mutant: the latest listener runs first.
MutSetView(which) ==
    LET ran == listeners[which]
    IN  /\ shown # NoScan /\ bar
        /\ ran # <<>>
        /\ listeners' = [listeners EXCEPT ![which] = <<>>]
        /\ seg' = which
        /\ frame' = [scan |-> ran[1], half |-> which]
        /\ prompts' = prompts \cup {ran[i] : i \in DOMAIN ran}
        /\ UNCHANGED <<server, saved, interval, tries, posts, lost, req,
                       button, shown, bar, box, link>>

(***************************************************************************)
(* A click on a button of the comparison runs all its listeners, in the    *)
(* order they were added and each for the last time; every one of them     *)
(* puts the report of its own scan into the frame and fetches its prompt.  *)
(***************************************************************************)
SetView(which) ==
    LET ran == listeners[which]
    IN  /\ shown # NoScan /\ bar
        /\ ran # <<>>
        /\ listeners' = [listeners EXCEPT ![which] = <<>>]
        /\ seg' = which
        /\ frame' = [scan |-> ran[Len(ran)], half |-> which]
        /\ prompts' = prompts \cup {ran[i] : i \in DOMAIN ran}
        /\ UNCHANGED <<server, saved, interval, tries, posts, lost, req,
                       button, shown, bar, box, link>>

\* A prompt comes, or fails to (an empty one counts as failed), once or, when
\* it is being fetched more than once, again.
PromptArrives(s) ==
    /\ s \in prompts
    /\ prompts' \in {prompts, prompts \ {s}}
    /\ \/ s \in saved /\ box' = s
       \/ box' = NoScan
    /\ UNCHANGED <<server, saved, interval, tries, posts, lost, req,
                   button, shown, bar, seg, frame, listeners, link>>

-----------------------------------------------------------------------------
Visitor == ClickScan \/ \E h \in Halves : SetView(h)

Server == Restart \/ \E s \in Scans : Finish(s)

PostSettled == PostRefused \/ PostLost \/ \E s \in Scans : PostAccepted(s)

PollSettled(s, t) ==
    Answer(s, t) \/ Unanswered(s, t) \/ PollDone(s, t) \/ PollError(s, t)

ClientNext ==
    \/ Visitor \/ Server \/ PostSettled
    \/ \E s \in Scans : TimerTick(s) \/ \E t \in 1..MaxTries : PollSettled(s, t)
    \/ \E s \in Scans : PromptArrives(s)

ClientSpec == ClientInit /\ [][ClientNext]_clientVars

\* A browser settles every request for a scan in the end and fires its
\* timers; nothing else is promised, no answer to a poll in particular.
FairClientSpec == ClientSpec /\ WF_clientVars(PostSettled) /\ \A s \in Scans : WF_clientVars(TimerTick(s))

-----------------------------------------------------------------------------
ClientTypeOK ==
    /\ server \in [Scans -> ServerStates]
    /\ saved \subseteq Scans
    /\ posts \in Nat /\ lost \in BOOLEAN
    /\ interval \subseteq Scans
    /\ tries \in [Scans -> 0..MaxTries + 1]
    /\ req \in [Scans -> [1..MaxTries -> {"none", "sent", "done", "error"}]]
    /\ button \in BOOLEAN /\ bar \in BOOLEAN
    /\ {shown, box, link} \subseteq Scans \cup {NoScan}
    /\ seg \in Halves
    /\ frame \in Reports \cup {NoReport}
    /\ listeners \in [Halves -> Seq(Scans)]
    /\ prompts \subseteq Scans

\* The visitor is never locked out for nothing: while the button is disabled,
\* a request or a timer is under way that will enable it, or the request for
\* a scan failed without an answer (app.js:170, startScan catches nothing).
DisabledMeansBusy == ~button => posts > 0 \/ lost \/ interval # {}

\* The report in the frame is of the scan whose results are shown, and of the
\* half that is highlighted, although the listeners of earlier comparisons
\* stay on the buttons and run too (app.js:282): the latest one runs last.
FrameIsOfShown ==
    shown # NoScan =>
        /\ frame.scan = shown
        /\ bar <=> shown \in Compares
        /\ bar => frame.half = seg

\* Whatever the order of late answers, of other scans' polls and of restarts,
\* nothing is shown or shared of a scan whose reports are not on the disk.
ShownIsSaved == {shown, link, frame.scan, box} \ {NoScan} \subseteq saved

\* However the polls are answered, a visitor who asked for a scan can ask
\* again: the answers or the timer's limit give the button back.
ButtonReturns == ~button ~> (button \/ lost)
=============================================================================
