----------------------------- MODULE Workspace ------------------------------
(***************************************************************************)
(* A project and the commands that are run in it, one at a time            *)
(* (cli/vibescan.ts): its secure-architecture settings (SecureArch), the   *)
(* rules for AI assistants (AiRules), and previews of fixes (FixPreview).  *)
(* Whoever works on it edits it at any time, also while a command runs.    *)
(***************************************************************************)
EXTENDS SecureArch, AiRules, FixPreview

CONSTANTS
    Reported,    \* source file -> what is reported of a weak version of it
    MaxEdits,    \* bounds: edits,
    MaxCrashes,  \* and commands that are killed or fail
    MaxRuns      \* and commands that are begun

VARIABLES edits, crashes, runs

bounds == <<edits, crashes, runs>>
vars == <<archVars, ruleVars, previewVars, bounds>>

Init ==
    /\ ArchInit /\ RuleInit /\ PreviewInit
    /\ edits = 0 /\ crashes = 0 /\ runs = 0

Free == install = None /\ writing = Idle /\ preview = NoPreview

\* the evidence that is in the sources
Code == LET reported == {Reported[f] : f \in {g \in Sources : source[g] \in Weak}}
        IN [scanned |-> reported, patterns |-> reported]

Begins ==
    \/ /\ \/ \E force \in BOOLEAN : BeginInstall(force)
          \/ \E mode \in Modes : RunCheck(Code, mode)
       /\ UNCHANGED <<ruleVars, previewVars>>
    \/ /\ \/ \E emit \in Emits : BeginExport(emit)
          \/ \E tool \in Tools : BeginInit(tool)
          \/ \E tools \in {<< >>} \cup {<<t>> : t \in Tools} : BeginBootstrap(tools)
       /\ UNCHANGED <<archVars, previewVars>>
    \/ /\ \E f \in Sources : BeginPreview(<<"project", f>>)
       /\ UNCHANGED <<archVars, ruleVars>>

Steps ==
    \/ /\ \/ \E f \in DOMAIN Template : CopyTemplate(f)
          \/ CopySchema \/ WriteIgnores
       /\ UNCHANGED <<ruleVars, previewVars>>
    \/ /\ WriteRules \/ WriteConfig \/ WriteWorkflow
       /\ UNCHANGED <<archVars, previewVars>>
    \/ /\ \/ \E f \in Sources : CopyFile(f)
          \/ CopyAgain \/ PatchCli \/ GitApply \/ ScanAndProve \/ Show
       /\ UNCHANGED <<archVars, ruleVars>>

Crashes ==
    \/ ArchCrash /\ UNCHANGED <<ruleVars, previewVars>>
    \/ (WriteFails \/ RuleCrash) /\ UNCHANGED <<archVars, previewVars>>
    \/ PreviewFails /\ UNCHANGED <<archVars, ruleVars>>

Edits ==
    \/ /\ (\E f \in SettingsFiles : EditSettings(f)) \/ EditIgnores
       /\ UNCHANGED <<ruleVars, previewVars>>
    \/ EditConfig /\ UNCHANGED <<archVars, previewVars>>
    \* A check looked at other sources.
    \/ /\ EditSource /\ verdict' = None
       /\ UNCHANGED <<dir, settings, schema, ignores, install, installed, unmarked, inside,
                       ruleVars>>

Next ==
    \/ Free /\ runs < MaxRuns /\ Begins /\ runs' = runs + 1 /\ UNCHANGED <<edits, crashes>>
    \/ Steps /\ UNCHANGED bounds
    \/ crashes < MaxCrashes /\ Crashes /\ crashes' = crashes + 1 /\ UNCHANGED <<edits, runs>>
    \/ edits < MaxEdits /\ Edits /\ edits' = edits + 1 /\ UNCHANGED <<crashes, runs>>

Spec == Init /\ [][Next]_vars

-----------------------------------------------------------------------------
\* The lines that are in S.
LinesIn(S, lines) ==
    LET in[i \in 0..Len(lines)] ==
            IF i = 0 THEN << >>
            ELSE IF lines[i] \in S THEN Append(in[i - 1], lines[i]) ELSE in[i - 1]
    IN in[Len(lines)]

\* Own lines that are gone were between a BEGIN and the first END after it.
LostBetweenMarks(was, left) ==
    \/ LinesIn(Own, left) = LinesIn(Own, was)
    \/ \E b, e \in DOMAIN was :
          /\ b < e /\ was[b] = Begin /\ was[e] = End
          /\ \A i \in b..(e - 1) : was[i] # End
          /\ LinesIn(Own, left) = LinesIn(Own, SubSeq(was, 1, b - 1))
                                    \o LinesIn(Own, SubSeq(was, e + 1, Len(was)))

(***************************************************************************)
(* What the user wrote is the user's: no command changes a settings file   *)
(* of theirs but an install that is told to, and none their configuration. *)
(* None takes a line of theirs out of .gitignore, unless it is killed in   *)
(* that very write, but one between a BEGIN marker and the first END after *)
(* it: what stands there is not kept, an install puts the block anew.  And *)
(* while the user has taken no marker out and put none in, only lines that *)
(* they themselves put there stand there.  (Once they take an END out, the *)
(* block that the next install adds closes the old BEGIN, and the lines    *)
(* between are lost to the install after it.)                              *)
(***************************************************************************)
KeepsUsersWork ==
    [][ Edits \/
        /\ \A f \in SettingsFiles :
              settings[f] \in UserDocs[f] /\ settings'[f] # settings[f] => Running /\ install.force
        /\ config \in Configs => config' = config
        /\ ignores' # ignores /\ crashes' = crashes =>
              /\ LostBetweenMarks(ignores, ignores')
              /\ unmarked \/ LinesIn(Own \ inside, ignores') = LinesIn(Own \ inside, ignores)
      ]_vars
=============================================================================
