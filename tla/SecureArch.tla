----------------------------- MODULE SecureArch -----------------------------
(***************************************************************************)
(* A project's secure-architecture settings: `secure-arch install` copies  *)
(* templates beside what the user has written, one file after another, and *)
(* keeps a block of .gitignore; `secure-arch check` reads them             *)
(* (secure-arch-cli/src/).  The command may be killed between two writes,  *)
(* and in one: a file is then left with nothing in it.                     *)
(***************************************************************************)
EXTENDS ArchCheck, FiniteSets, SequencesExt

CONSTANTS
    Template,         \* the templates: a function from their files to documents
    UserDocs,         \* documents a user may write, for each file
    None,
    Begin, End, Gen,  \* lines of .gitignore: the markers, and what is between them
    Own               \* lines of the user's

Block == <<Begin, Gen, End>>

ASSUME DocumentsAssumption ==
    /\ DOMAIN Template \subseteq SettingsFiles /\ \A f \in DOMAIN Template : IsSettings(Template[f])
    /\ \A f \in SettingsFiles : \A d \in UserDocs[f] : IsSettings(d)

ASSUME MarkersAssumption ==
    /\ Begin # End /\ Begin # Gen /\ End # Gen
    /\ Own \cap {Begin, End, Gen} = {}

VARIABLES
    dir,        \* the settings directory is there
    settings,   \* SettingsFiles -> document, Absent or Torn
    schema,     \* "absent", "partial" or "whole": its subdirectory schema
    ignores,    \* lines of .gitignore
    install,    \* the running install: [todo, force], or None
    verdict,    \* the last check: [exit, mode]; None if it was of something else
    \* history, read by no guard
    installed,  \* an install ended and nobody changed anything since
    unmarked,   \* the user took a marker line out of .gitignore, or put one in
    inside      \* the lines that the user put between two markers

archVars == <<dir, settings, schema, ignores, install, verdict, installed, unmarked, inside>>

ArchInit ==
    /\ dir = FALSE /\ settings = [f \in SettingsFiles |-> Absent] /\ schema = "absent"
    /\ ignores = << >> /\ install = None /\ installed = FALSE /\ verdict = None
    /\ unmarked = FALSE /\ inside = {}

-----------------------------------------------------------------------------
(* The user *)

EditSettings(f) ==
    /\ \E d \in UserDocs[f] : d # settings[f] /\ settings' = [settings EXCEPT ![f] = d]
    /\ dir' = TRUE /\ verdict' = None /\ installed' = FALSE
    /\ UNCHANGED <<schema, ignores, install, unmarked, inside>>

\* a line more, of the user's or another marker, at any place, or one less
EditIgnores ==
    /\ \/ \E line \in Own \cup {Begin, End}, i \in 1..(Len(ignores) + 1) :
            /\ ignores' = InsertAt(ignores, i, line)
            /\ unmarked' = (unmarked \/ line \in {Begin, End})
            /\ inside' = IF \E b \in 1..(i - 1), e \in i..Len(ignores) :
                               ignores[b] = Begin /\ ignores[e] = End
                         THEN inside \cup {line} ELSE inside
       \/ \E i \in DOMAIN ignores :
            /\ ignores' = RemoveAt(ignores, i)
            /\ unmarked' = (unmarked \/ ignores[i] \in {Begin, End})
            /\ inside' = inside
    /\ installed' = FALSE
    /\ UNCHANGED <<dir, settings, schema, install, verdict>>

-----------------------------------------------------------------------------
(* secure-arch install *)

BeginInstall(force) ==
    /\ install = None
    /\ install' = [todo |-> DOMAIN Template, force |-> force, schema |-> FALSE]
    /\ dir' = TRUE /\ installed' = FALSE /\ verdict' = None
    /\ UNCHANGED <<settings, schema, ignores, unmarked, inside>>

\* The templates come in the order of the directory, whatever that is.
CopyTemplate(f) ==
    /\ install # None /\ f \in install.todo
    /\ settings' = IF settings[f] # Absent /\ ~install.force THEN settings
                   ELSE [settings EXCEPT ![f] = Template[f]]
    /\ install' = [install EXCEPT !.todo = @ \ {f}]
    /\ UNCHANGED <<dir, schema, ignores, installed, verdict, unmarked, inside>>

CopySchema ==
    /\ install # None /\ install.todo = {} /\ ~install.schema
    /\ schema' = IF install.force \/ schema = "absent" THEN "whole" ELSE schema
    /\ install' = [install EXCEPT !.schema = TRUE]
    /\ UNCHANGED <<dir, settings, ignores, installed, verdict, unmarked, inside>>

\* the block goes to the end, also where there is one
MutEnsureGitignorePatterns(lines) == lines \o Block
\* the first marker up to the last end is put anew
MutGreedyPatterns(lines) ==
    LET b == SelectInSeq(lines, LAMBDA l : l = Begin)
        e == SelectLastInSeq(lines, LAMBDA l : l = End)
    IN IF b # 0 /\ b < e THEN SubSeq(lines, 1, b - 1) \o Block \o SubSeq(lines, e + 1, Len(lines))
       ELSE lines \o Block
\* the first marker up to the first end after it is put anew
EnsureGitignorePatterns(lines) ==
    IF Contains(lines, Begin) /\ Contains(lines, End)
    THEN LET b == SelectInSeq(lines, LAMBDA l : l = Begin)
             e == SelectInSeq(SubSeq(lines, b, Len(lines)), LAMBDA l : l = End)
         IN IF e = 0 THEN lines
            ELSE SubSeq(lines, 1, b - 1) \o Block \o SubSeq(lines, b + e, Len(lines))
    ELSE lines \o Block

WriteIgnores ==
    /\ install # None /\ install.todo = {} /\ install.schema
    /\ ignores' = EnsureGitignorePatterns(ignores)
    /\ install' = None /\ installed' = TRUE
    /\ UNCHANGED <<dir, settings, schema, verdict, unmarked, inside>>

\* killed, between two writes or in the one that comes next
ArchCrash ==
    /\ install # None
    /\ \/ UNCHANGED <<settings, schema, ignores>>
       \/ /\ \E f \in install.todo : /\ settings[f] = Absent \/ install.force
                                     /\ settings' = [settings EXCEPT ![f] = Torn]
          /\ UNCHANGED <<schema, ignores>>
       \/ /\ install.todo = {} /\ ~install.schema /\ (schema = "absent" \/ install.force)
          /\ schema' = "partial"
          /\ UNCHANGED <<settings, ignores>>
       \/ /\ install.todo = {} /\ install.schema
          /\ EnsureGitignorePatterns(ignores) # ignores
          /\ ignores' = << >>
          /\ UNCHANGED <<settings, schema>>
    /\ install' = None
    /\ UNCHANGED <<dir, installed, verdict, unmarked, inside>>

-----------------------------------------------------------------------------
(* secure-arch check *)

RunCheck(code, mode) ==
    /\ install = None
    /\ verdict' = [exit |-> Check(dir, settings, code, mode), mode |-> mode]
    /\ UNCHANGED <<dir, settings, schema, ignores, install, installed, unmarked, inside>>
-----------------------------------------------------------------------------
Running == install # None

\* What a user has to look at to know what the settings say of a key: the
\* environment's own file, then what the global file says of it, or else of
\* the default environment.
Sayings(e) ==
    (IF IsDoc(settings[e])
       THEN <<IF e \in DOMAIN settings[e].envs THEN settings[e].envs[e] ELSE settings[e].flat>>
       ELSE << >>)
    \o (IF e \in DOMAIN GlobalEnvs(settings) THEN <<GlobalEnvs(settings)[e]>>
       ELSE IF Default \in DOMAIN GlobalEnvs(settings) THEN <<GlobalEnvs(settings)[Default]>>
       ELSE << >>)
Says(e, k, v) ==
    \E i \in DOMAIN Sayings(e) :
        /\ k \in DOMAIN Sayings(e)[i] /\ Sayings(e)[i][k] = v
        /\ \A j \in 1..(i - 1) : k \notin DOMAIN Sayings(e)[j]
Spoken(e) ==
    \/ IsDoc(settings[e])
    \/ e \in DOMAIN GlobalEnvs(settings) /\ \A o \in Envs : ~IsDoc(settings[o])

\* Keys at the top of a file are used, but not validated, if the file has
\* sections of other environments.
Overlooked(e, k) ==
    /\ IsDoc(settings[e]) /\ DOMAIN settings[e].envs # {} /\ e \notin DOMAIN settings[e].envs
    /\ k \in DOMAIN settings[e].flat

Unsafe == {<<"internet", TRUE>>, <<"publiclyReachable", TRUE>>, <<"enabled", FALSE>>,
           <<"noneMechanism", TRUE>>, <<"authzNone", TRUE>>, <<"enforcedEverywhere", FALSE>>,
           <<"repoStorage", TRUE>>, <<"embeddedInRepo", TRUE>>, <<"publicBuckets", TRUE>>,
           <<"frontendReachesDatabase", TRUE>>, <<"publicReachesAdmin", TRUE>>}
UnsafeInProduction == {<<"debugEnabledInProduction", TRUE>>, <<"overlyPermissiveIam", TRUE>>}
SaysUnsafe(e) ==
    \/ \E u \in Unsafe : Says(e, u[1], u[2])
    \/ Says(e, "wildcardOrigin", TRUE) /\ Says(e, "allowCredentials", TRUE)
    \/ e = Production /\ \/ \E u \in UnsafeInProduction : Says(e, u[1], u[2])
                         \/ ~Says(e, "allowlistEnforced", TRUE)

(***************************************************************************)
(* A check that passed has read every file, and no environment that has a  *)
(* file of its own, or that is named while none has, says of itself what a *)
(* critical or error rule is about, wherever it says so: its own file      *)
(* comes before the global one, and the default is last; and none has a    *)
(* value of the wrong type where types are validated.  And a check of the  *)
(* settings alone that failed has such an environment.                     *)
(***************************************************************************)
VerdictIsOfSettings ==
    verdict # None =>
        /\ verdict.exit = 0 =>
              /\ dir /\ \A f \in SettingsFiles : settings[f] # Torn
              /\ \A e \in Envs : Spoken(e) =>
                    /\ ~SaysUnsafe(e)
                    /\ \A k \in Validated : Says(e, k, Junk) => Overlooked(e, k)
        /\ verdict.exit = 1 /\ verdict.mode = "off" => \E e \in Envs : Spoken(e) /\ SaysUnsafe(e)

(***************************************************************************)
(* An install that ended has left every template, or what was in its       *)
(* place, and exactly one whole block in .gitignore, whatever installs     *)
(* were killed before it, if the user took no marker out and put none in.  *)
(***************************************************************************)
InstallIsWhole ==
    installed =>
        /\ \A f \in DOMAIN Template : settings[f] # Absent
        /\ schema # "absent"
        /\ ~unmarked => \E b \in DOMAIN ignores :
              /\ b + 2 <= Len(ignores) /\ SubSeq(ignores, b, b + 2) = Block
              /\ \A i \in DOMAIN ignores \ (b..(b + 2)) : ignores[i] \in Own
=============================================================================
