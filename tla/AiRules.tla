------------------------------ MODULE AiRules -------------------------------
(***************************************************************************)
(* Files that tell AI assistants the project's rules:                      *)
(* `vibescan export-ai-rules` (cli/exportAiRules.ts) writes them from the  *)
(* configuration, `secure-arch init` (secure-arch-cli, secure-arch-        *)
(* adapters) writes two of them from templates, and `vibescan init`        *)
(* (cli/projectInit.ts, cli/vibescan.ts) first writes the configuration    *)
(* and a workflow, where there is none.  A command writes one file after   *)
(* another; it may fail or be killed at each.                              *)
(***************************************************************************)
EXTENDS Sequences

CONSTANTS
    Configs,        \* what a user writes into vibescan.config.json
    Sample,         \* what vibescan init writes into it
    Missing, Empty, \* in place of a file: none, or one with nothing in it
    Idle,
    Emits           \* what --emit may ask for

Parts == {"cursor", "amazonq", "markdown", "policy"}
Tools == {"cursor", "amazonq"}

ASSUME EmitsAssumption == Emits \subseteq (SUBSET Parts) \ {{}}
ASSUME ConfigsAssumption == Missing \notin Configs

Contents == Configs \cup {Sample, Missing, Empty}
Writings == [name : {"export", "init"}, todo : Seq(Parts \cup {"static-scan", "config", "workflow"}),
             emit : SUBSET Parts, of : Contents]
ASSUME IdleAssumption == Idle \notin Writings

VARIABLES
    config,     \* vibescan.config.json
    workflow,   \* .github/workflows/vibescan.yml
    rules,      \* rule file -> who wrote it, of which configuration
    writing,    \* the running command: [name, todo, of], or Idle
    exported    \* history: the last export that ended well: [emit, of]

ruleVars == <<config, workflow, rules, writing, exported>>

RuleInit ==
    /\ config = Missing /\ workflow = Missing
    /\ rules = [f \in Parts \cup {"static-scan"} |-> Missing]
    /\ writing = Idle /\ exported = Idle

EditConfig ==
    /\ config' \in (Configs \cup {Missing}) \ {config}
    /\ UNCHANGED <<workflow, rules, writing, exported>>

-----------------------------------------------------------------------------
(* The files of an export, in the order they are written, and what they    *)
(* say: which command wrote them, of which configuration.                  *)

\* the rules for static scans, if there is a configuration to tell
vibescanStaticScan(of) == IF of = Missing THEN << >> ELSE <<"static-scan">>

Emitted(emit, of) ==
    LET Asked(p) == IF p \in emit THEN <<p>> ELSE << >>
    IN Asked("cursor") \o Asked("amazonq") \o Asked("markdown") \o Asked("policy")
        \o (IF "cursor" \in emit THEN vibescanStaticScan(of) ELSE << >>)

ExportBody(of) == [by |-> "export", of |-> of]
AdapterBody == [by |-> "init", of |-> Missing]

\* The configuration is read, then the adapters are loaded; both may fail.
BeginExport(emit) ==
    /\ writing = Idle
    /\ \/ /\ config # Empty
          /\ writing' = [name |-> "export", todo |-> Emitted(emit, config), emit |-> emit, of |-> config]
          /\ exported' = Idle
       \/ UNCHANGED <<writing, exported>>
    /\ UNCHANGED <<config, workflow, rules>>

BeginInit(tool) ==
    /\ writing = Idle
    /\ writing' = [name |-> "init", todo |-> <<tool>>, emit |-> {}, of |-> Missing]
    /\ exported' = Idle
    /\ UNCHANGED <<config, workflow, rules>>

\* `vibescan init` ends with what `secure-arch init` makes of its arguments:
\* without a tool it refuses them.
BeginBootstrap(tools) ==
    /\ writing = Idle
    /\ writing' = [name |-> "init", todo |-> <<"config", "workflow">> \o tools, emit |-> {}, of |-> Missing]
    /\ exported' = Idle
    /\ UNCHANGED <<config, workflow, rules>>

-----------------------------------------------------------------------------
Written == Head(writing.todo)
Then == IF Len(writing.todo) = 1 THEN Idle ELSE [writing EXCEPT !.todo = Tail(@)]

\* writes what the configuration says now
MutWriteRules ==
    /\ writing # Idle /\ Written \in DOMAIN rules
    /\ rules' = [rules EXCEPT ![Written] = IF writing.name = "init" THEN AdapterBody ELSE ExportBody(config)]
    /\ writing' = Then
    /\ exported' = IF writing.name = "export" /\ Then = Idle
                   THEN [emit |-> writing.emit, of |-> writing.of] ELSE exported
    /\ UNCHANGED <<config, workflow>>
WriteRules ==
    /\ writing # Idle /\ Written \in DOMAIN rules
    /\ rules' = [rules EXCEPT ![Written] = IF writing.name = "init" THEN AdapterBody
                                           ELSE ExportBody(writing.of)]
    /\ writing' = Then
    /\ exported' = IF writing.name = "export" /\ Then = Idle
                   THEN [emit |-> writing.emit, of |-> writing.of] ELSE exported
    /\ UNCHANGED <<config, workflow>>

WriteConfig ==
    /\ writing # Idle /\ Written = "config"
    /\ config' = IF config = Missing THEN Sample ELSE config
    /\ writing' = Then
    /\ UNCHANGED <<workflow, rules, exported>>

WriteWorkflow ==
    /\ writing # Idle /\ Written = "workflow"
    /\ workflow' = IF workflow = Missing THEN Sample ELSE workflow
    /\ writing' = Then
    /\ UNCHANGED <<config, rules, exported>>

\* a write that is refused: the command ends, what it wrote before stays
WriteFails ==
    /\ writing # Idle
    /\ writing' = Idle
    /\ UNCHANGED <<config, workflow, rules, exported>>

\* killed in a write
RuleCrash ==
    /\ writing # Idle
    /\ \/ /\ Written \in DOMAIN rules
          /\ rules' = [rules EXCEPT ![Written] = Empty]
          /\ UNCHANGED <<config, workflow>>
       \/ /\ Written = "config" /\ config = Missing
          /\ config' = Empty
          /\ UNCHANGED <<workflow, rules>>
       \/ /\ Written = "workflow" /\ workflow = Missing
          /\ workflow' = Empty
          /\ UNCHANGED <<config, rules>>
    /\ writing' = Idle
    /\ UNCHANGED exported

(***************************************************************************)
(* The files of an export that ended well are of one configuration, the    *)
(* one it read, although the configuration may change while it writes      *)
(* them, and a killed or refused export before it may have left any of     *)
(* them with other rules or with none.                                     *)
(***************************************************************************)
ExportIsOfOneConfig ==
    exported # Idle =>
        \A i \in DOMAIN Emitted(exported.emit, exported.of) :
            rules[Emitted(exported.emit, exported.of)[i]] = ExportBody(exported.of)
=============================================================================
