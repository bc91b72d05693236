------------------------------- MODULE Guards --------------------------------
(***************************************************************************)
(* Guardrails: the process-wide registry (guardrail/registry.rs), the      *)
(* built-in checks (guardrail/builtin.rs) and CEL expressions              *)
(* (guardrail/cel.rs).  A stage is run over the guardrails registered when *)
(* it began, one after the other, while others may be registered.          *)
(*                                                                         *)
(* A payload is what it says in strings (values), in the keys and numbers  *)
(* around them (frame), how long it is, and what its metadata is.  A       *)
(* pattern is a word.                                                      *)
(***************************************************************************)
EXTENDS Integers, Sequences, FiniteSets

CONSTANTS
  Guardrails,     \* guardrails an application registers
  Payloads,       \* [values, frame, length, field]: what is checked
  Heuristics,     \* the words of INJECTION_PATTERNS
  Mark,           \* what a match is replaced by
  MaxGuardrails   \* guardrails registered at a time

Kinds == {"regex", "allow_list", "deny_list", "length", "injection", "cel"}

ASSUME GuardsAssumption ==
  /\ \A g \in Guardrails : g.kind \in Kinds
  /\ Payloads # {}
  /\ \A p \in Payloads : p = [values |-> p.values, frame |-> p.frame, length |-> p.length, field |-> p.field]

VARIABLE
  guards          \* the registry and one run of a stage, see NoRun

Stages == {"Input", "Output", "OutputChunk"}

Allow == [is |-> "allow"]
BlockWith(code) == [is |-> "block", code |-> code]
MutateTo(payload) == [is |-> "mutate", payload |-> payload]

-----------------------------------------------------------------------------
(* What each guardrail decides of a payload.                               *)

\* The text of a request or a response is its JSON, that of a chunk is itself.
TextWords(stage, p) ==
  IF stage = "OutputChunk" THEN p.values ELSE p.values \cup p.frame

\* redact_in_place replaces inside strings only.
Redact(p, word) ==
  IF word \in p.values THEN [p EXCEPT !.values = (@ \ {word}) \cup {Mark}] ELSE p

\* The pattern is found in the text but may stand in no string.
CheckRegex(g, stage, p) ==
  CASE g.word \notin TextWords(stage, p) -> Allow
    [] g.word \in TextWords(stage, p) /\ g.action = "block" -> BlockWith(g.code)
    [] OTHER -> IF Redact(p, g.word) = p THEN Allow ELSE MutateTo(Redact(p, g.word))

\* The lists look at a field of the metadata, "" if it is absent.
CheckAllowList(g, p) ==
  IF p.field \in g.list THEN Allow ELSE BlockWith(IF p.field = "" THEN 1002 ELSE 1001)

CheckDenyList(g, p) == IF p.field \in g.list THEN BlockWith(1003) ELSE Allow

CheckLength(g, p) == IF p.length > g.max THEN BlockWith(1004) ELSE Allow

CheckInjection(stage, p) ==
  IF TextWords(stage, p) \cap Heuristics # {} THEN BlockWith(1005) ELSE Allow

\* What a CEL expression does when it is true: CelAction, which puts a payload of
\* its own in place of any.
OnTrue(g) == IF g.action = "mutate" THEN MutateTo(g.payload) ELSE BlockWith(g.code)

\* A CEL expression that fails or is not a Boolean blocks, unless it fails open.
CheckCel(g, p) ==
  CASE g.outcome = "error" -> IF g.failOpen THEN Allow ELSE BlockWith(4001)
    [] g.outcome = "word" /\ g.word \in p.values -> OnTrue(g)
    [] OTHER -> Allow

Decides(g, stage, p) ==
  CASE g.kind = "regex" -> CheckRegex(g, stage, p)
    [] g.kind = "allow_list" -> CheckAllowList(g, p)
    [] g.kind = "deny_list" -> CheckDenyList(g, p)
    [] g.kind = "length" -> CheckLength(g, p)
    [] g.kind = "injection" -> CheckInjection(stage, p)
    [] g.kind = "cel" -> CheckCel(g, p)

-----------------------------------------------------------------------------
(* The registry and a run.                                                 *)

NoRun == [registered |-> <<>>, st |-> "idle", stage |-> "Input", payload |-> CHOOSE p \in Payloads : TRUE,
          todo |-> <<>>, began |-> <<>>, mutation |-> Allow, decision |-> Allow]

RegisterGuardrail(g) ==
  /\ Len(guards.registered) < MaxGuardrails
  /\ guards' = [guards EXCEPT !.registered = Append(@, g)]

ClearGuardrails ==
  /\ guards.registered # <<>>
  /\ guards' = [guards EXCEPT !.registered = <<>>]

\* run_stage: the guardrails are taken as they are registered now.
BeginStage(stage, p) ==
  /\ guards.st = "idle"
  /\ guards' = [guards EXCEPT !.st = "running", !.stage = stage, !.payload = p,
                              !.todo = guards.registered, !.began = guards.registered]

\* The first mutation ends the run.
AfterCheckFirst(run, decision) ==
  IF decision.is = "allow" THEN run ELSE [run EXCEPT !.decision = decision, !.todo = <<>>]

\* A block ends the run; a mutation is kept, the last one counts.
AfterCheck(run, decision) ==
  CASE decision.is = "allow" -> run
    [] decision.is = "block" -> [run EXCEPT !.decision = decision, !.todo = <<>>]
    [] decision.is = "mutate" -> [run EXCEPT !.mutation = decision]

\* One guardrail is asked, about the payload as it was given to the stage.
CheckNext ==
  /\ guards.st = "running" /\ guards.todo # <<>>
  /\ LET g == Head(guards.todo)
         next == [guards EXCEPT !.todo = Tail(@)]
     IN guards' = IF guards.stage \in g.stages
                  THEN AfterCheck(next, Decides(g, guards.stage, guards.payload)) ELSE next

EndStage ==
  /\ guards.st = "running" /\ guards.todo = <<>>
  /\ guards' = [guards EXCEPT !.st = "decided",
                              !.decision = IF @.is = "block" THEN @ ELSE guards.mutation]

\* The layer takes the decision and the next run begins afresh.
TakeDecision ==
  /\ guards.st = "decided"
  /\ guards' = [NoRun EXCEPT !.registered = guards.registered]

GuardsInit == guards = NoRun
GuardsNext ==
  \/ \E g \in Guardrails : RegisterGuardrail(g)
  \/ \E stage \in Stages, p \in Payloads : BeginStage(stage, p)
  \/ ClearGuardrails \/ CheckNext \/ EndStage \/ TakeDecision

-----------------------------------------------------------------------------
(* Properties.                                                             *)

\* What is decided of a payload holds for every guardrail the run began with,
\* whatever is registered meanwhile: it blocks if one of them does, for the first
\* that does; it allows only if none found anything to block or to change; and it
\* mutates to what the last that does makes of the payload the run was given.  So
\* only the last counts: a redactor's payload has lost its word, but the words of
\* the other redactors are in it; a CEL expression's is its own, whatever was
\* redacted before.
DecisionSound ==
  guards.st = "decided" =>
    LET asked == {k \in DOMAIN guards.began : guards.stage \in guards.began[k].stages}
        Says(k) == Decides(guards.began[k], guards.stage, guards.payload)
        blocks == {k \in asked : Says(k).is = "block"}
        mutates == {k \in asked : Says(k).is = "mutate"}
        redacts == {k \in mutates : guards.began[k].kind = "regex"}
        Word(k) == guards.began[k].word
        d == guards.decision
    IN /\ d.is = "block" <=> blocks # {}
       /\ d.is = "block" => \E k \in blocks : Says(k) = d /\ \A j \in blocks : k <= j
       /\ d.is = "allow" => mutates = {}
       /\ d.is = "mutate" =>
            \E k \in mutates :
              /\ \A j \in mutates : j <= k
              /\ IF k \in redacts
                 THEN /\ Word(k) \notin d.payload.values
                      /\ \A j \in redacts : Word(j) # Word(k) => Word(j) \in d.payload.values
                 ELSE d.payload = guards.began[k].payload
=============================================================================
