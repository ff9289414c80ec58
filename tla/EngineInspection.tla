---------------------------- MODULE EngineInspection ----------------------------
(***************************************************************************)
(* What the engine shows of a registration (WorkSurfaceEngine.inspect, and *)
(* the projections of packages/core/src/orchestration.ts): the flow that   *)
(* its definition plans, the flow that has happened, its runs, and whether *)
(* its conditions hold.  It is computed from the records and the streams   *)
(* as they are, by other code than that which acts on them.                *)
(***************************************************************************)
EXTENDS Engine

(***************************************************************************)
(* Flow: subscription, role of a source, role of a target.                 *)
(***************************************************************************)
ExpressionRoles(c) ==
  IF c.kind \in {"all", "any"} THEN {c.parts[i].role : i \in DOMAIN c.parts} ELSE {c.role}
TargetRoles(s) ==
  IF s \in Handlers THEN Emits[s]
  ELSE UNION {{o.actions[i].role : i \in DOMAIN o.actions} : o \in Outcomes[s]}

PlannedFlow ==
  UNION {[sub : {s}, source : ExpressionRoles(When[s]), target : TargetRoles(s)] :
           s \in Subscriptions}

Sources(a) == UNION {records[n].refs : n \in {m \in Of("opened") : records[m].act = a}}
ActualFlow ==
  UNION {LET o == Operation(n) IN
         [sub : {o.act.sub}, source : {ref.role : ref \in Sources(o.act)}, target : {o.op.role}] :
           n \in {m \in Of("recorded") : Identity(Operation(m)) \in Settled}}

(***************************************************************************)
(* Conditions as they are shown: of all keys together, and as of now.      *)
(***************************************************************************)
Number(view, c) == Cardinality(Matching(Events, view, c.role, c.name))

PartShown(view, c) ==
  CASE c.kind = "one" -> Number(view, c) > 0
    [] c.kind = "count" ->
         \/ c.operator = "eq" /\ Number(view, c) = c.value
         \/ c.operator = "gte" /\ Number(view, c) >= c.value
         \/ c.operator = "lte" /\ Number(view, c) <= c.value
    [] c.kind = "sequence" -> Chain(Events, view, c)[Len(c.names)] # {}

Shown(view, c) ==
  CASE c.kind = "all" -> \A i \in DOMAIN c.parts : PartShown(view, c.parts[i])
    [] c.kind = "any" -> \E i \in DOMAIN c.parts : PartShown(view, c.parts[i])
    [] OTHER -> PartShown(view, c)

InspectCondition(s) ==
  Shown(Eligible(s, [r \in Roles |-> Len(stream[Bindings[r]])]), When[s])

(***************************************************************************)
(* Runs.                                                                   *)
(***************************************************************************)
PendingOperations(a) == {o \in Recorded \ Settled : o[1] = a}
RunStatus(a) ==
  IF a \in Done THEN "settled"
  ELSE IF \E n \in Of("failed") : records[n].act = a THEN "retryable-failure"
  ELSE "running"

(***************************************************************************)
(* Properties.                                                             *)
(***************************************************************************)
\* A part that counts exactly, or up to a number, and has more by now: evaluateOne
\* is about the moment when it came true (orchestration.ts:157).
Exceeded(s) ==
  LET view == Eligible(s, [r \in Roles |-> Len(stream[Bindings[r]])])
      over(c) == c.kind = "count" /\ c.operator # "gte" /\ Number(view, c) > c.value
  IN  IF When[s].kind \in {"all", "any"}
      THEN \E i \in DOMAIN When[s].parts : over(When[s].parts[i])
      ELSE over(When[s])

\* What is shown agrees with what was done: whatever flowed was planned, code
\* and recovery included; what has reacted had a reason that still shows, unless it
\* was an exact count; a settled run has nothing pending; and once an active
\* registration is at rest, what is shown as a failure waits for a resume (unless
\* it has failed twice in the same words, or an error has ended the reconcile).
InspectionAgrees ==
  /\ ActualFlow \subseteq PlannedFlow
  /\ \A a \in Opened :
       /\ InspectCondition(a.sub) \/ Exceeded(a.sub)
       /\ RunStatus(a) = "settled" => PendingOperations(a) = {}
       /\ RunStatus(a) = "retryable-failure" =>
            \/ job # NoJob \/ chain # <<>> \/ Status # "active" \/ torn \/ missed
            \/ a \in repeated \/ FailureNeedsRetry(a)
=================================================================================
