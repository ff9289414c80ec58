--------------------- MODULE CodeFirstOrchestratorProofs ---------------------
(***************************************************************************)
(* The ledgers, batches and effects of the orchestrator, for any number of  *)
(* registrations, surfaces, runs, events, editors, errors and restarts.     *)
(***************************************************************************)
EXTENDS CodeFirstOrchestrator, WellFoundedInduction, TLAPS

(***************************************************************************)
(* The inductive invariant.                                                 *)
(***************************************************************************)
Heads == UNION {[S -> Nat] : S \in SUBSET Surfaces}
Plans == UNION {Batches(t) : t \in Triggers}
Workers == [at : Stages, owed : SUBSET Events, input : Nat, seen : Heads,
            plan : Plans \union {None}, run : Runs \union {None},
            todo : SUBSET Surfaces]
BusinessEvents ==
  [name : Names, scope : Registrations, by : Runs \union {None}]

\* What every variable the safety properties depend on may hold.
Types ==
  /\ batch \in [Runs -> Plans \union {None}]
  /\ stream \in [Surfaces -> Seq(BusinessEvents)]
  /\ tools \in [Surfaces -> Nat] /\ head \in [Surfaces -> Nat]
  /\ ledger \in [Registrations -> Seq(Events)]
  /\ wakeups \in [Registrations -> SUBSET SUBSET Events]
  /\ worker \in [Registrations -> Workers]
  /\ \A r \in Registrations : r \notin admitted => wakeups[r] = {}
  /\ \A r \in Registrations : Len(ledger[r]) <= MaxInputs

\* The inputs of r before the n-th are finished.
DoneBefore(r, n) == \A m \in 1..(n - 1) : Done(r, m)

\* A batch is for an accepted input, and was recorded when its turn had come.
BatchesInOrder ==
  \A q \in Recorded :
    LET t == batch[q].trigger IN
    /\ batch[q] \in Batches(t) /\ t \in Triggers
    /\ t[2] \in DOMAIN ledger[t[1]]
    /\ DoneBefore(t[1], t[2])

\* No surface is held by two pending batches, and no input has two batches.
BatchesApart ==
  \A p, q \in Recorded : p # q =>
    /\ batch[p].trigger # batch[q].trigger
    /\ {p, q} \subseteq Pending => Touches(p) \intersect Touches(q) = {}

\* An interrupted apply is not in the applied facts yet, and no other pending
\* batch holds its surface, even after its own batch was settled as failed.
LeftHeldAlone ==
  \A i \in left :
    /\ i \notin applied
    /\ \A q \in Pending \ {i[1]} : i[2] \notin Touches(q)

\* What the drain of r has established when it comes to a stage as w.
Ready(r, w) ==
  /\ w.at \in {"head", "code", "record", "apply", "emit"} =>
       w.input \in DOMAIN ledger[r] /\ DoneBefore(r, w.input)
  /\ w.at = "head" => /\ w.todo \subseteq Bindings[r]
                      /\ w.seen \in [Bindings[r] \ w.todo -> Nat]
  /\ w.at = "code" => w.seen \in [Bindings[r] -> Nat]
  /\ w.at = "record" => w.plan \in Batches(<<r, w.input>>)
  /\ w.at \in {"apply", "emit", "fail"} =>
       w.run \in Recorded /\ batch[w.run].trigger[1] = r
  /\ w.at \in {"apply", "emit"} => w.run \in Pending
  /\ w.at = "apply" => /\ w.todo \subseteq Bindings[r]
                       /\ \A s \in Bindings[r] \ w.todo : <<w.run, s>> \in applied
  /\ w.at = "emit" => \A s \in Bindings[r] : <<w.run, s>> \in applied
WorkersReady == \A r \in Registrations : Ready(r, worker[r])

\* Events carried out for a batch carry the registration of its input.
EventsAreScoped ==
  \A s \in Surfaces : \A n \in DOMAIN stream[s] :
    LET e == stream[s][n] IN
    e.by # None => e.by \in Recorded /\ e.scope = batch[e.by].trigger[1]

OrchestratorInv ==
  /\ Types /\ TypeOK
  /\ BatchesInOrder /\ BatchesApart
  /\ LeftHeldAlone
  /\ WorkersReady
  /\ EventsAreScoped /\ EffectsOnce
  /\ ContentBeforeEffects /\ SettledMeansDone /\ PendingHoldsHeads

-----------------------------------------------------------------------------
(***************************************************************************)
(* Facts about the constants and the operators.                             *)
(***************************************************************************)
LEMMA TriggerFacts ==
  /\ \A r \in Registrations, n \in 1..MaxInputs :
       /\ <<r, n>> \in Triggers /\ Bound[<<r, n>>] = Bindings[r]
       /\ Bindings[r] \subseteq Surfaces
  /\ \A t \in Triggers : /\ t[1] \in Registrations /\ t[2] \in 1..MaxInputs
                        /\ t = <<t[1], t[2]>>
                        /\ Bound[t] = Bindings[t[1]] /\ Bound[t] \subseteq Surfaces
  /\ MaxInputs \in Nat
BY OrchestratorAssumption

\* A log that is appended to.
LEMMA AppendFacts ==
  ASSUME NEW S, NEW f \in Seq(S), NEW x \in S
  PROVE  /\ Append(f, x) \in Seq(S)
         /\ Len(Append(f, x)) = Len(f) + 1
         /\ DOMAIN Append(f, x) = DOMAIN f \union {Len(f) + 1}
         /\ \A n \in DOMAIN f : Append(f, x)[n] = f[n]
         /\ Append(f, x)[Len(f) + 1] = x
         /\ Len(f) \in Nat /\ DOMAIN f = 1..Len(f)
OBVIOUS

\* The drain looks at the first unfinished input (records.find).
LEMMA EarliestIsFirst ==
  ASSUME NEW open \in SUBSET Nat, open # {}
  PROVE  Earliest(open) \in open /\ \A k \in open : Earliest(open) <= k
<1> DEFINE less == {ss \in Nat \X Nat : ss[1] < ss[2]}
<1>1. less = OpToRel(<, Nat)
  BY DEF OpToRel
<1>2. IsWellFoundedOn(less, Nat)
  BY <1>1, NatLessThanWellFounded
<1>3. \E x \in open : \A y \in open : <<y, x>> \notin less
  BY <1>2, WFMin
<1>4. PICK x \in open : \A y \in open : <<y, x>> \notin less
  BY <1>3
<1>5. ASSUME NEW y \in open PROVE x <= y
  <2>1. x \in Nat /\ y \in Nat /\ <<y, x>> \notin less
    BY <1>4
  <2> QED
    BY <2>1
<1> QED
  BY <1>5 DEF Earliest

\* A batch of an input touches the surfaces of its registration.
LEMMA BatchFacts ==
  ASSUME BatchesInOrder, NEW q \in Recorded
  PROVE  /\ Touches(q) = Bindings[batch[q].trigger[1]]
         /\ Touches(q) \subseteq Surfaces
         /\ batch[q].trigger[1] \in Registrations
         /\ batch[q].trigger[2] \in Nat
         /\ batch[q].changes \subseteq Touches(q)
         /\ batch[q].base \in [Touches(q) -> Nat]
         /\ batch[q].effects \subseteq Effects(Touches(q))
         /\ \A e \in batch[q].effects : e.kind = "event" =>
              <<e.surface, e.name>> \in Emits[batch[q].trigger[1]]
<1>1. batch[q] \in Batches(batch[q].trigger) /\ batch[q].trigger \in Triggers
  BY DEF BatchesInOrder
<1>2. batch[q].trigger[1] \in Registrations /\ batch[q].trigger[2] \in Nat
  BY <1>1, TriggerFacts
<1>3. Touches(q) = Bindings[batch[q].trigger[1]] /\ Touches(q) \subseteq Surfaces
  BY <1>1, TriggerFacts DEF Touches
<1>4. /\ batch[q].changes \subseteq Touches(q)
      /\ batch[q].base \in [Touches(q) -> Nat]
      /\ \A e \in batch[q].effects :
           /\ e \in Effects(Touches(q))
           /\ e.kind = "event" => <<e.surface, e.name>> \in Emits[batch[q].trigger[1]]
  BY <1>1 DEF Batches, Touches
<1> QED
  BY <1>2, <1>3, <1>4

\* A worker that has read the head of the surfaces in S only.
LEMMA HeadsOf ==
  ASSUME NEW S \in SUBSET Surfaces, NEW f \in [S -> Nat]
  PROVE  f \in Heads
BY DEF Heads

\* A worker at rest has its type.
LEMMA IdleWorks == Idle \in Workers
<1>1. <<>> \in [{} -> Nat]
  OBVIOUS
<1>2. <<>> \in Heads
  BY <1>1, HeadsOf
<1> QED
  BY <1>2 DEF Idle, Workers, Stages

\* At the stages outside of an input nothing has to be established.
LEMMA RestIsReady ==
  ASSUME NEW r \in Registrations, NEW w \in Workers,
         w.at \in {"idle", "append", "drain"}
  PROVE  Ready(r, w)
BY DEF Ready

-----------------------------------------------------------------------------
(***************************************************************************)
(* What one step may do to the disk.                                        *)
(***************************************************************************)
Takes(r, ref) ==
  /\ At(r, "append") /\ ref \in worker[r].owed \ Accepted(r)
  /\ Len(ledger[r]) < MaxInputs
  /\ ledger' = [ledger EXCEPT ![r] = Append(@, ref)]
  /\ UNCHANGED <<streams, content, followups, ledgerVars>>

Records(r, q) ==
  /\ At(r, "record") /\ left = {} /\ q \in Fresh
  /\ Recordable(worker[r].plan) /\ Record(q, worker[r].plan)
  /\ UNCHANGED <<streams, content, followups, ledger>>

Settles(r) ==
  /\ At(r, "emit") /\ Owed(worker[r].run) = {} /\ Settle(worker[r].run)
  /\ worker'[r].at \notin {"apply", "emit"}
  /\ UNCHANGED <<streams, content, followups, ledger>>

Fails(r) ==
  /\ At(r, "fail") /\ SettleFailed(worker[r].run)
  /\ UNCHANGED <<streams, content, followups, ledger>>

Applies(r, s) ==
  LET q == worker[r].run IN
  /\ At(r, "apply") /\ left = {} /\ s \in worker[r].todo
  /\ <<q, s>> \notin applied /\ ~Reserved(s, q)
  /\ head[s] = batch[q].base[s]
  /\ Move(<<q, s>>)
  /\ UNCHANGED <<streams, left, followups, ledger, ledgerVars>>

Leaves(r) ==
  /\ At(r, "apply") /\ LeaveIntent(worker[r].run, worker[r].todo)
  /\ UNCHANGED <<streams, head, applied, followups, ledger, ledgerVars>>

Finishes(i) ==
  /\ i \in left /\ Move(i) /\ left' = left \ {i}
  /\ UNCHANGED <<streams, followups, ledger, ledgerVars>>

Tells(r, e) ==
  LET q == worker[r].run IN
  /\ At(r, "emit") /\ e \in Owed(q) /\ e.kind = "event"
  /\ stream' = [stream EXCEPT ![e.surface] =
                    Append(@, BusinessEvent(e.name, r, q))]
  /\ UNCHANGED <<tools, content, followups, ledger, ledgerVars>>

Advances(r, e) ==
  LET q == worker[r].run IN
  /\ At(r, "emit") /\ e \in Owed(q) /\ e.kind # "event"
  /\ followups' = followups \union {<<q, e.surface>>}
  /\ UNCHANGED <<streams, content, ledger, ledgerVars>>

TellsOutside(s, name, r) ==
  /\ stream' = [stream EXCEPT ![s] = Append(@, BusinessEvent(name, r, None))]
  /\ UNCHANGED <<tools, content, followups, ledger, ledgerVars>>

Executes(s) ==
  /\ tools' = [tools EXCEPT ![s] = @ + 1]
  /\ UNCHANGED <<stream, content, followups, ledger, ledgerVars>>

Publishes(s) ==
  /\ ~Reserved(s, None)
  /\ head' = [head EXCEPT ![s] = @ + 1]
  /\ UNCHANGED <<streams, applied, left, followups, ledger, ledgerVars>>

DurableStep ==
  \/ \E r \in Registrations :
       \/ \E ref \in Events : Takes(r, ref)
       \/ \E q \in Runs : Records(r, q)
       \/ Settles(r) \/ Fails(r) \/ Leaves(r)
       \/ \E s \in Surfaces : Applies(r, s)
       \/ \E e \in EffectsOf(r) : Tells(r, e) \/ Advances(r, e)
  \/ \E i \in left : Finishes(i)
  \/ \E s \in Surfaces :
       \/ \E name \in Names, r \in Registrations : TellsOutside(s, name, r)
       \/ Executes(s) \/ Publishes(s)
  \/ UNCHANGED durable

\* Whatever a worker was at when its drain caught an error, it is not applying
\* any more.
LEMMA CaughtRests ==
  ASSUME NEW r \in Registrations, worker \in [Registrations -> Workers], Caught(r)
  PROVE  worker'[r].at \in {"idle", "fail"}
BY DEF Caught, Becomes, Idle

\* Every action of the model is one of these for the durable state.
LEMMA StepsAreDurable ==
  ASSUME Types, [Next]_vars
  PROVE  DurableStep
<1> USE DEF Types
<1>1. ASSUME NEW r \in Registrations, Work(r) PROVE DurableStep
  <2>1. CASE AppendInput(r)
    <3>1. PICK ref \in worker[r].owed :
            /\ ref \in Accepted(r) \/ Len(ledger[r]) < MaxInputs
            /\ ledger' = IF ref \in Accepted(r) THEN ledger
                         ELSE [ledger EXCEPT ![r] = Append(@, ref)]
      BY <2>1 DEF AppendInput
    <3>2. At(r, "append") /\ UNCHANGED <<streams, content, followups, ledgerVars>>
      BY <2>1 DEF AppendInput
    <3>3. ref \in Events
      BY DEF Workers
    <3>4. CASE ref \in Accepted(r)
      BY <3>1, <3>2, <3>4 DEF DurableStep, durable
    <3>5. CASE ref \notin Accepted(r)
      BY <3>1, <3>2, <3>3, <3>5 DEF DurableStep, Takes
    <3> QED
      BY <3>4, <3>5
  <2>2. CASE RecordBatch(r)
    <3>1. CASE UNCHANGED durable
      BY <3>1 DEF DurableStep
    <3>2. CASE ~UNCHANGED durable
      <4> DEFINE q == CHOOSE q \in Fresh : TRUE
      <4>1. q \in Fresh /\ q \in Runs
        BY <2>2 DEF RecordBatch, Fresh
      <4>2. Records(r, q)
        BY <2>2, <3>2, <4>1 DEF RecordBatch, Records
      <4> QED
        BY <4>1, <4>2 DEF DurableStep
    <3> QED
      BY <3>1, <3>2
  <2>3. CASE \E s \in Bindings[r] : ApplySurface(r, s)
    <3>1. PICK s \in Bindings[r] : ApplySurface(r, s)
      BY <2>3
    <3>2. s \in Surfaces
      BY TriggerFacts, OrchestratorAssumption
    <3>3. CASE UNCHANGED <<applied, head>>
      BY <3>1, <3>3 DEF ApplySurface, DurableStep, durable, content
    <3>4. CASE ~UNCHANGED <<applied, head>>
      <4>1. Applies(r, s)
        BY <3>1, <3>4 DEF ApplySurface, Applies
      <4> QED
        BY <3>2, <4>1 DEF DurableStep
    <3> QED
      BY <3>3, <3>4
  <2>4. CASE \E e \in EffectsOf(r) : CarryOut(r, e)
    <3>1. PICK e \in EffectsOf(r) : CarryOut(r, e)
      BY <2>4
    <3>2. Tells(r, e) \/ Advances(r, e)
      BY <3>1 DEF CarryOut, Tells, Advances, streams
    <3> QED
      BY <3>2 DEF DurableStep
  <2>5. CASE SettleBatch(r)
    <3>1. Settles(r)
      BY <2>5 DEF SettleBatch, Settles, Becomes, Idle
    <3> QED
      BY <3>1 DEF DurableStep
  <2>6. CASE SettleAsFailed(r)
    <3>1. CASE worker[r].run \in failed
      BY <2>6, <3>1 DEF SettleAsFailed, DurableStep, durable
    <3>2. CASE worker[r].run \notin failed
      BY <2>6, <3>2 DEF SettleAsFailed, DurableStep, Fails
    <3> QED
      BY <3>1, <3>2
  <2>7. CASE \/ Drain(r) \/ RunCode(r) \/ Blocked(r)
             \/ \E s \in Bindings[r] : ReadHead(r, s)
    BY <2>7 DEF Drain, RunCode, Blocked, ReadHead, DurableStep
  <2> QED
    BY <1>1, <2>1, <2>2, <2>3, <2>4, <2>5, <2>6, <2>7 DEF Work
<1>2. ASSUME NEW r \in Registrations, Host(r) PROVE DurableStep
  <2>1. UNCHANGED durable
    BY <1>2 DEF Host, Measure, PutRegistration, Retire, Deliver, Recover,
                RecoverExternal, Dispatch, Take
  <2> QED
    BY <2>1 DEF DurableStep
<1>3. ASSUME NEW r \in Registrations, Throw(r) PROVE DurableStep
  <2>0. UNCHANGED <<streams, head, applied, followups, ledger>>
    BY <1>3 DEF Throw
  <2>1. CASE UNCHANGED <<left, ledgerVars>>
    BY <2>0, <2>1 DEF DurableStep, durable, content
  <2>2. CASE At(r, "apply") /\ LeaveIntent(worker[r].run, worker[r].todo)
             /\ UNCHANGED ledgerVars
    <3>1. Leaves(r)
      BY <2>0, <2>2 DEF Leaves
    <3> QED
      BY <3>1 DEF DurableStep
  <2>3. CASE /\ At(r, "emit") /\ Owed(worker[r].run) = {}
             /\ Settle(worker[r].run) /\ UNCHANGED left /\ Caught(r)
    <3>1. worker'[r].at \notin {"apply", "emit"}
      BY <2>3, CaughtRests
    <3>2. Settles(r)
      BY <2>0, <2>3, <3>1 DEF Settles, content
    <3> QED
      BY <3>2 DEF DurableStep
  <2>4. CASE /\ At(r, "record") /\ left = {} /\ Fresh # {}
             /\ Recordable(worker[r].plan) /\ UNCHANGED left
             /\ Record(CHOOSE q \in Fresh : TRUE, worker[r].plan)
    <3> DEFINE q == CHOOSE q \in Fresh : TRUE
    <3>1. q \in Fresh /\ q \in Runs
      BY <2>4 DEF Fresh
    <3>2. Records(r, q)
      BY <2>0, <2>4, <3>1 DEF Records, content
    <3> QED
      BY <3>1, <3>2 DEF DurableStep
  <2>5. (At(r, "emit") /\ Caught(r)) \/ ~At(r, "emit") \/ At(r, "record")
    BY <1>3 DEF Throw, At
  <2> QED
    BY <1>3, <2>1, <2>2, <2>3, <2>4, <2>5 DEF Throw, At
<1>4. ASSUME NEW i \in left, FinishLeft(i) PROVE DurableStep
  BY <1>4 DEF FinishLeft, DurableStep, Finishes
<1>5. ASSUME NEW s \in Surfaces, NEW name \in Names, EmitTurn(s, name)
      PROVE DurableStep
  <2>1. PICK r \in Registrations :
          stream' = [stream EXCEPT ![s] = Append(@, BusinessEvent(name, r, None))]
    BY <1>5 DEF EmitTurn
  <2>2. TellsOutside(s, name, r)
    BY <1>5, <2>1 DEF EmitTurn, TellsOutside
  <2> QED
    BY <2>2 DEF DurableStep
<1>6. ASSUME NEW s \in Surfaces, CompleteTool(s) PROVE DurableStep
  BY <1>6 DEF CompleteTool, DurableStep, Executes
<1>7. ASSUME NEW s \in Surfaces, PublishTurn(s) PROVE DurableStep
  BY <1>7 DEF PublishTurn, Publication, DurableStep, Publishes
<1>8. ASSUME NEW s \in Surfaces, Edit(s) PROVE DurableStep
  BY <1>8 DEF Edit, DurableStep
<1>9. CASE Crash
  <2>0. UNCHANGED <<streams, head, applied, followups, ledger, ledgerVars>>
    BY <1>9 DEF Crash, Restart
  <2>1. CASE UNCHANGED left
    BY <2>0, <2>1 DEF DurableStep, durable, content
  <2>2. CASE \E r \in Registrations :
               At(r, "apply") /\ LeaveIntent(worker[r].run, worker[r].todo)
    <3>1. \E r \in Registrations : Leaves(r)
      BY <2>0, <2>2 DEF Leaves
    <3> QED
      BY <3>1 DEF DurableStep
  <2> QED
    BY <1>9, <2>1, <2>2 DEF Crash, Restart
<1>10. CASE UNCHANGED vars
  BY <1>10 DEF vars, DurableStep
<1> QED
  BY <1>1, <1>2, <1>3, <1>4, <1>5, <1>6, <1>7, <1>8, <1>9, <1>10 DEF Next

-----------------------------------------------------------------------------
(***************************************************************************)
(* Durable facts are never taken back.                                      *)
(***************************************************************************)
\* A run is drawn fresh, and what is recorded for it is a batch.
LEMMA RecordFacts ==
  ASSUME OrchestratorInv, NEW r \in Registrations, NEW q \in Runs, Records(r, q)
  PROVE  /\ q \notin Recorded /\ q \notin settled /\ q \notin failed
         /\ batch' = [batch EXCEPT ![q] = worker[r].plan]
         /\ batch'[q] = worker[r].plan /\ batch'[q] # None
         /\ batch'[q] \in Batches(<<r, worker[r].input>>)
         /\ batch'[q].trigger = <<r, worker[r].input>>
         /\ <<r, worker[r].input>> \in Triggers
         /\ Recorded' = Recorded \union {q} /\ Pending' = Pending \union {q}
         /\ \A p \in Recorded : p # q /\ batch'[p] = batch[p]
         /\ Touches(q)' = Bindings[r]
         /\ \A p \in Recorded : Touches(p)' = Touches(p)
<1> USE DEF OrchestratorInv
<1>1. /\ batch[q] = None /\ batch' = [batch EXCEPT ![q] = worker[r].plan]
      /\ settled' = settled /\ failed' = failed /\ CanRecord(worker[r].plan)
  BY DEF Records, Record
<1>2. DOMAIN batch = Runs
  BY DEF Types
<1>3. /\ worker[r].plan \in Batches(<<r, worker[r].input>>)
      /\ worker[r].input \in DOMAIN ledger[r]
  BY DEF WorkersReady, Ready, Records, At
<1>4. <<r, worker[r].input>> \in Triggers
  <2>1. worker[r].input \in 1..MaxInputs
    BY <1>3, TriggerFacts DEF Types
  <2> QED
    BY <2>1, TriggerFacts
<1>5. worker[r].plan # None /\ worker[r].plan.trigger = <<r, worker[r].input>>
  <2>1. worker[r].plan # None
    BY <1>3, <1>4, OrchestratorAssumption
  <2>2. worker[r].plan.trigger = <<r, worker[r].input>>
    BY <1>3 DEF Batches
  <2> QED
    BY <2>1, <2>2
<1>6. q \notin Recorded /\ q \notin settled /\ q \notin failed
  BY <1>1 DEF Recorded, TypeOK
<1>7. Recorded' = Recorded \union {q}
  BY <1>1, <1>2, <1>5 DEF Recorded
<1>8. Pending' = Pending \union {q}
  BY <1>1, <1>6, <1>7 DEF Pending
<1>9. \A p \in Recorded : p # q /\ batch'[p] = batch[p]
  BY <1>1, <1>2, <1>6 DEF Recorded
<1>10. batch'[q] = worker[r].plan
  BY <1>1, <1>2
<1>11. Touches(q)' = Bindings[r]
  BY <1>10, <1>5, <1>4, TriggerFacts DEF Touches
<1>12. \A p \in Recorded : Touches(p)' = Touches(p)
  BY <1>9 DEF Touches
<1> QED
  BY <1>1, <1>3, <1>4, <1>5, <1>6, <1>7, <1>8, <1>9, <1>10, <1>11, <1>12

\* What a worker is about to carry out for its batch.
LEMMA OwedFacts ==
  ASSUME OrchestratorInv, NEW r \in Registrations, At(r, "emit"),
         NEW e \in Owed(worker[r].run)
  PROVE  /\ worker[r].run \in Pending /\ worker[r].run \in Runs
         /\ worker[r].run \in Recorded
         /\ batch[worker[r].run].trigger[1] = r
         /\ Touches(worker[r].run) = Bindings[r]
         /\ e \in batch[worker[r].run].effects /\ ~Carried(worker[r].run, e)
         /\ e.surface \in Bindings[r] /\ e.surface \in Surfaces
         /\ e.kind = "event" =>
              /\ e = [kind |-> "event", surface |-> e.surface, name |-> e.name]
              /\ e.name \in Names
              /\ <<e.surface, e.name>> \in Emits[r]
              /\ BusinessEvent(e.name, r, worker[r].run) \in BusinessEvents
         /\ e.kind # "event" => e = [kind |-> "advance", surface |-> e.surface]
<1> DEFINE q == worker[r].run
<1>1. /\ q \in Pending /\ q \in Recorded /\ q \in Runs
      /\ batch[q].trigger[1] = r
  BY DEF OrchestratorInv, WorkersReady, Ready, At, Pending, Recorded
<1>2. /\ Touches(q) = Bindings[r] /\ Bindings[r] \subseteq Surfaces
      /\ batch[q].effects \subseteq Effects(Touches(q))
      /\ \A x \in batch[q].effects :
           x.kind = "event" => <<x.surface, x.name>> \in Emits[r]
  BY <1>1, BatchFacts DEF OrchestratorInv
<1>3. e \in batch[q].effects /\ ~Carried(q, e)
  BY DEF Owed
<1>4. e \in Effects(Bindings[r])
  BY <1>2, <1>3
<1>5. /\ e.surface \in Bindings[r]
      /\ e.kind = "event" =>
           /\ e = [kind |-> "event", surface |-> e.surface, name |-> e.name]
           /\ e.name \in Names
      /\ e.kind # "event" => e = [kind |-> "advance", surface |-> e.surface]
  BY <1>4 DEF Effects
<1>6. e.kind = "event" => BusinessEvent(e.name, r, q) \in BusinessEvents
  BY <1>1, <1>5 DEF BusinessEvent, BusinessEvents
<1> QED
  BY <1>1, <1>2, <1>3, <1>5, <1>6

\* What is appended to an input ledger or to a stream comes after the rest.
LEMMA LogsGrow ==
  ASSUME OrchestratorInv, DurableStep
  PROVE  /\ \A r \in Registrations : \A n \in DOMAIN ledger[r] :
              n \in DOMAIN ledger'[r] /\ ledger'[r][n] = ledger[r][n]
         /\ \A s \in Surfaces : \A n \in DOMAIN stream[s] :
              n \in DOMAIN stream'[s] /\ stream'[s][n] = stream[s][n]
<1> USE DEF OrchestratorInv, Types
<1> DEFINE LedgersGrow ==
             \A r \in Registrations : \A n \in DOMAIN ledger[r] :
               n \in DOMAIN ledger'[r] /\ ledger'[r][n] = ledger[r][n]
           StreamsGrow ==
             \A s \in Surfaces : \A n \in DOMAIN stream[s] :
               n \in DOMAIN stream'[s] /\ stream'[s][n] = stream[s][n]
<1>1. ASSUME NEW r \in Registrations, NEW ref \in Events, Takes(r, ref)
      PROVE  LedgersGrow /\ StreamsGrow
  <2>1. LedgersGrow
    BY <1>1, AppendFacts DEF Takes
  <2>2. StreamsGrow
    BY <1>1 DEF Takes, streams
  <2> QED
    BY <2>1, <2>2
<1>2. ASSUME NEW s \in Surfaces, NEW x \in BusinessEvents,
             stream' = [stream EXCEPT ![s] = Append(@, x)]
      PROVE  StreamsGrow
  BY <1>2, AppendFacts
<1>3. ASSUME NEW r \in Registrations, NEW e, Tells(r, e)
      PROVE  LedgersGrow /\ StreamsGrow
  BY <1>2, <1>3, OwedFacts DEF Tells
<1>4. ASSUME NEW s \in Surfaces, NEW name \in Names, NEW r \in Registrations,
             TellsOutside(s, name, r)
      PROVE  LedgersGrow /\ StreamsGrow
  <2>1. BusinessEvent(name, r, None) \in BusinessEvents
    BY DEF BusinessEvent, BusinessEvents
  <2> QED
    BY <1>2, <1>4, <2>1 DEF TellsOutside
<1>5. CASE UNCHANGED <<stream, ledger>>
  BY <1>5
<1> QED
  BY <1>1, <1>3, <1>4, <1>5
     DEF DurableStep, Records, Settles, Fails, Leaves, Applies, Advances,
         Finishes, Executes, Publishes, streams, durable

\* Nothing durable is taken back: facts stay, batches stay what they are, and
\* what is done or carried out stays so.
LEMMA FactsAreKept ==
  ASSUME OrchestratorInv, DurableStep
  PROVE  /\ applied \subseteq applied' /\ followups \subseteq followups'
         /\ settled \subseteq settled' /\ failed \subseteq failed'
         /\ \A q \in Recorded : /\ q \in Recorded' /\ batch'[q] = batch[q]
                              /\ Touches(q)' = Touches(q)
         /\ \A r \in Registrations, n \in Nat : Done(r, n) => Done(r, n)'
         /\ \A q \in Recorded : \A e \in batch[q].effects :
              Carried(q, e) => Carried(q, e)'
<1>1. applied \subseteq applied' /\ followups \subseteq followups'
  BY DEF DurableStep, Takes, Records, Settles, Fails, Leaves, Applies, Tells,
         Advances, Finishes, TellsOutside, Executes, Publishes, Move, streams,
         content, durable
<1>2. settled \subseteq settled' /\ failed \subseteq failed'
  BY DEF DurableStep, Takes, Records, Settles, Fails, Leaves, Applies, Tells,
         Advances, Finishes, TellsOutside, Executes, Publishes, Record, Settle,
         SettleFailed, ledgerVars, durable
<1>3. ASSUME NEW q \in Recorded
      PROVE  q \in Recorded' /\ batch'[q] = batch[q] /\ Touches(q)' = Touches(q)
  <2>1. CASE \E r \in Registrations : \E p \in Runs : Records(r, p)
    BY <2>1, RecordFacts
  <2>2. CASE batch' = batch
    BY <2>2 DEF Recorded, Touches
  <2> QED
    BY <2>1, <2>2
       DEF DurableStep, Takes, Settles, Fails, Leaves, Applies, Tells, Advances,
           Finishes, TellsOutside, Executes, Publishes, Settle, SettleFailed,
           ledgerVars, durable
<1>4. ASSUME NEW q \in Recorded, q \notin Pending PROVE q \notin Pending'
  BY <1>2, <1>4 DEF Pending
<1>5. ASSUME NEW r \in Registrations, NEW n \in Nat, Done(r, n)
      PROVE  Done(r, n)'
  <2>1. PICK q \in Recorded : batch[q].trigger = <<r, n>> /\ q \notin Pending
    BY <1>5 DEF Done, RunsFor
  <2> QED
    BY <2>1, <1>3, <1>4 DEF Done, RunsFor
<1>6. ASSUME NEW q \in Recorded, NEW e \in batch[q].effects, Carried(q, e)
      PROVE  Carried(q, e)'
  <2>1. CASE e.kind = "event"
    <3>1. e.surface \in Surfaces
      BY BatchFacts DEF OrchestratorInv, Effects
    <3> QED
      BY <1>3, <1>6, <2>1, <3>1, LogsGrow DEF Carried, Emitted
  <2>2. CASE e.kind # "event"
    BY <1>1, <1>6, <2>2 DEF Carried
  <2> QED
    BY <2>1, <2>2
<1> QED
  BY <1>1, <1>2, <1>3, <1>5, <1>6

-----------------------------------------------------------------------------
(***************************************************************************)
(* Workers.                                                                 *)
(***************************************************************************)
\* A step does not undo what a worker has established, unless it settles the
\* very run the worker is at.
LEMMA ReadyIsKept ==
  ASSUME OrchestratorInv, DurableStep, NEW r \in Registrations, NEW w \in Workers,
         Ready(r, w),
         w.at \in {"apply", "emit"} => w.run \notin settled' \union failed'
  PROVE  Ready(r, w)'
<1>1. ASSUME w.at \in {"head", "code", "record", "apply", "emit"}
      PROVE  (w.input \in DOMAIN ledger[r] /\ DoneBefore(r, w.input))'
  <2>1. w.input \in DOMAIN ledger[r] /\ DoneBefore(r, w.input)
    BY <1>1 DEF Ready
  <2>2. w.input \in DOMAIN ledger'[r]
    BY <2>1, LogsGrow
  <2>3. w.input \in Nat
    BY DEF Workers
  <2>4. \A m \in 1..(w.input - 1) : m \in Nat
    BY <2>3
  <2>5. DoneBefore(r, w.input)'
    BY <2>1, <2>4, FactsAreKept DEF DoneBefore
  <2> QED
    BY <2>2, <2>5
<1>2. ASSUME w.at \in {"apply", "emit", "fail"}
      PROVE  (w.run \in Recorded /\ batch[w.run].trigger[1] = r)'
  BY <1>2, FactsAreKept DEF Ready
<1>3. ASSUME w.at \in {"apply", "emit"} PROVE (w.run \in Pending)'
  BY <1>2, <1>3 DEF Pending
<1>4. \A s \in Surfaces : <<w.run, s>> \in applied => <<w.run, s>> \in applied'
  BY FactsAreKept
<1>5. Bindings[r] \subseteq Surfaces
  BY OrchestratorAssumption
<1> QED
  BY <1>1, <1>2, <1>3, <1>4, <1>5 DEF Ready

\* Nobody else settles the run of a worker.
LEMMA OwnRunsStay ==
  ASSUME OrchestratorInv, DurableStep, NEW r \in Registrations,
         worker'[r] = worker[r], worker[r].at \in {"apply", "emit"}
  PROVE  worker[r].run \notin settled' \union failed'
<1>1. /\ worker[r].run \notin settled \union failed
      /\ batch[worker[r].run].trigger[1] = r
  BY DEF OrchestratorInv, WorkersReady, Ready, Pending
<1>2. ASSUME NEW p \in Registrations, Settles(p) \/ Fails(p)
      PROVE  worker[p].run # worker[r].run
  <2>1. worker[p].at \in {"emit", "fail"}
    BY <1>2 DEF Settles, Fails, At
  <2>2. batch[worker[p].run].trigger[1] = p
    BY <2>1 DEF OrchestratorInv, WorkersReady, Ready
  <2>3. p # r
    BY <1>2 DEF Settles, Fails, At
  <2> QED
    BY <1>1, <2>2, <2>3
<1>3. ASSUME NEW p \in Registrations, Settles(p) \/ Fails(p)
      PROVE  settled' \union failed' \subseteq settled \union failed \union {worker[p].run}
  BY <1>3 DEF Settles, Fails, Settle, SettleFailed
<1>4. CASE \E p \in Registrations : Settles(p) \/ Fails(p)
  BY <1>1, <1>2, <1>3, <1>4
<1>5. CASE UNCHANGED <<settled, failed>>
  BY <1>1, <1>5
<1> QED
  BY <1>4, <1>5
     DEF DurableStep, Takes, Records, Leaves, Applies, Tells, Advances, Finishes,
         TellsOutside, Executes, Publishes, Record, ledgerVars, durable

\* A step that moves no worker keeps what they have established.
LEMMA NoWorkerMoves ==
  ASSUME OrchestratorInv, DurableStep, worker' = worker
  PROVE  worker' \in [Registrations -> Workers] /\ WorkersReady'
<1>1. ASSUME NEW r \in Registrations PROVE Ready(r, worker[r])'
  BY OwnRunsStay, ReadyIsKept DEF OrchestratorInv, Types, WorkersReady
<1> QED
  BY <1>1 DEF OrchestratorInv, Types, WorkersReady

\* A step that moves one worker has to establish its new stage only.
LEMMA OneWorkerMoves ==
  ASSUME OrchestratorInv, DurableStep, NEW r \in Registrations, NEW w \in Workers,
         Becomes(r, w), Ready(r, w)'
  PROVE  worker' \in [Registrations -> Workers] /\ WorkersReady'
<1>1. worker' = [worker EXCEPT ![r] = w] /\ worker \in [Registrations -> Workers]
  BY DEF Becomes, OrchestratorInv, Types
<1>2. ASSUME NEW p \in Registrations PROVE Ready(p, worker[p])'
  <2>1. CASE p = r
    BY <1>1, <2>1
  <2>2. CASE p # r
    <3>1. worker'[p] = worker[p] /\ worker[p] \in Workers
      BY <1>1, <2>2
    <3> QED
      BY <3>1, OwnRunsStay, ReadyIsKept DEF OrchestratorInv, WorkersReady
  <2> QED
    BY <2>1, <2>2
<1> QED
  BY <1>1, <1>2 DEF WorkersReady

\* An error that the drain catches leaves a worker that is ready to settle the
\* batch of its input as failed, or rests.
LEMMA CaughtReady ==
  ASSUME OrchestratorInv, NEW r \in Registrations, Caught(r)
  PROVE  \E w \in Workers :
           Becomes(r, w) /\ Ready(r, w) /\ w.at \in {"idle", "fail"}
<1> DEFINE found == RunsFor(<<r, worker[r].input>>)
           q == CHOOSE q \in found : TRUE
           w == IF found = {} THEN Idle ELSE [Idle EXCEPT !.at = "fail", !.run = q]
<1>1. Becomes(r, w)
  BY DEF Caught
<1>2. CASE found = {}
  BY <1>1, <1>2, IdleWorks, RestIsReady DEF Idle
<1>3. CASE found # {}
  <2>1. q \in Recorded /\ batch[q].trigger = <<r, worker[r].input>> /\ q \in Runs
    BY <1>3 DEF RunsFor, Recorded
  <2>2. w \in Workers /\ w.at = "fail" /\ w.run = q
    BY <1>3, <2>1, IdleWorks DEF Idle, Workers, Stages
  <2>3. Ready(r, w)
    <3> HIDE DEF w, found, q
    <3> QED
      BY <2>1, <2>2 DEF Ready
  <2> QED
    BY <1>1, <2>2, <2>3
<1> QED
  BY <1>2, <1>3

\* A worker moves to what it had established already.
LEMMA ReadyWorkerMoves ==
  ASSUME OrchestratorInv, DurableStep, NEW r \in Registrations, NEW w \in Workers,
         Becomes(r, w), Ready(r, w),
         w.at \in {"apply", "emit"} => w.run \notin settled' \union failed'
  PROVE  worker' \in [Registrations -> Workers] /\ WorkersReady'
BY ReadyIsKept, OneWorkerMoves

\* What a caught error does to the workers.
LEMMA CaughtKeepsWorkers ==
  ASSUME OrchestratorInv, DurableStep, NEW r \in Registrations, Caught(r)
  PROVE  worker' \in [Registrations -> Workers] /\ WorkersReady'
<1>1. PICK w \in Workers : Becomes(r, w) /\ Ready(r, w) /\ w.at \in {"idle", "fail"}
  BY CaughtReady
<1> QED
  BY <1>1, ReadyWorkerMoves

\* A worker may always go back to a stage outside of an input.
LEMMA RestKeepsWorkers ==
  ASSUME OrchestratorInv, DurableStep, NEW r \in Registrations, NEW w \in Workers,
         Becomes(r, w), w.at \in {"idle", "append", "drain"}
  PROVE  worker' \in [Registrations -> Workers] /\ WorkersReady'
BY RestIsReady, ReadyWorkerMoves

\* The input the drain of r goes on with: it is in the ledger, the inputs before
\* it are finished, and a batch that was recorded for it is pending.
LEMMA DrainFacts ==
  ASSUME OrchestratorInv, NEW r \in Registrations, Unfinished(r) # {}
  PROVE  LET n == Earliest(Unfinished(r)) IN
         /\ n \in DOMAIN ledger[r] /\ n \in 1..MaxInputs
         /\ DoneBefore(r, n)
         /\ RunsFor(<<r, n>>) \subseteq Pending
<1> DEFINE open == Unfinished(r)
           n == Earliest(open)
<1>1. /\ DOMAIN ledger[r] = 1..Len(ledger[r])
      /\ Len(ledger[r]) \in Nat /\ Len(ledger[r]) <= MaxInputs
  BY DEF OrchestratorInv, Types
<1>2. open \in SUBSET Nat /\ open \subseteq DOMAIN ledger[r]
  BY <1>1 DEF Unfinished
<1>3. n \in open /\ \A k \in open : n <= k
  BY <1>2, EarliestIsFirst
<1>4. n \in 1..Len(ledger[r])
  BY <1>1, <1>2, <1>3
<1>5. ASSUME NEW m \in 1..(n - 1) PROVE Done(r, m)
  <2>1. m \in DOMAIN ledger[r] /\ m \notin open
    BY <1>1, <1>3, <1>4
  <2> QED
    BY <2>1 DEF Unfinished
<1>6. RunsFor(<<r, n>>) \subseteq Pending
  BY <1>3 DEF Unfinished, Done
<1>7. n \in 1..MaxInputs
  BY <1>1, <1>4, TriggerFacts
<1> QED
  BY <1>1, <1>4, <1>5, <1>6, <1>7 DEF DoneBefore

\* drain hands an input over with its predecessors finished.
LEMMA DrainKeepsWorkers ==
  ASSUME OrchestratorInv, DurableStep, NEW r \in Registrations, Drain(r)
  PROVE  worker' \in [Registrations -> Workers] /\ WorkersReady'
<1> DEFINE open == Unfinished(r)
           n == Earliest(open)
           found == RunsFor(<<r, n>>)
           q == CHOOSE q \in found : TRUE
<1>0. Bindings[r] \subseteq Surfaces
  BY OrchestratorAssumption
<1>1. CASE open = {}
  <2>1. Becomes(r, Idle)
    BY <1>1 DEF Drain
  <2> QED
    BY <2>1, IdleWorks, RestKeepsWorkers DEF Idle
<1>2. CASE open # {} /\ found = {}
  <2> DEFINE w == Starts(r, "head", n, None)
  <2>1. Becomes(r, w)
    BY <1>2 DEF Drain
  <2>2. n \in DOMAIN ledger[r] /\ n \in Nat /\ DoneBefore(r, n)
    BY <1>2, DrainFacts
  <2>3. /\ w \in Workers /\ w.at = "head" /\ w.input = n /\ w.todo = Bindings[r]
        /\ w.seen = <<>>
    <3> HIDE DEF n
    <3> QED
      BY <1>0, <2>2, IdleWorks DEF Starts, Idle, Workers, Stages
  <2>4. w.seen \in [Bindings[r] \ w.todo -> Nat]
    <3>1. <<>> \in [{} -> Nat] /\ Bindings[r] \ Bindings[r] = {}
      OBVIOUS
    <3> HIDE DEF w
    <3> QED
      BY <2>3, <3>1
  <2>5. Ready(r, w)
    <3> HIDE DEF w, n
    <3> QED
      BY <2>2, <2>3, <2>4 DEF Ready
  <2> QED
    <3> HIDE DEF w
    <3> QED
      BY <2>1, <2>3, <2>5, ReadyWorkerMoves
<1>3. CASE open # {} /\ found # {}
  <2> DEFINE w == Starts(r, "apply", n, q)
  <2>1. Becomes(r, w)
    BY <1>3 DEF Drain
  <2>2. /\ n \in DOMAIN ledger[r] /\ n \in Nat /\ DoneBefore(r, n)
        /\ found \subseteq Pending
    BY <1>3, DrainFacts
  <2>3. q \in found
    BY <1>3
  <2>4. /\ q \in Runs /\ q \in Recorded /\ q \in Pending
        /\ batch[q].trigger = <<r, n>>
    BY <2>2, <2>3 DEF RunsFor, Recorded
  <2>5. /\ w \in Workers /\ w.at = "apply" /\ w.input = n /\ w.todo = Bindings[r]
        /\ w.run = q
    <3> HIDE DEF n, q
    <3> QED
      BY <1>0, <2>2, <2>4, IdleWorks DEF Starts, Idle, Workers, Stages
  <2>6. Ready(r, w)
    <3> HIDE DEF w, n, q
    <3> QED
      BY <2>2, <2>4, <2>5 DEF Ready
  <2>7. UNCHANGED durable
    BY DEF Drain
  <2>8. w.run \notin settled' \union failed'
    BY <2>4, <2>5, <2>7 DEF Pending, durable, ledgerVars
  <2> QED
    <3> HIDE DEF w
    <3> QED
      BY <2>1, <2>5, <2>6, <2>8, ReadyWorkerMoves
<1> QED
  BY <1>1, <1>2, <1>3

\* run has read the heads of the surfaces that are not to do any more.
LEMMA ReadHeadKeepsWorkers ==
  ASSUME OrchestratorInv, DurableStep, NEW r \in Registrations,
         NEW s \in Bindings[r], ReadHead(r, s)
  PROVE  worker' \in [Registrations -> Workers] /\ WorkersReady'
<1> DEFINE w == worker[r]
           seen == [b \in DOMAIN w.seen \union {s} |->
                      IF b = s THEN head[s] ELSE w.seen[b]]
           at == IF w.todo = {s} THEN "code" ELSE "head"
           next == [w EXCEPT !.seen = seen, !.todo = @ \ {s}, !.at = at]
<1>1. /\ w \in Workers /\ w.at = "head" /\ s \in w.todo /\ s \in Surfaces
      /\ head[s] \in Nat /\ Ready(r, w)
  BY OrchestratorAssumption
     DEF OrchestratorInv, Types, WorkersReady, ReadHead, At
<1>2. /\ w.input \in DOMAIN ledger[r] /\ DoneBefore(r, w.input)
      /\ w.todo \subseteq Bindings[r] /\ w.seen \in [Bindings[r] \ w.todo -> Nat]
      /\ Bindings[r] \subseteq Surfaces
  BY <1>1, OrchestratorAssumption DEF Ready
<1>3. Becomes(r, next)
  BY <1>1 DEF ReadHead
<1>4. seen \in [Bindings[r] \ (w.todo \ {s}) -> Nat]
  BY <1>1, <1>2
<1>5. seen \in Heads
  <2> HIDE DEF seen
  <2> QED
    BY <1>2, <1>4, HeadsOf
<1>6. /\ next \in Workers /\ next.at = at /\ next.seen = seen
      /\ next.todo = w.todo \ {s} /\ next.input = w.input
  <2> HIDE DEF seen
  <2> QED
    BY <1>1, <1>5 DEF Workers, Stages
<1>7. Ready(r, next)
  <2> HIDE DEF seen, next, w
  <2> QED
    BY <1>2, <1>4, <1>6 DEF Ready
<1> QED
  <2> HIDE DEF next
  <2> QED
    BY <1>3, <1>6, <1>7, ReadyWorkerMoves

\* What the code returns for an input is a batch of it.
LEMMA ReturnedAreBatches ==
  ASSUME OrchestratorInv, NEW r \in Registrations, At(r, "code"),
         NEW plan \in Returned(r)
  PROVE  /\ plan \in Batches(<<r, worker[r].input>>) /\ plan \in Plans
         /\ worker[r].input \in DOMAIN ledger[r]
         /\ DoneBefore(r, worker[r].input)
<1> DEFINE n == worker[r].input
<1>1. /\ n \in DOMAIN ledger[r] /\ DoneBefore(r, n)
      /\ worker[r].seen \in [Bindings[r] -> Nat]
  BY DEF At, OrchestratorInv, WorkersReady, Ready
<1>2. n \in 1..MaxInputs
  BY <1>1, TriggerFacts DEF OrchestratorInv, Types
<1>3. <<r, n>> \in Triggers /\ Bound[<<r, n>>] = Bindings[r]
  BY <1>2, TriggerFacts
<1>4. PICK x \in Results[r] :
        /\ Authorized(r, x)
        /\ plan = [trigger |-> <<r, n>>, base |-> worker[r].seen,
                   changes |-> x.changes, effects |-> x.effects]
  BY DEF Returned
<1>5. x.changes \subseteq Bindings[r]
  BY OrchestratorAssumption
<1>6. x.effects \subseteq {e \in Effects(Bindings[r]) :
                            e.kind = "event" => <<e.surface, e.name>> \in Emits[r]}
  BY <1>4 DEF Authorized
<1>7. plan \in Batches(<<r, n>>)
  BY <1>1, <1>3, <1>4, <1>5, <1>6 DEF Batches
<1> QED
  BY <1>1, <1>3, <1>7 DEF Plans

\* run comes to the recording with a batch of its input.
LEMMA RunCodeKeepsWorkers ==
  ASSUME OrchestratorInv, DurableStep, NEW r \in Registrations, RunCode(r)
  PROVE  worker' \in [Registrations -> Workers] /\ WorkersReady'
<1>1. At(r, "code") /\ worker[r] \in Workers
  BY DEF RunCode, OrchestratorInv, Types
<1>2. PICK plan \in Returned(r) :
        Becomes(r, [worker[r] EXCEPT !.at = "record", !.plan = plan])
  BY DEF RunCode
<1> DEFINE next == [worker[r] EXCEPT !.at = "record", !.plan = plan]
<1>3. /\ plan \in Batches(<<r, worker[r].input>>) /\ plan \in Plans
      /\ worker[r].input \in DOMAIN ledger[r] /\ DoneBefore(r, worker[r].input)
  BY <1>1, ReturnedAreBatches
<1>4. /\ next \in Workers /\ next.at = "record" /\ next.plan = plan
      /\ next.input = worker[r].input
  BY <1>1, <1>3 DEF Workers, Stages
<1>5. Ready(r, next)
  <2> HIDE DEF next
  <2> QED
    BY <1>3, <1>4 DEF Ready
<1>6. Becomes(r, next)
  BY <1>2
<1> QED
  <2> HIDE DEF next
  <2> QED
    BY <1>4, <1>5, <1>6, ReadyWorkerMoves

\* The batch that is recorded for a worker is the one it applies.
LEMMA RecordKeepsWorkers ==
  ASSUME OrchestratorInv, DurableStep, NEW r \in Registrations,
         NEW q \in Runs, Records(r, q),
         \/ Becomes(r, Starts(r, "apply", worker[r].plan.trigger[2], q))
         \/ Becomes(r, [Idle EXCEPT !.at = "fail", !.run = q])
  PROVE  worker' \in [Registrations -> Workers] /\ WorkersReady'
<1> DEFINE n == worker[r].input
           applying == Starts(r, "apply", n, q)
           failing == [Idle EXCEPT !.at = "fail", !.run = q]
<1>1. /\ n \in DOMAIN ledger[r] /\ DoneBefore(r, n) /\ n \in Nat
      /\ worker[r] \in Workers /\ Bindings[r] \subseteq Surfaces
  BY OrchestratorAssumption
     DEF Records, At, OrchestratorInv, Types, WorkersReady, Ready, Workers
<1>2. /\ batch'[q].trigger = <<r, n>> /\ worker[r].plan.trigger = <<r, n>>
      /\ Pending' = Pending \union {q} /\ Recorded' = Recorded \union {q}
  BY RecordFacts
<1>3. /\ applying \in Workers /\ applying.at = "apply" /\ applying.input = n
      /\ applying.todo = Bindings[r] /\ applying.run = q
  <2> HIDE DEF n
  <2> QED
    BY <1>1, IdleWorks DEF Starts, Idle, Workers, Stages
<1>4. PICK v \in Workers : v = applying
  BY <1>3
<1>5. Ready(r, v)'
  <2>1. n \in DOMAIN ledger'[r] /\ DoneBefore(r, v.input)'
    <3>1. \A m \in 1..(v.input - 1) : m \in Nat /\ Done(r, m)'
      BY <1>1, <1>3, <1>4, FactsAreKept DEF DoneBefore
    <3> QED
      BY <1>1, <3>1, LogsGrow DEF DoneBefore
  <2> HIDE DEF applying, n
  <2> QED
    BY <1>2, <1>3, <1>4, <2>1 DEF Ready
<1>6. failing \in Workers /\ failing.at = "fail" /\ failing.run = q
  BY IdleWorks DEF Idle, Workers, Stages
<1>7. PICK u \in Workers : u = failing
  BY <1>6
<1>8. Ready(r, u)'
  <2> HIDE DEF failing
  <2> QED
    BY <1>2, <1>6, <1>7 DEF Ready
<1>9. Becomes(r, v) \/ Becomes(r, u)
  BY <1>2, <1>4, <1>7
<1> QED
  BY <1>5, <1>8, <1>9, OneWorkerMoves

\* apply comes to the effects with all surfaces applied.
LEMMA ApplyKeepsWorkers ==
  ASSUME OrchestratorInv, DurableStep, NEW r \in Registrations,
         NEW s \in Bindings[r], ApplySurface(r, s)
  PROVE  worker' \in [Registrations -> Workers] /\ WorkersReady'
<1> DEFINE w == worker[r]
           q == w.run
           at == IF w.todo = {s} THEN "emit" ELSE "apply"
           next == [w EXCEPT !.todo = @ \ {s}, !.at = at]
<1>1. /\ w \in Workers /\ w.at = "apply" /\ s \in w.todo
      /\ Bindings[r] \subseteq Surfaces /\ w.input \in Nat
  BY OrchestratorAssumption DEF ApplySurface, At, OrchestratorInv, Types, Workers
<1>2. /\ w.input \in DOMAIN ledger[r] /\ DoneBefore(r, w.input)
      /\ q \in Recorded /\ batch[q].trigger[1] = r /\ q \in Pending
      /\ w.todo \subseteq Bindings[r]
      /\ \A x \in Bindings[r] \ w.todo : <<q, x>> \in applied
  BY <1>1 DEF OrchestratorInv, WorkersReady, Ready
<1>3. CASE Caught(r)
  BY <1>3, CaughtKeepsWorkers
<1>4. CASE ~Caught(r)
  <2>1. Becomes(r, next) /\ <<q, s>> \in applied'
    BY <1>1, <1>4 DEF ApplySurface, Move
  <2>2. UNCHANGED <<ledger, ledgerVars>>
    BY DEF ApplySurface
  <2>3. /\ next \in Workers /\ next.at = at /\ next.todo = w.todo \ {s}
        /\ next.input = w.input /\ next.run = q
    BY <1>1 DEF Workers, Stages
  <2>4. PICK v \in Workers : v = next
    BY <2>3
  <2>5. \A x \in Bindings[r] \ v.todo : <<q, x>> \in applied'
    BY <1>2, <2>1, <2>3, <2>4, FactsAreKept
  <2>6. q \in Recorded' /\ batch'[q].trigger[1] = r /\ q \in Pending'
    BY <1>2, <2>2 DEF ledgerVars, Pending, Recorded
  <2>7. w.input \in DOMAIN ledger'[r] /\ DoneBefore(r, v.input)'
    <3>1. \A m \in 1..(v.input - 1) : m \in Nat /\ Done(r, m)'
      BY <1>1, <1>2, <2>3, <2>4, FactsAreKept DEF DoneBefore
    <3> QED
      BY <1>2, <2>2, <3>1 DEF DoneBefore
  <2>8. v.at = "emit" => v.todo = {}
    BY <1>2, <2>3, <2>4
  <2>9. Ready(r, v)'
    <3> HIDE DEF next, w
    <3> QED
      BY <1>2, <2>3, <2>4, <2>5, <2>6, <2>7, <2>8 DEF Ready
  <2>10. Becomes(r, v)
    BY <2>1, <2>4
  <2> QED
    BY <2>9, <2>10, OneWorkerMoves
<1> QED
  BY <1>3, <1>4

\* After every step every worker has established what its stage needs.
LEMMA WorkersStep ==
  ASSUME OrchestratorInv, [Next]_vars
  PROVE  worker' \in [Registrations -> Workers] /\ WorkersReady'
<1> DEFINE Goal == worker' \in [Registrations -> Workers] /\ WorkersReady'
<1>0. /\ DurableStep
      /\ worker \in [Registrations -> Workers]
      /\ wakeups \in [Registrations -> SUBSET SUBSET Events]
  BY StepsAreDurable DEF OrchestratorInv, Types
<1>1. ASSUME NEW r \in Registrations, Work(r) PROVE Goal
  <2>1. CASE AppendInput(r)
    <3>1. PICK ref \in worker[r].owed :
            Becomes(r, [worker[r] EXCEPT !.owed = @ \ {ref}])
      BY <2>1 DEF AppendInput
    <3> DEFINE next == [worker[r] EXCEPT !.owed = @ \ {ref}]
    <3>2. next \in Workers /\ next.at = "append"
      BY <1>0, <2>1 DEF AppendInput, At, Workers
    <3>3. Becomes(r, next)
      BY <3>1
    <3> QED
      <4> HIDE DEF next
      <4> QED
        BY <1>0, <3>2, <3>3, RestKeepsWorkers
  <2>2. CASE Drain(r) \/ RunCode(r)
    BY <1>0, <2>2, DrainKeepsWorkers, RunCodeKeepsWorkers
  <2>3. CASE RecordBatch(r)
    <3> DEFINE q == CHOOSE q \in Fresh : TRUE
    <3>1. CASE Caught(r)
      BY <1>0, <3>1, CaughtKeepsWorkers
    <3>2. CASE ~Caught(r)
      <4>1. q \in Runs
        BY <2>3 DEF RecordBatch, Fresh
      <4>2. Records(r, q) /\ Becomes(r, Starts(r, "apply", worker[r].plan.trigger[2], q))
        BY <2>3, <3>2 DEF RecordBatch, Records
      <4> QED
        BY <1>0, <4>1, <4>2, RecordKeepsWorkers
    <3> QED
      BY <3>1, <3>2
  <2>4. ASSUME NEW s \in Bindings[r], ReadHead(r, s) \/ ApplySurface(r, s)
        PROVE  Goal
    BY <1>0, <2>4, ReadHeadKeepsWorkers, ApplyKeepsWorkers
  <2>5. ASSUME NEW e \in EffectsOf(r), CarryOut(r, e) PROVE Goal
    <3>1. worker' = worker
      BY <2>5 DEF CarryOut
    <3> QED
      BY <1>0, <3>1, NoWorkerMoves
  <2>6. CASE SettleBatch(r)
    <3>1. [Idle EXCEPT !.at = "drain"] \in Workers
      BY IdleWorks DEF Idle, Workers, Stages
    <3>2. [Idle EXCEPT !.at = "drain"].at = "drain"
      BY DEF Idle
    <3> QED
      BY <1>0, <2>6, <3>1, <3>2, RestKeepsWorkers DEF SettleBatch
  <2>7. CASE SettleAsFailed(r)
    <3>1. Becomes(r, Idle) /\ Idle.at = "idle"
      BY <2>7 DEF SettleAsFailed, Idle
    <3> QED
      BY <1>0, <3>1, IdleWorks, RestKeepsWorkers
  <2>8. CASE Blocked(r)
    BY <1>0, <2>8, CaughtKeepsWorkers DEF Blocked
  <2> QED
    BY <1>1, <2>1, <2>2, <2>3, <2>4, <2>5, <2>6, <2>7, <2>8 DEF Work
<1>2. ASSUME NEW r \in Registrations, Host(r) PROVE Goal
  <2>1. CASE worker' = worker
    BY <1>0, <2>1, NoWorkerMoves
  <2>2. ASSUME NEW delivery \in wakeups[r], Take(r, delivery) PROVE Goal
    <3> DEFINE owed == IF delivery = {} THEN InputsFrom(r, "worksurface")
                       ELSE delivery
               next == [Idle EXCEPT !.at = "append", !.owed = owed]
    <3>1. InputsFrom(r, "worksurface") \subseteq Events
      BY DEF InputsFrom, Events, Sources
    <3>2. owed \in SUBSET Events
      BY <1>0, <3>1
    <3>3. next \in Workers /\ next.at = "append"
      <4> HIDE DEF owed
      <4> QED
        BY <3>2, IdleWorks DEF Idle, Workers, Stages
    <3>4. Becomes(r, next)
      BY <2>2 DEF Take
    <3> QED
      <4> HIDE DEF next
      <4> QED
        BY <1>0, <3>3, <3>4, RestKeepsWorkers
  <2> QED
    BY <1>2, <2>1, <2>2
       DEF Host, Measure, PutRegistration, Retire, Deliver, Recover,
           RecoverExternal, Dispatch
<1>3. ASSUME NEW r \in Registrations, Throw(r) PROVE Goal
  <2> DEFINE q == CHOOSE q \in Fresh : TRUE
  <2>1. CASE Caught(r)
    BY <1>0, <2>1, CaughtKeepsWorkers
  <2>2. CASE Becomes(r, Idle)
    BY <1>0, <2>2, IdleWorks, RestKeepsWorkers DEF Idle
  <2>3. CASE /\ At(r, "record") /\ left = {} /\ Fresh # {}
             /\ Recordable(worker[r].plan) /\ UNCHANGED left
             /\ Record(q, worker[r].plan)
             /\ Becomes(r, [Idle EXCEPT !.at = "fail", !.run = q])
    <3>1. q \in Fresh /\ q \in Runs
      BY <2>3 DEF Fresh
    <3>2. Records(r, q)
      BY <1>3, <2>3, <3>1 DEF Throw, Records, content
    <3> QED
      BY <1>0, <2>3, <3>1, <3>2, RecordKeepsWorkers
  <2> QED
    BY <1>3, <2>1, <2>2, <2>3 DEF Throw
<1>4. CASE Crash
  <2>1. worker' = [r \in Registrations |-> Idle]
    BY <1>4 DEF Crash, Restart
  <2>2. ASSUME NEW r \in Registrations PROVE Ready(r, worker[r])'
    BY <2>1 DEF Ready, Idle
  <2> QED
    BY <2>1, <2>2, IdleWorks DEF WorkersReady
<1>5. CASE worker' = worker
  BY <1>0, <1>5, NoWorkerMoves
<1> QED
  BY <1>1, <1>2, <1>3, <1>4, <1>5
     DEF Next, FinishLeft, EmitTurn, CompleteTool, PublishTurn, Publication,
         Edit, vars

-----------------------------------------------------------------------------
(***************************************************************************)
(* The durable state keeps its types, and only the admitted have any.       *)
(***************************************************************************)

\* The only surface an apply moves is its own, and only if the batch changes it.
LEMMA MoveFacts ==
  ASSUME head \in [Surfaces -> Nat], NEW q, NEW s \in Surfaces, Move(<<q, s>>)
  PROVE  /\ applied' = applied \union {<<q, s>>}
         /\ head' \in [Surfaces -> Nat]
         /\ head'[s] = head[s] + (IF s \in batch[q].changes THEN 1 ELSE 0)
         /\ \A x \in Surfaces \ {s} : head'[x] = head[x]
<1>1. CASE s \in batch[q].changes
  BY <1>1 DEF Move
<1>2. CASE s \notin batch[q].changes
  BY <1>2 DEF Move
<1> QED
  BY <1>1, <1>2

\* What is left of an interrupted apply names a batch and a surface of it.
LEMMA LeftFacts ==
  ASSUME OrchestratorInv, NEW i \in left
  PROVE  /\ i = <<i[1], i[2]>> /\ i[1] \in Runs /\ i[2] \in Surfaces
         /\ i[1] \in Recorded /\ i[2] \in Touches(i[1]) /\ i \notin applied
BY DEF OrchestratorInv, TypeOK, TouchedBy, LeftHeldAlone

\* What is on disk keeps its types.
LEMMA DurableTypes ==
  ASSUME OrchestratorInv, DurableStep
  PROVE  /\ batch' \in [Runs -> Plans \union {None}]
         /\ stream' \in [Surfaces -> Seq(BusinessEvents)]
         /\ tools' \in [Surfaces -> Nat] /\ head' \in [Surfaces -> Nat]
         /\ ledger' \in [Registrations -> Seq(Events)]
         /\ \A r \in Registrations : Len(ledger'[r]) <= MaxInputs
<1> DEFINE BatchOK == batch \in [Runs -> Plans \union {None}]
           StreamOK == stream \in [Surfaces -> Seq(BusinessEvents)]
           ToolsOK == tools \in [Surfaces -> Nat]
           HeadOK == head \in [Surfaces -> Nat]
           LedgerOK == /\ ledger \in [Registrations -> Seq(Events)]
                       /\ \A r \in Registrations : Len(ledger[r]) <= MaxInputs
<1>0. BatchOK /\ StreamOK /\ ToolsOK /\ HeadOK /\ LedgerOK
  BY DEF OrchestratorInv, Types
<1>1. BatchOK'
  <2>1. ASSUME NEW r \in Registrations, NEW q \in Runs, Records(r, q)
        PROVE  BatchOK'
    <3>1. batch' = [batch EXCEPT ![q] = worker[r].plan]
      BY <2>1 DEF Records, Record
    <3>2. \E t \in Triggers : worker[r].plan \in Batches(t)
      BY <2>1, RecordFacts
    <3>3. worker[r].plan \in Plans
      BY <3>2 DEF Plans
    <3> QED
      BY <1>0, <3>1, <3>3
  <2> QED
    BY <1>0, <2>1
       DEF DurableStep, Takes, Settles, Fails, Leaves, Applies, Tells, Advances,
           Finishes, TellsOutside, Executes, Publishes, Settle, SettleFailed,
           ledgerVars, durable
<1>2. StreamOK'
  <2>1. ASSUME NEW s \in Surfaces, NEW x \in BusinessEvents,
               stream' = [stream EXCEPT ![s] = Append(@, x)]
        PROVE  StreamOK'
    BY <1>0, <2>1, AppendFacts
  <2>2. ASSUME NEW r \in Registrations, NEW e, Tells(r, e) PROVE StreamOK'
    BY <2>1, <2>2, OwedFacts DEF Tells
  <2>3. ASSUME NEW s \in Surfaces, NEW name \in Names, NEW r \in Registrations,
               TellsOutside(s, name, r)
        PROVE  StreamOK'
    <3>1. BusinessEvent(name, r, None) \in BusinessEvents
      BY DEF BusinessEvent, BusinessEvents
    <3> QED
      BY <2>1, <2>3, <3>1 DEF TellsOutside
  <2>4. CASE stream' = stream
    BY <1>0, <2>4
  <2> HIDE DEF StreamOK
  <2> QED
    BY <2>2, <2>3, <2>4
       DEF DurableStep, Takes, Records, Settles, Fails, Leaves, Applies, Advances,
           Finishes, Executes, Publishes, streams, durable
<1>3. ToolsOK'
  <2>1. ASSUME NEW s \in Surfaces, Executes(s) PROVE ToolsOK'
    BY <1>0, <2>1 DEF Executes
  <2>2. CASE tools' = tools
    BY <1>0, <2>2
  <2> HIDE DEF ToolsOK
  <2> QED
    BY <2>1, <2>2
       DEF DurableStep, Takes, Records, Settles, Fails, Leaves, Applies, Tells,
           Advances, Finishes, TellsOutside, Publishes, streams, durable
<1>4. HeadOK'
  <2>0. ASSUME NEW q, NEW s \in Surfaces, Move(<<q, s>>) PROVE HeadOK'
    BY <1>0, <2>0, MoveFacts
  <2>1. ASSUME NEW r \in Registrations, NEW s \in Surfaces, Applies(r, s)
        PROVE  HeadOK'
    BY <2>0, <2>1 DEF Applies
  <2>4. ASSUME NEW i \in left, Finishes(i) PROVE HeadOK'
    BY <2>0, <2>4, LeftFacts DEF Finishes
  <2>2. ASSUME NEW s \in Surfaces, Publishes(s) PROVE HeadOK'
    BY <1>0, <2>2 DEF Publishes
  <2>3. CASE head' = head
    BY <1>0, <2>3
  <2> HIDE DEF HeadOK
  <2> QED
    BY <2>1, <2>2, <2>3, <2>4
       DEF DurableStep, Takes, Records, Settles, Fails, Leaves, Tells, Advances,
           TellsOutside, Executes, content, durable
<1>5. LedgerOK'
  <2>1. ASSUME NEW r \in Registrations, NEW ref \in Events, Takes(r, ref)
        PROVE  LedgerOK'
    BY <1>0, <2>1, AppendFacts, TriggerFacts DEF Takes
  <2> QED
    BY <1>0, <2>1
       DEF DurableStep, Records, Settles, Fails, Leaves, Applies, Tells, Advances,
           Finishes, TellsOutside, Executes, Publishes, durable
<1> QED
  BY <1>1, <1>2, <1>3, <1>4, <1>5

\* Deliveries are of events, whatever is dispatched and taken.
LEMMA WakeupTypes ==
  ASSUME OrchestratorInv, [Next]_vars
  PROVE  wakeups' \in [Registrations -> SUBSET SUBSET Events]
<1>0. wakeups \in [Registrations -> SUBSET SUBSET Events]
  BY DEF OrchestratorInv, Types
<1>1. ASSUME NEW r \in Registrations, NEW deliveries \in SUBSET SUBSET Events,
             Dispatch(r, deliveries)
      PROVE  wakeups' \in [Registrations -> SUBSET SUBSET Events]
  BY <1>0, <1>1 DEF Dispatch
<1>2. ASSUME NEW r \in Registrations, NEW source \in Sources
      PROVE  InputsFrom(r, source) \subseteq Events
  BY DEF InputsFrom, Events
<1>3. ASSUME NEW r \in Registrations, Host(r)
      PROVE  wakeups' \in [Registrations -> SUBSET SUBSET Events]
  <2>1. ASSUME NEW source \in Sources, Deliver(r, source)
        PROVE  wakeups' \in [Registrations -> SUBSET SUBSET Events]
    <3>1. PICK ref \in InputsFrom(r, source) : Dispatch(r, {{ref}})
      BY <2>1 DEF Deliver
    <3>2. {{ref}} \in SUBSET SUBSET Events
      BY <1>2
    <3> QED
      BY <1>1, <3>1, <3>2
  <2>2. CASE Recover(r)
    BY <1>1, <2>2 DEF Recover
  <2>3. CASE RecoverExternal(r)
    <3> DEFINE all == {{ref} : ref \in InputsFrom(r, "dsh")}
    <3>1. all \in SUBSET SUBSET Events
      BY <1>2 DEF Sources
    <3> QED
      BY <1>1, <2>3, <3>1 DEF RecoverExternal
  <2>4. CASE \E delivery \in wakeups[r] : Take(r, delivery)
    BY <1>0, <2>4 DEF Take
  <2> QED
    BY <1>0, <1>3, <2>1, <2>2, <2>3, <2>4
       DEF Host, Measure, PutRegistration, Retire, around
<1>4. CASE Crash
  <2> DEFINE Readable(r, readable) ==
               {ref \in InputsFrom(r, "dsh") : ref.surface \in readable}
             Found(r, readable) == {{}} \union {{ref} : ref \in Readable(r, readable)}
  <2>1. PICK readable \in SUBSET Surfaces :
          wakeups' = [r \in Registrations |->
                        IF r \in admitted \ retired THEN Found(r, readable) ELSE {}]
    BY <1>4 DEF Crash, Restart
  <2>2. ASSUME NEW r \in Registrations
        PROVE  Found(r, readable) \in SUBSET SUBSET Events
    <3>1. Readable(r, readable) \subseteq Events
      BY <1>2 DEF Sources
    <3> QED
      BY <3>1
  <2> HIDE DEF Found
  <2> QED
    BY <2>1, <2>2
<1>5. CASE UNCHANGED wakeups
  BY <1>0, <1>5
<1> QED
  BY <1>3, <1>4, <1>5
     DEF Next, Work, AppendInput, Drain, RunCode, RecordBatch, ReadHead,
         ApplySurface, CarryOut, SettleBatch, SettleAsFailed, Blocked, Throw,
         FinishLeft, EmitTurn, CompleteTool, PublishTurn, Publication, Edit,
         around, vars

\* A registration that is not admitted has no inputs, deliveries or drain.
Fallow(r) == ledger[r] = <<>> /\ wakeups[r] = {} /\ worker[r] = Idle

\* Nothing comes into being for a registration that is not admitted.
LEMMA AdmittedStep ==
  ASSUME OrchestratorInv, [Next]_vars, NEW p \in Registrations, p \notin admitted'
  PROVE  Fallow(p)'
<1>0. /\ wakeups \in [Registrations -> SUBSET SUBSET Events]
      /\ worker \in [Registrations -> Workers]
      /\ ledger \in [Registrations -> Seq(Events)]
      /\ \A r \in Registrations : r \notin admitted => Fallow(r)
  BY DEF OrchestratorInv, Types, TypeOK, Fallow
<1>1. admitted \subseteq admitted'
  <2>1. ASSUME NEW r \in Registrations, Host(r) PROVE admitted \subseteq admitted'
    BY <2>1 DEF Host, Measure, PutRegistration, Retire, Deliver, Recover,
                RecoverExternal, Dispatch, Take, registry
  <2>2. ASSUME NEW r \in Registrations, Work(r) \/ Throw(r)
        PROVE  admitted' = admitted
    BY <2>2
       DEF Work, AppendInput, Drain, RunCode, RecordBatch, ReadHead, ApplySurface,
           CarryOut, SettleBatch, SettleAsFailed, Blocked, Throw, registry
  <2> QED
    BY <2>1, <2>2
       DEF Next, FinishLeft, EmitTurn, CompleteTool, PublishTurn, Publication,
           Edit, Crash, Restart, registry, vars
<1>2. p \notin admitted /\ Fallow(p)
  BY <1>0, <1>1
<1>3. worker[p] = Idle /\ worker[p].at = "idle" /\ wakeups[p] = {}
  BY <1>2 DEF Fallow, Idle
<1>4. ASSUME NEW r \in Registrations, Work(r) \/ Throw(r) PROVE Fallow(p)'
  <2>1. worker[r].at # "idle"
    BY <1>4
       DEF Work, AppendInput, Drain, RunCode, RecordBatch, ReadHead, ApplySurface,
           CarryOut, SettleBatch, SettleAsFailed, Blocked, InContent, Throw, At
  <2>2. r # p
    BY <1>3, <2>1
  <2>3. worker'[p] = worker[p]
    BY <1>0, <1>4, <2>2
       DEF Work, AppendInput, Drain, RunCode, RecordBatch, ReadHead, ApplySurface,
           CarryOut, SettleBatch, SettleAsFailed, Blocked, Throw, Caught, Becomes
  <2>4. wakeups' = wakeups
    BY <1>4
       DEF Work, AppendInput, Drain, RunCode, RecordBatch, ReadHead, ApplySurface,
           CarryOut, SettleBatch, SettleAsFailed, Blocked, Throw, around
  <2>5. ledger'[p] = ledger[p]
    BY <1>0, <1>4, <2>2
       DEF Work, AppendInput, Drain, RunCode, RecordBatch, ReadHead, ApplySurface,
           CarryOut, SettleBatch, SettleAsFailed, Blocked, Throw, durable
  <2> QED
    BY <1>2, <2>3, <2>4, <2>5 DEF Fallow
<1>5. ASSUME NEW r \in Registrations, Host(r) PROVE Fallow(p)'
  <2>1. CASE \E delivery \in wakeups[r] : Take(r, delivery)
    <3>1. r # p
      BY <1>3, <2>1
    <3> QED
      BY <1>0, <1>2, <2>1, <3>1 DEF Take, Becomes, durable, Fallow
  <2>2. ASSUME NEW deliveries, Dispatch(r, deliveries) PROVE Fallow(p)'
    <3>1. r # p
      BY <1>2, <2>2 DEF Dispatch
    <3> QED
      BY <1>0, <1>2, <2>2, <3>1 DEF Dispatch, durable, Fallow
  <2>3. CASE \/ Recover(r) \/ RecoverExternal(r)
             \/ \E source \in Sources : Deliver(r, source)
    BY <2>2, <2>3 DEF Recover, RecoverExternal, Deliver
  <2> QED
    BY <1>2, <1>5, <2>1, <2>3
       DEF Host, Measure, PutRegistration, Retire, durable, around, Fallow
<1>6. CASE Crash
  BY <1>0, <1>2, <1>6 DEF Crash, Restart, Fallow
<1>7. CASE UNCHANGED <<ledger, wakeups, worker>>
  BY <1>2, <1>7 DEF Fallow
<1> QED
  BY <1>4, <1>5, <1>6, <1>7
     DEF Next, FinishLeft, EmitTurn, CompleteTool, PublishTurn, Publication,
         Edit, durable, around, vars

\* Every variable keeps its type.
LEMMA TypesStep ==
  ASSUME OrchestratorInv, [Next]_vars
  PROVE  Types'
<1>1. DurableStep
  BY StepsAreDurable DEF OrchestratorInv
<1> QED
  BY <1>1, DurableTypes, WorkersStep, WakeupTypes, AdmittedStep DEF Types, Fallow

-----------------------------------------------------------------------------
(***************************************************************************)
(* Batches, streams and heads.                                              *)
(***************************************************************************)
\* A batch that is there after a step was there before it, or was recorded by it.
LEMMA NewlyRecorded ==
  ASSUME OrchestratorInv, DurableStep, NEW q \in Recorded', q \notin Recorded
  PROVE  \E r \in Registrations : Records(r, q)
<1>1. ASSUME NEW r \in Registrations, NEW p \in Runs, Records(r, p)
      PROVE  q = p
  <2>1. Recorded' = Recorded \union {p}
    BY <1>1, RecordFacts
  <2> QED
    BY <2>1
<1>2. CASE \E r \in Registrations, p \in Runs : Records(r, p)
  BY <1>1, <1>2
<1>3. CASE batch' = batch
  BY <1>3 DEF Recorded
<1> QED
  BY <1>2, <1>3
     DEF DurableStep, Takes, Settles, Fails, Leaves, Applies, Tells, Advances,
         Finishes, TellsOutside, Executes, Publishes, Settle, SettleFailed,
         ledgerVars, durable

\* A batch that was recorded before a step and is pending after it was pending.
LEMMA StillPending ==
  ASSUME OrchestratorInv, DurableStep, NEW q \in Recorded, q \in Pending'
  PROVE  q \in Pending
BY FactsAreKept DEF Pending

\* A batch is recorded for the first unfinished input of a ledger.
LEMMA BatchesInOrderStep ==
  ASSUME OrchestratorInv, DurableStep
  PROVE  BatchesInOrder'
<1> SUFFICES ASSUME NEW q \in Recorded'
             PROVE  \E t \in Triggers :
                      /\ batch'[q].trigger = t /\ batch'[q] \in Batches(t)
                      /\ t[2] \in DOMAIN ledger'[t[1]]
                      /\ DoneBefore(t[1], t[2])'
  BY DEF BatchesInOrder
<1>0. ASSUME NEW r \in Registrations, NEW n \in DOMAIN ledger[r], DoneBefore(r, n)
      PROVE  n \in DOMAIN ledger'[r] /\ DoneBefore(r, n)'
  <2>1. n \in Nat
    BY DEF OrchestratorInv, Types
  <2>2. \A m \in 1..(n - 1) : m \in Nat
    BY <2>1
  <2> QED
    BY <1>0, <2>2, LogsGrow, FactsAreKept DEF DoneBefore
<1>1. CASE q \in Recorded
  <2>1. PICK t \in Triggers :
          /\ batch[q].trigger = t /\ batch[q] \in Batches(t)
          /\ t[2] \in DOMAIN ledger[t[1]] /\ DoneBefore(t[1], t[2])
    BY <1>1 DEF OrchestratorInv, BatchesInOrder
  <2>2. batch'[q] = batch[q]
    BY <1>1, FactsAreKept
  <2>3. t[1] \in Registrations
    BY TriggerFacts
  <2>4. t[2] \in DOMAIN ledger'[t[1]] /\ DoneBefore(t[1], t[2])'
    BY <1>0, <2>1, <2>3
  <2> QED
    BY <2>1, <2>2, <2>4
<1>2. CASE q \notin Recorded
  <2>1. PICK r \in Registrations : Records(r, q)
    BY <1>2, NewlyRecorded
  <2>2. q \in Runs
    BY DEF Recorded
  <2>3. PICK n \in DOMAIN ledger[r] : n = worker[r].input /\ DoneBefore(r, n)
    BY <2>1 DEF Records, At, OrchestratorInv, WorkersReady, Ready
  <2>4. /\ batch'[q] \in Batches(<<r, n>>) /\ batch'[q].trigger = <<r, n>>
        /\ <<r, n>> \in Triggers
    BY <2>1, <2>2, <2>3, RecordFacts
  <2>5. n \in DOMAIN ledger'[r] /\ DoneBefore(r, n)'
    BY <1>0, <2>3
  <2> QED
    BY <2>4, <2>5
<1> QED
  BY <1>1, <1>2

\* record refuses a second batch of an input, and a held surface.
LEMMA BatchesApartStep ==
  ASSUME OrchestratorInv, DurableStep
  PROVE  BatchesApart'
<1> DEFINE Apart(p, q) ==
             /\ batch[p].trigger # batch[q].trigger
             /\ {p, q} \subseteq Pending => Touches(p) \intersect Touches(q) = {}
<1>1. ASSUME NEW p \in Recorded, NEW q \in Recorded, p # q PROVE Apart(p, q)'
  <2>1. Apart(p, q)
    BY <1>1 DEF OrchestratorInv, BatchesApart
  <2> QED
    BY <2>1, FactsAreKept, StillPending
<1>2. ASSUME NEW p \in Recorded, NEW q \in Recorded', q \notin Recorded
      PROVE  Apart(p, q)' /\ Apart(q, p)'
  <2>1. PICK r \in Registrations : Records(r, q)
    BY <1>2, NewlyRecorded
  <2>2. q \in Runs
    BY DEF Recorded
  <2>3. /\ CanRecord(worker[r].plan) /\ batch'[q] = worker[r].plan
        /\ batch'[p] = batch[p] /\ Touches(p)' = Touches(p)
    BY <2>1, <2>2, RecordFacts DEF Records, Record
  <2>4. Touches(q)' = Bound[worker[r].plan.trigger]
    BY <2>3 DEF Touches
  <2>5. p \in Pending' => p \in Pending
    BY StillPending
  <2> QED
    BY <2>3, <2>4, <2>5 DEF CanRecord
<1>3. ASSUME NEW p \in Recorded', NEW q \in Recorded', p # q,
             p \notin Recorded, q \notin Recorded
      PROVE  FALSE
  <2>1. PICK r \in Registrations : Records(r, q)
    BY <1>3, NewlyRecorded
  <2>2. q \in Runs
    BY DEF Recorded
  <2>3. Recorded' = Recorded \union {q}
    BY <2>1, <2>2, RecordFacts
  <2> QED
    BY <1>3, <2>3
<1> QED
  BY <1>1, <1>2, <1>3 DEF BatchesApart

\* The surface of an interrupted apply stays its own until it is finished.
LEMMA LeftHeldAloneStep ==
  ASSUME OrchestratorInv, DurableStep
  PROVE  LeftHeldAlone'
<1> SUFFICES ASSUME NEW i \in left'
             PROVE  /\ i \notin applied'
                    /\ \A q \in Pending' \ {i[1]} : i[2] \notin Touches(q)'
  BY DEF LeftHeldAlone
<1>1. CASE i \in left
  <2>1. i \notin applied'
    <3>1. i \notin applied
      BY <1>1, LeftFacts
    <3>2. ASSUME NEW j \in left, Finishes(j) PROVE i \notin applied'
      BY <3>1, <3>2 DEF Finishes, Move
    <3> QED
      BY <1>1, <3>1, <3>2
         DEF DurableStep, Takes, Records, Settles, Fails, Leaves, Applies, Tells,
             Advances, TellsOutside, Executes, Publishes, content, durable
  <2>2. ASSUME NEW q \in Pending' \ {i[1]} PROVE i[2] \notin Touches(q)'
    <3>1. q \in Recorded
      BY <1>1, <2>2, NewlyRecorded DEF Pending, Records
    <3>2. q \in Pending
      BY <3>1, StillPending
    <3>3. Touches(q)' = Touches(q)
      BY <3>1, FactsAreKept
    <3> QED
      BY <1>1, <3>2, <3>3 DEF OrchestratorInv, LeftHeldAlone
  <2> QED
    BY <2>1, <2>2
<1>2. CASE i \notin left
  <2>1. PICK r \in Registrations : Leaves(r)
    BY <1>2
       DEF DurableStep, Takes, Records, Settles, Fails, Applies, Tells, Advances,
           Finishes, TellsOutside, Executes, Publishes, content, durable
  <2> DEFINE p == worker[r].run
  <2>2. PICK s \in worker[r].todo \intersect batch[p].changes :
          <<p, s>> \notin applied /\ left' = {<<p, s>>}
    BY <2>1 DEF Leaves, LeaveIntent
  <2>3. i = <<p, s>>
    BY <2>2
  <2>4. /\ p \in Pending /\ s \in Touches(p) /\ p \in Recorded
    BY <2>1, BatchFacts
       DEF Leaves, At, OrchestratorInv, WorkersReady, Ready
  <2>5. UNCHANGED <<applied, ledgerVars>>
    BY <2>1 DEF Leaves
  <2>6. ASSUME NEW q \in Pending, q # p PROVE s \notin Touches(q)
    BY <2>4, <2>6 DEF OrchestratorInv, BatchesApart, Pending
  <2> QED
    BY <2>2, <2>3, <2>5, <2>6 DEF Pending, Recorded, Touches, ledgerVars
<1> QED
  BY <1>1, <1>2

\* An event that a step adds to a stream comes from outside, or is an effect that
\* the batch of the worker still owed.
LEMMA StreamStep ==
  ASSUME OrchestratorInv, DurableStep, stream' # stream
  PROVE  \E s \in Surfaces, x \in BusinessEvents :
           /\ stream' = [stream EXCEPT ![s] = Append(@, x)]
           /\ x.by # None =>
                /\ \E r \in Registrations : At(r, "emit") /\ x.by = worker[r].run
                /\ x.by \in Recorded /\ x.scope = batch[x.by].trigger[1]
                /\ [kind |-> "event", surface |-> s, name |-> x.name]
                     \in batch[x.by].effects
                /\ <<s, x.name>> \in Emits[x.scope]
                /\ \A m \in DOMAIN stream[s] : stream[s][m] # x
<1> DEFINE Goal ==
             \E s \in Surfaces, x \in BusinessEvents :
               /\ stream' = [stream EXCEPT ![s] = Append(@, x)]
               /\ x.by # None =>
                    /\ \E r \in Registrations :
                         At(r, "emit") /\ x.by = worker[r].run
                    /\ x.by \in Recorded /\ x.scope = batch[x.by].trigger[1]
                    /\ [kind |-> "event", surface |-> s, name |-> x.name]
                         \in batch[x.by].effects
                    /\ <<s, x.name>> \in Emits[x.scope]
                    /\ \A m \in DOMAIN stream[s] : stream[s][m] # x
<1>1. ASSUME NEW r \in Registrations, NEW e, Tells(r, e) PROVE Goal
  <2> DEFINE q == worker[r].run
             x == BusinessEvent(e.name, r, q)
  <2>1. At(r, "emit") /\ e \in Owed(q) /\ e.kind = "event"
    BY <1>1 DEF Tells
  <2>2. stream' = [stream EXCEPT ![e.surface] = Append(@, x)]
    BY <1>1 DEF Tells
  <2>3. /\ q \in Recorded /\ batch[q].trigger[1] = r
        /\ e \in batch[q].effects /\ ~Carried(q, e) /\ e.surface \in Surfaces
        /\ e = [kind |-> "event", surface |-> e.surface, name |-> e.name]
        /\ <<e.surface, e.name>> \in Emits[r] /\ x \in BusinessEvents
    BY <2>1, OwedFacts
  <2>4. x.by = q /\ x.scope = r /\ x.name = e.name
    BY DEF BusinessEvent
  <2>5. \A m \in DOMAIN stream[e.surface] : stream[e.surface][m] # x
    BY <2>1, <2>3 DEF Carried, Emitted
  <2> HIDE DEF x, q
  <2> QED
    BY <2>1, <2>2, <2>3, <2>4, <2>5 DEF q
<1>2. ASSUME NEW s \in Surfaces, NEW name \in Names, NEW r \in Registrations,
             TellsOutside(s, name, r)
      PROVE  Goal
  <2> DEFINE x == BusinessEvent(name, r, None)
  <2>1. x \in BusinessEvents /\ x.by = None
    BY DEF BusinessEvent, BusinessEvents
  <2>2. stream' = [stream EXCEPT ![s] = Append(@, x)]
    BY <1>2 DEF TellsOutside
  <2> HIDE DEF x
  <2> QED
    BY <2>1, <2>2
<1> HIDE DEF Goal
<1>3. Goal
  BY <1>1, <1>2
     DEF DurableStep, Takes, Records, Settles, Fails, Leaves, Applies, Advances,
         Finishes, Executes, Publishes, streams, durable
<1> QED
  BY <1>3 DEF Goal

\* An event of a batch is in its stream once, and says whose batch it was.
LEMMA StreamsAreTrue ==
  ASSUME OrchestratorInv, DurableStep
  PROVE  EventsAreScoped' /\ (TypeOK' => EffectsOnce')
<1> DEFINE Fits(s, n) ==
             stream[s][n].by # None =>
               /\ stream[s][n].by \in Recorded
               /\ stream[s][n].scope = batch[stream[s][n].by].trigger[1]
               /\ [kind |-> "event", surface |-> s, name |-> stream[s][n].name]
                    \in batch[stream[s][n].by].effects
               /\ <<s, stream[s][n].name>> \in Emits[stream[s][n].scope]
               /\ \A m \in DOMAIN stream[s] :
                    stream[s][m] = stream[s][n] => m = n
<1>0. ASSUME \A s \in Surfaces : \A n \in DOMAIN stream'[s] : Fits(s, n)'
      PROVE  EventsAreScoped' /\ (TypeOK' => EffectsOnce')
  <2>1. EventsAreScoped'
    BY <1>0 DEF EventsAreScoped
  <2>2. ASSUME TypeOK' PROVE EffectsOnce'
    BY <1>0, <2>2 DEF EffectsOnce
  <2> QED
    BY <2>1, <2>2
<1> SUFFICES ASSUME NEW s \in Surfaces, NEW n \in DOMAIN stream'[s] PROVE Fits(s, n)'
  BY <1>0
<1> SUFFICES ASSUME NEW e, e = stream'[s][n], e.by # None
             PROVE  /\ e.by \in Recorded' /\ e.scope = batch'[e.by].trigger[1]
                    /\ [kind |-> "event", surface |-> s, name |-> e.name]
                         \in batch'[e.by].effects
                    /\ <<s, e.name>> \in Emits[e.scope]
                    /\ \A m \in DOMAIN stream'[s] : stream'[s][m] = e => m = n
  OBVIOUS
<1> DEFINE True(x) ==
             /\ x.by \in Recorded /\ x.scope = batch[x.by].trigger[1]
             /\ [kind |-> "event", surface |-> s, name |-> x.name]
                  \in batch[x.by].effects
             /\ <<s, x.name>> \in Emits[x.scope]
<1>1. ASSUME True(e)
      PROVE  /\ e.by \in Recorded' /\ e.scope = batch'[e.by].trigger[1]
             /\ [kind |-> "event", surface |-> s, name |-> e.name]
                  \in batch'[e.by].effects
             /\ <<s, e.name>> \in Emits[e.scope]
  BY <1>1, FactsAreKept
<1>2. ASSUME NEW m \in DOMAIN stream[s], stream[s][m] = e
      PROVE  True(e) /\ \A k \in DOMAIN stream[s] : stream[s][k] = e => k = m
  BY <1>2 DEF OrchestratorInv, EventsAreScoped, EffectsOnce
<1>3. stream[s] \in Seq(BusinessEvents)
  BY DEF OrchestratorInv, Types
<1>4. CASE stream'[s] = stream[s]
  BY <1>1, <1>2, <1>4
<1>5. CASE stream'[s] # stream[s]
  <2>1. PICK y \in Surfaces, x \in BusinessEvents :
          /\ stream' = [stream EXCEPT ![y] = Append(@, x)]
          /\ x.by # None =>
               /\ x.by \in Recorded /\ x.scope = batch[x.by].trigger[1]
               /\ [kind |-> "event", surface |-> y, name |-> x.name]
                    \in batch[x.by].effects
               /\ <<y, x.name>> \in Emits[x.scope]
               /\ \A m \in DOMAIN stream[y] : stream[y][m] # x
    BY <1>5, StreamStep
  <2>2. DOMAIN stream = Surfaces
    BY DEF OrchestratorInv, Types
  <2>3. y = s /\ stream'[s] = Append(stream[s], x)
    BY <1>5, <2>1, <2>2
  <2>4. /\ DOMAIN stream'[s] = DOMAIN stream[s] \union {Len(stream[s]) + 1}
        /\ \A m \in DOMAIN stream[s] : stream'[s][m] = stream[s][m]
        /\ stream'[s][Len(stream[s]) + 1] = x
        /\ DOMAIN stream[s] = 1..Len(stream[s]) /\ Len(stream[s]) \in Nat
    BY <1>3, <2>3, AppendFacts
  <2>5. CASE n \in DOMAIN stream[s]
    <3>1. stream[s][n] = e
      BY <2>4, <2>5
    <3>2. x # e
      BY <2>1, <2>3, <2>5, <3>1
    <3> QED
      BY <1>1, <1>2, <2>4, <2>5, <3>1, <3>2
  <2>6. CASE n \notin DOMAIN stream[s]
    <3>1. n = Len(stream[s]) + 1 /\ e = x
      BY <2>4, <2>6
    <3>2. True(e) /\ \A m \in DOMAIN stream[s] : stream[s][m] # e
      BY <2>1, <2>3, <3>1
    <3> QED
      BY <1>1, <2>4, <3>1, <3>2
  <2> QED
    BY <2>5, <2>6
<1> QED
  BY <1>4, <1>5

\* An effect that a step carries out belongs to the batch of a worker at "emit".
LEMMA NewlyCarried ==
  ASSUME OrchestratorInv, DurableStep, NEW q \in Recorded',
         NEW e \in batch'[q].effects, Carried(q, e)'
  PROVE  /\ q \in Recorded /\ e \in batch[q].effects
         /\ \/ Carried(q, e)
            \/ \E r \in Registrations : At(r, "emit") /\ q = worker[r].run
<1>0. q \in Runs /\ q # None
  BY OrchestratorAssumption DEF Recorded
<1>1. CASE q \notin Recorded
  <2>1. PICK r \in Registrations : Records(r, q)
    BY <1>1, NewlyRecorded
  <2>2. stream' = stream /\ followups' = followups
    BY <2>1 DEF Records, streams
  <2>3. BatchesInOrder'
    BY BatchesInOrderStep
  <2>4. e.surface \in Surfaces
    <3>1. /\ batch'[q] \in Batches(<<r, worker[r].input>>)
          /\ <<r, worker[r].input>> \in Triggers
      BY <1>0, <2>1, RecordFacts
    <3>2. e \in Effects(Bound[<<r, worker[r].input>>])
      BY <3>1 DEF Batches
    <3>3. Bound[<<r, worker[r].input>>] \subseteq Surfaces
      BY <3>1, TriggerFacts
    <3> QED
      BY <3>2, <3>3 DEF Effects
  <2>5. \A n \in DOMAIN stream[e.surface] : stream[e.surface][n].by # q
    BY <1>0, <1>1, <2>4 DEF OrchestratorInv, EventsAreScoped
  <2>6. <<q, e.surface>> \notin followups
    BY <1>1 DEF OrchestratorInv, TypeOK, TouchedBy
  <2>7. ~Emitted(q, e)'
    BY <2>2, <2>5 DEF Emitted, BusinessEvent
  <2> QED
    BY <2>2, <2>6, <2>7 DEF Carried
<1>2. CASE q \in Recorded
  <2>1. batch'[q] = batch[q] /\ e \in batch[q].effects
    BY <1>2, FactsAreKept
  <2>2. e.surface \in Surfaces
    BY <1>2, <2>1, BatchFacts DEF OrchestratorInv, Effects
  <2>3. CASE e.kind = "event" /\ stream' = stream
    BY <1>2, <2>1, <2>3 DEF Carried, Emitted
  <2>4. CASE e.kind = "event" /\ stream' # stream
    <3>1. PICK y \in Surfaces, x \in BusinessEvents :
            /\ stream' = [stream EXCEPT ![y] = Append(@, x)]
            /\ x.by # None =>
                 \E r \in Registrations : At(r, "emit") /\ x.by = worker[r].run
      BY <2>4, StreamStep
    <3>2. PICK n \in DOMAIN stream'[e.surface] :
            stream'[e.surface][n] = BusinessEvent(e.name, batch[q].trigger[1], q)
      BY <2>1, <2>4 DEF Carried, Emitted
    <3>3. CASE n \in DOMAIN stream[e.surface]
      <4>1. stream[e.surface][n] = BusinessEvent(e.name, batch[q].trigger[1], q)
        BY <2>2, <3>2, <3>3, LogsGrow
      <4> QED
        BY <1>2, <2>1, <2>4, <3>3, <4>1 DEF Carried, Emitted
    <3>4. CASE n \notin DOMAIN stream[e.surface]
      <4>1. stream \in [Surfaces -> Seq(BusinessEvents)]
        BY DEF OrchestratorInv, Types
      <4>2. y = e.surface /\ stream'[y] = Append(stream[y], x)
        BY <2>2, <3>1, <3>4, <4>1
      <4>3. stream'[e.surface][n] = x
        BY <3>4, <4>1, <4>2, AppendFacts
      <4>4. x.by = q
        BY <3>2, <4>3 DEF BusinessEvent
      <4> QED
        BY <1>0, <1>2, <2>1, <3>1, <4>4
    <3> QED
      BY <3>3, <3>4
  <2>5. CASE e.kind # "event"
    <3>1. <<q, e.surface>> \in followups'
      BY <2>5 DEF Carried
    <3>2. CASE <<q, e.surface>> \in followups
      BY <1>2, <2>1, <2>5, <3>2 DEF Carried
    <3>3. CASE <<q, e.surface>> \notin followups
      <4>1. \E r \in Registrations : \E f : Advances(r, f)
        BY <3>1, <3>3
           DEF DurableStep, Takes, Records, Settles, Fails, Leaves, Applies, Tells,
               Finishes, TellsOutside, Executes, Publishes, durable
      <4>2. PICK r \in Registrations : \E f : Advances(r, f)
        BY <4>1
      <4>3. PICK f : Advances(r, f)
        BY <4>2
      <4> QED
        BY <1>2, <2>1, <3>1, <3>3, <4>3 DEF Advances
    <3> QED
      BY <3>2, <3>3
  <2> QED
    BY <2>3, <2>4, <2>5
<1> QED
  BY <1>1, <1>2

\* apply gets to its effects when all surfaces are applied.
LEMMA EmittersHaveApplied ==
  ASSUME OrchestratorInv, NEW r \in Registrations, At(r, "emit")
  PROVE  /\ worker[r].run \in Recorded
         /\ \A s \in Touches(worker[r].run) : <<worker[r].run, s>> \in applied
<1>1. /\ worker[r].run \in Recorded /\ batch[worker[r].run].trigger[1] = r
      /\ \A s \in Bindings[r] : <<worker[r].run, s>> \in applied
  BY DEF At, OrchestratorInv, WorkersReady, Ready
<1>2. Touches(worker[r].run) = Bindings[r]
  BY <1>1, BatchFacts DEF OrchestratorInv
<1> QED
  BY <1>1, <1>2

\* No step carries out an effect of a batch with a surface to be applied.
LEMMA ContentBeforeEffectsStep ==
  ASSUME OrchestratorInv, DurableStep
  PROVE  ContentBeforeEffects'
<1> SUFFICES ASSUME NEW q \in Recorded', NEW e \in batch'[q].effects, Carried(q, e)',
                    NEW s \in Touches(q)'
             PROVE  <<q, s>> \in applied'
  BY DEF ContentBeforeEffects
<1>1. /\ q \in Recorded /\ e \in batch[q].effects
      /\ \/ Carried(q, e)
         \/ \E r \in Registrations : At(r, "emit") /\ q = worker[r].run
  BY NewlyCarried
<1>2. s \in Touches(q) /\ applied \subseteq applied'
  BY <1>1, FactsAreKept
<1>3. CASE Carried(q, e)
  BY <1>1, <1>2, <1>3 DEF OrchestratorInv, ContentBeforeEffects
<1>4. CASE \E r \in Registrations : At(r, "emit") /\ q = worker[r].run
  BY <1>2, <1>4, EmittersHaveApplied
<1> QED
  BY <1>1, <1>3, <1>4

\* No step settles a batch that owes an effect.
LEMMA SettledMeansDoneStep ==
  ASSUME OrchestratorInv, DurableStep
  PROVE  SettledMeansDone'
<1> SUFFICES ASSUME NEW q \in settled'
             PROVE  /\ \A s \in Touches(q)' : <<q, s>> \in applied'
                    /\ \A e \in batch'[q].effects : Carried(q, e)'
  BY DEF SettledMeansDone
<1>1. /\ q \in Recorded
      /\ \A s \in Touches(q) : <<q, s>> \in applied
      /\ \A e \in batch[q].effects : Carried(q, e)
  <2>1. CASE q \in settled
    BY <2>1 DEF OrchestratorInv, TypeOK, SettledMeansDone
  <2>2. CASE q \notin settled
    <3>1. PICK r \in Registrations : Settles(r)
      BY <2>2
         DEF DurableStep, Takes, Records, Fails, Leaves, Applies, Tells, Advances,
             Finishes, TellsOutside, Executes, Publishes, Record, SettleFailed,
             ledgerVars, durable
    <3>2. q = worker[r].run /\ At(r, "emit") /\ Owed(q) = {}
      BY <2>2, <3>1 DEF Settles, Settle
    <3> QED
      BY <3>2, EmittersHaveApplied DEF Owed
  <2> QED
    BY <2>1, <2>2
<1> QED
  BY <1>1, FactsAreKept

\* A surface that a pending batch holds is moved by nobody else: not by another
\* batch, a publication, or the end of somebody's interrupted apply.
LEMMA PendingHoldsHeadsStep ==
  ASSUME OrchestratorInv, DurableStep
  PROVE  PendingHoldsHeads'
<1> SUFFICES ASSUME NEW q \in Pending', NEW s \in Surfaces, s \in Touches(q)'
             PROVE  head'[s] = batch'[q].base[s]
                      + (IF <<q, s>> \in applied' /\ s \in batch'[q].changes
                         THEN 1 ELSE 0)
  BY DEF PendingHoldsHeads
<1>0. q \in Runs /\ q \in Recorded' /\ head \in [Surfaces -> Nat]
  BY DEF Pending, Recorded, OrchestratorInv, Types
<1>1. CASE q \notin Recorded
  <2>1. PICK r \in Registrations : Records(r, q)
    BY <1>0, <1>1, NewlyRecorded
  <2>2. /\ head' = head /\ applied' = applied /\ batch'[q] = worker[r].plan
        /\ Recordable(worker[r].plan)
    BY <1>0, <2>1, RecordFacts DEF Records, content
  <2>3. s \in Bound[worker[r].plan.trigger]
    BY <2>2 DEF Touches
  <2>4. <<q, s>> \notin applied
    BY <1>1 DEF OrchestratorInv, TypeOK, TouchedBy
  <2>5. head[s] = worker[r].plan.base[s]
    BY <2>2, <2>3 DEF Recordable
  <2> QED
    BY <1>0, <2>2, <2>4, <2>5
<1>2. CASE q \in Recorded
  <2>1. /\ q \in Pending /\ s \in Touches(q) /\ batch'[q] = batch[q]
    BY <1>2, StillPending, FactsAreKept
  <2>2. head[s] = batch[q].base[s]
                   + (IF <<q, s>> \in applied /\ s \in batch[q].changes
                      THEN 1 ELSE 0)
    BY <2>1 DEF OrchestratorInv, PendingHoldsHeads
  <2>3. batch[q].base[s] \in Nat
    BY <1>2, <2>1, BatchFacts DEF OrchestratorInv
  <2> DEFINE Goal == head'[s] = batch[q].base[s]
                      + (IF <<q, s>> \in applied' /\ s \in batch[q].changes
                         THEN 1 ELSE 0)
  <2>4. ASSUME NEW p, NEW x \in Surfaces, Move(<<p, x>>), <<p, x>> \notin applied,
               x = s => p = q
        PROVE  Goal
    <3>1. /\ applied' = applied \union {<<p, x>>}
          /\ head'[x] = head[x] + (IF x \in batch[p].changes THEN 1 ELSE 0)
          /\ \A y \in Surfaces \ {x} : head'[y] = head[y]
      BY <1>0, <2>4, MoveFacts
    <3>2. CASE x = s
      BY <2>2, <2>3, <2>4, <3>1, <3>2
    <3>3. CASE x # s
      BY <2>2, <3>1, <3>3
    <3> QED
      BY <3>2, <3>3
  <2>5. ASSUME NEW r \in Registrations, NEW x \in Surfaces, Applies(r, x)
        PROVE  Goal
    <3>1. /\ Move(<<worker[r].run, x>>) /\ <<worker[r].run, x>> \notin applied
          /\ ~Reserved(x, worker[r].run)
      BY <2>5 DEF Applies
    <3>2. x = s => worker[r].run = q
      BY <2>1, <3>1 DEF Reserved
    <3> QED
      BY <2>4, <3>1, <3>2
  <2>6. ASSUME NEW i \in left, Finishes(i) PROVE Goal
    <3>1. i = <<i[1], i[2]>> /\ i[2] \in Surfaces /\ i \notin applied /\ Move(i)
      BY <2>6, LeftFacts DEF Finishes
    <3>2. i[2] = s => i[1] = q
      BY <2>1 DEF OrchestratorInv, LeftHeldAlone
    <3> QED
      BY <2>4, <3>1, <3>2
  <2>7. ASSUME NEW x \in Surfaces, Publishes(x) PROVE Goal
    <3>1. q # None
      BY <1>0, OrchestratorAssumption
    <3>2. x # s
      BY <2>1, <2>7, <3>1 DEF Publishes, Reserved
    <3>3. head'[s] = head[s] /\ applied' = applied
      BY <1>0, <2>7, <3>2 DEF Publishes
    <3> QED
      BY <2>2, <3>3
  <2>8. ASSUME head' = head, applied' = applied PROVE Goal
    BY <2>2, <2>8
  <2> HIDE DEF Goal
  <2>9. Goal
    BY <2>5, <2>6, <2>7, <2>8
       DEF DurableStep, Takes, Records, Settles, Fails, Leaves, Tells, Advances,
           TellsOutside, Executes, content, durable
  <2> QED
    BY <2>1, <2>9 DEF Goal
<1> QED
  BY <1>1, <1>2

\* Records and sets of the host only name what is there.
LEMMA RegistryStep ==
  ASSUME OrchestratorInv, [Next]_vars
  PROVE  /\ inactive' \subseteq retired' /\ retired' \subseteq admitted'
         /\ drafts' \subseteq Surfaces
<1>0. /\ inactive \subseteq retired /\ retired \subseteq admitted
      /\ drafts \subseteq Surfaces
  BY DEF OrchestratorInv, TypeOK
<1>1. ASSUME NEW r \in Registrations, Host(r)
      PROVE  /\ inactive' \subseteq retired' /\ retired' \subseteq admitted'
             /\ drafts' = drafts
  <2>1. CASE Retire(r)
    BY <1>0, <2>1 DEF Retire, RecordRetirement, Deactivate, around
  <2>2. CASE ~Retire(r)
    BY <1>0, <1>1, <2>2
       DEF Host, Measure, PutRegistration, Deliver, Recover, RecoverExternal,
           Dispatch, Take, registry, around
  <2> QED
    BY <2>1, <2>2
<1>2. ASSUME NEW r \in Registrations, Work(r) \/ Throw(r)
      PROVE  UNCHANGED <<registry, drafts>>
  BY <1>2
     DEF Work, AppendInput, Drain, RunCode, RecordBatch, ReadHead, ApplySurface,
         CarryOut, SettleBatch, SettleAsFailed, Blocked, Throw, around
<1>3. ASSUME NEW s \in Surfaces, PublishTurn(s) \/ Edit(s)
      PROVE  drafts' \subseteq Surfaces /\ UNCHANGED registry
  BY <1>0, <1>3 DEF PublishTurn, Publication, Edit
<1>4. CASE Crash
  BY <1>0, <1>4 DEF Crash, Restart
<1> QED
  BY <1>0, <1>1, <1>2, <1>3, <1>4
     DEF Next, FinishLeft, EmitTurn, CompleteTool, registry, around, vars

\* A fact about a surface of a run is about a recorded run and its surface.
LEMMA TouchedByStep ==
  ASSUME OrchestratorInv, DurableStep
  PROVE  /\ applied' \subseteq TouchedBy' /\ left' \subseteq TouchedBy'
         /\ followups' \subseteq TouchedBy'
         /\ settled' \union failed' \subseteq Recorded'
<1>1. /\ applied \subseteq TouchedBy' /\ left \subseteq TouchedBy'
      /\ followups \subseteq TouchedBy'
      /\ settled \union failed \subseteq Recorded'
  BY FactsAreKept DEF OrchestratorInv, TypeOK, TouchedBy
<1>2. ASSUME NEW r \in Registrations, NEW s \in Bindings[r],
             At(r, "apply") \/ At(r, "emit")
      PROVE  <<worker[r].run, s>> \in TouchedBy'
  <2>1. PICK q \in Recorded : q = worker[r].run /\ batch[q].trigger[1] = r
    BY <1>2 DEF At, OrchestratorInv, WorkersReady, Ready
  <2>2. Touches(q) = Bindings[r] /\ Bindings[r] \subseteq Surfaces /\ q \in Runs
    BY <2>1, BatchFacts DEF OrchestratorInv, Recorded
  <2>3. q \in Recorded' /\ Touches(q)' = Touches(q)
    BY <2>1, FactsAreKept
  <2>4. <<q, s>> \in TouchedBy'
    BY <2>2, <2>3 DEF TouchedBy
  <2> QED
    BY <2>1, <2>4
<1>3. ASSUME NEW r \in Registrations, At(r, "apply")
      PROVE  worker[r].todo \subseteq Bindings[r]
  BY <1>3 DEF At, OrchestratorInv, WorkersReady, Ready
<1>4. applied' \subseteq TouchedBy'
  <2>1. ASSUME NEW r \in Registrations, NEW s \in Surfaces, Applies(r, s)
        PROVE  applied' \subseteq TouchedBy'
    BY <1>1, <1>2, <1>3, <2>1 DEF Applies, Move
  <2>2. ASSUME NEW i \in left, Finishes(i) PROVE applied' \subseteq TouchedBy'
    BY <1>1, <2>2 DEF Finishes, Move
  <2>3. CASE applied' = applied
    BY <1>1, <2>3
  <2> QED
    BY <2>1, <2>2, <2>3
       DEF DurableStep, Takes, Records, Settles, Fails, Leaves, Tells, Advances,
           TellsOutside, Executes, Publishes, content, durable
<1>5. left' \subseteq TouchedBy'
  <2>1. ASSUME NEW r \in Registrations, Leaves(r) PROVE left' \subseteq TouchedBy'
    BY <1>2, <1>3, <2>1 DEF Leaves, LeaveIntent
  <2>2. CASE left' \subseteq left
    BY <1>1, <2>2
  <2> QED
    BY <2>1, <2>2
       DEF DurableStep, Takes, Records, Settles, Fails, Applies, Tells, Advances,
           Finishes, TellsOutside, Executes, Publishes, content, durable
<1>6. followups' \subseteq TouchedBy'
  <2>1. ASSUME NEW r \in Registrations, NEW e, Advances(r, e)
        PROVE  followups' \subseteq TouchedBy'
    <3>1. At(r, "emit") /\ e \in Owed(worker[r].run)
      BY <2>1 DEF Advances
    <3>2. e.surface \in Bindings[r]
      BY <3>1, OwedFacts
    <3>3. <<worker[r].run, e.surface>> \in TouchedBy'
      BY <1>2, <3>1, <3>2
    <3> QED
      BY <1>1, <2>1, <3>3 DEF Advances
  <2>2. CASE followups' = followups
    BY <1>1, <2>2
  <2> QED
    BY <2>1, <2>2
       DEF DurableStep, Takes, Records, Settles, Fails, Leaves, Applies, Tells,
           Finishes, TellsOutside, Executes, Publishes, durable
<1>7. settled' \union failed' \subseteq Recorded'
  <2>1. ASSUME NEW q \in Recorded,
               settled' \union failed' \subseteq settled \union failed \union {q}
        PROVE  settled' \union failed' \subseteq Recorded'
    BY <1>1, <2>1, FactsAreKept
  <2>2. ASSUME NEW r \in Registrations, Settles(r) \/ Fails(r)
        PROVE  settled' \union failed' \subseteq Recorded'
    BY <2>1, <2>2 DEF Settles, Fails, Settle, SettleFailed
  <2>3. CASE UNCHANGED <<settled, failed>>
    BY <1>1, <2>3
  <2> QED
    BY <2>2, <2>3
       DEF DurableStep, Takes, Records, Leaves, Applies, Tells, Advances, Finishes,
           TellsOutside, Executes, Publishes, Record, ledgerVars, durable
<1> QED
  BY <1>4, <1>5, <1>6, <1>7

\* The workers keep what their stages need, and sets their types.
LEMMA TypeOKStep ==
  ASSUME OrchestratorInv, [Next]_vars
  PROVE  TypeOK'
<1>1. DurableStep
  BY StepsAreDurable DEF OrchestratorInv
<1>2. \A s \in Surfaces : head'[s] \in Nat /\ tools'[s] \in Nat
  BY <1>1, DurableTypes
<1>3. ASSUME NEW r \in Registrations
      PROVE  /\ \A n \in DOMAIN ledger'[r] : ledger'[r][n] \in Events
             /\ worker'[r].at \in Stages /\ worker'[r].owed \subseteq Events
             /\ r \notin admitted' => ledger'[r] = <<>> /\ worker'[r] = Idle
  <2>1. ledger'[r] \in Seq(Events) /\ worker'[r] \in Workers
    BY TypesStep DEF Types
  <2>2. worker'[r].at \in Stages /\ worker'[r].owed \subseteq Events
    BY <2>1 DEF Workers
  <2>3. \A n \in DOMAIN ledger'[r] : ledger'[r][n] \in Events
    BY <2>1
  <2> QED
    BY <2>2, <2>3, AdmittedStep DEF Fallow
<1>4. ASSUME NEW r \in Registrations
      PROVE  /\ worker'[r].at \in {"head", "code", "record", "apply", "emit"} =>
                  worker'[r].input \in DOMAIN ledger'[r]
             /\ worker'[r].at \in {"apply", "emit", "fail"} =>
                  worker'[r].run \in Recorded' /\ batch'[worker'[r].run].trigger[1] = r
             /\ worker'[r].at \in {"apply", "emit"} => worker'[r].run \in Pending'
  BY WorkersStep DEF WorkersReady, Ready
<1> QED
  BY <1>1, <1>2, <1>3, <1>4, RegistryStep, TouchedByStep DEF TypeOK

\* An empty disk satisfies the inductive invariant.
LEMMA OrchestratorStarts == Init => OrchestratorInv
<1> SUFFICES ASSUME Init PROVE OrchestratorInv
  OBVIOUS
<1> USE DEF Init, LedgerInit
<1>1. Recorded = {} /\ Pending = {} /\ settled = {} /\ failed = {} /\ left = {}
  BY DEF Recorded, Pending
<1>2. Types
  <2>1. /\ batch \in [Runs -> Plans \union {None}]
        /\ tools \in [Surfaces -> Nat] /\ head \in [Surfaces -> Nat]
        /\ worker \in [Registrations -> Workers]
    BY IdleWorks
  <2>2. /\ stream \in [Surfaces -> Seq(BusinessEvents)]
        /\ ledger \in [Registrations -> Seq(Events)]
        /\ \A r \in Registrations : Len(ledger[r]) <= MaxInputs
    BY TriggerFacts
  <2>3. /\ wakeups \in [Registrations -> SUBSET SUBSET Events]
        /\ \A r \in Registrations : wakeups[r] = {}
    OBVIOUS
  <2> QED
    BY <2>1, <2>2, <2>3 DEF Types
<1>3. \A r \in Registrations :
        worker[r] = Idle /\ worker[r].at = "idle" /\ worker[r].owed = {}
  <2>1. Idle.at = "idle" /\ Idle.owed = {}
    BY DEF Idle
  <2>2. \A r \in Registrations : worker[r] = Idle
    OBVIOUS
  <2> QED
    BY <2>1, <2>2
<1>4. \A r \in Registrations : DOMAIN ledger[r] = {}
  <2>1. \A r \in Registrations : ledger[r] = <<>>
    OBVIOUS
  <2> HIDE DEF Init, LedgerInit
  <2> QED
    BY <2>1
<1>5. TypeOK
  <2>1. \A s \in Surfaces : head[s] \in Nat /\ tools[s] \in Nat
    OBVIOUS
  <2>2. \A r \in Registrations : ledger[r] = <<>>
    OBVIOUS
  <2>3. /\ applied = {} /\ left = {} /\ followups = {} /\ drafts = {}
        /\ inactive = {} /\ retired = {}
    OBVIOUS
  <2>4. "idle" \in Stages
    BY DEF Stages
  <2> HIDE DEF Init, LedgerInit
  <2> QED
    BY <1>1, <1>3, <1>4, <2>1, <2>2, <2>3, <2>4 DEF TypeOK
<1>6. WorkersReady
  BY <1>3 DEF WorkersReady, Ready
<1>7. \A s \in Surfaces : DOMAIN stream[s] = {}
  OBVIOUS
<1>8. EventsAreScoped /\ EffectsOnce
  BY <1>5, <1>7 DEF EventsAreScoped, EffectsOnce
<1> QED
  BY <1>1, <1>2, <1>5, <1>6, <1>8
     DEF OrchestratorInv, BatchesInOrder, BatchesApart, LeftHeldAlone,
         ContentBeforeEffects, SettledMeansDone, PendingHoldsHeads

\* No step of the host, its sessions or editors leaves the inductive invariant.
LEMMA OrchestratorSteps ==
  ASSUME OrchestratorInv, [Next]_vars
  PROVE  OrchestratorInv'
<1>1. DurableStep
  BY StepsAreDurable DEF OrchestratorInv
<1> QED
  BY <1>1, TypesStep, TypeOKStep, BatchesInOrderStep, BatchesApartStep,
     LeftHeldAloneStep, WorkersStep, StreamsAreTrue, ContentBeforeEffectsStep,
     SettledMeansDoneStep, PendingHoldsHeadsStep
     DEF OrchestratorInv

-----------------------------------------------------------------------------
(***************************************************************************)
(* The theorems.                                                            *)
(***************************************************************************)
\* The inductive invariant holds in every reachable state.
THEOREM OrchestratorInvariant == Spec => []OrchestratorInv
BY OrchestratorStarts, OrchestratorSteps, PTL DEF Spec

\* No event of a batch is in a stream, and no turn is started by it, before every
\* surface of the batch is applied: over errors, second attempts and restarts of
\* any number of registrations (apply).
THEOREM EffectsFollowContent == Spec => []ContentBeforeEffects
<1>1. OrchestratorInv => ContentBeforeEffects
  BY DEF OrchestratorInv
<1> QED
  BY <1>1, OrchestratorInvariant, PTL

\* An effect is carried out at most once, and none that the batch does not say or
\* that the routes refuse (events.append by operation key).
THEOREM EffectsAreOnce == Spec => []EffectsOnce
<1>1. OrchestratorInv => EffectsOnce
  BY DEF OrchestratorInv
<1> QED
  BY <1>1, OrchestratorInvariant, PTL

\* A run is settled when all its surfaces are applied and its effects carried out.
THEOREM SettlementsAreTrue == Spec => []SettledMeansDone
<1>1. OrchestratorInv => SettledMeansDone
  BY DEF OrchestratorInv
<1> QED
  BY <1>1, OrchestratorInvariant, PTL

\* No publication, other batch or recovered apply moves a surface that a pending
\* batch holds (assertUnreserved), whatever is edited or interrupted meanwhile.
THEOREM PendingBatchesHold == Spec => []PendingHoldsHeads
<1>1. OrchestratorInv => PendingHoldsHeads
  BY DEF OrchestratorInv
<1> QED
  BY <1>1, OrchestratorInvariant, PTL

\* A registration at rest after its retirement is never woken again: not by a late
\* delivery, a recovery or a restart.
THEOREM RetiredIsQuiet == Spec => RetiredStaysQuiet
<1>1. ASSUME OrchestratorInv, [Next]_vars, NEW p \in Registrations, AtRest(p)
      PROVE  AtRest(p)'
  <2>0. /\ p \in inactive /\ p \in retired /\ worker[p].at = "idle" /\ wakeups[p] = {}
        /\ worker \in [Registrations -> Workers]
        /\ wakeups \in [Registrations -> SUBSET SUBSET Events]
    BY <1>1 DEF OrchestratorInv, Types, TypeOK, AtRest, At
  <2>1. ASSUME NEW r \in Registrations, Work(r) \/ Throw(r) PROVE AtRest(p)'
    <3>1. worker[r].at # "idle"
      BY <2>1
         DEF Work, AppendInput, Drain, RunCode, RecordBatch, ReadHead, ApplySurface,
             CarryOut, SettleBatch, SettleAsFailed, Blocked, InContent, Throw, At
    <3>2. worker'[p] = worker[p]
      BY <2>0, <2>1, <3>1
         DEF Work, AppendInput, Drain, RunCode, RecordBatch, ReadHead, ApplySurface,
             CarryOut, SettleBatch, SettleAsFailed, Blocked, Throw, Caught, Becomes
    <3>3. UNCHANGED <<wakeups, inactive>>
      BY <2>1
         DEF Work, AppendInput, Drain, RunCode, RecordBatch, ReadHead, ApplySurface,
             CarryOut, SettleBatch, SettleAsFailed, Blocked, Throw, around, registry
    <3> QED
      BY <2>0, <3>2, <3>3 DEF AtRest, At
  <2>2. ASSUME NEW r \in Registrations, NEW deliveries, Dispatch(r, deliveries)
        PROVE  AtRest(p)'
    <3>1. r # p
      BY <2>0, <2>2 DEF Dispatch
    <3> QED
      BY <2>0, <2>2, <3>1 DEF Dispatch, registry, AtRest, At
  <2>3. ASSUME NEW r \in Registrations, NEW delivery \in wakeups[r], Take(r, delivery)
        PROVE  AtRest(p)'
    <3>1. r # p
      BY <2>0
    <3> QED
      BY <2>0, <2>3, <3>1 DEF Take, Becomes, registry, AtRest, At
  <2>4. ASSUME NEW r \in Registrations,
               \/ \E s \in Bindings[r] : Measure(r, s)
               \/ PutRegistration(r) \/ Retire(r)
        PROVE  AtRest(p)'
    BY <2>0, <2>4
       DEF Measure, PutRegistration, Retire, RecordRetirement, Deactivate, around,
           AtRest, At
  <2>5. ASSUME NEW r \in Registrations, Host(r) PROVE AtRest(p)'
    BY <2>2, <2>3, <2>4, <2>5 DEF Host, Deliver, Recover, RecoverExternal
  <2>6. CASE Crash
    BY <2>0, <2>6 DEF Crash, Restart, AtRest, At, Idle
  <2>7. CASE UNCHANGED <<wakeups, worker, inactive>>
    BY <2>0, <2>7 DEF AtRest, At
  <2> QED
    BY <1>1, <2>1, <2>5, <2>6, <2>7
       DEF Next, FinishLeft, EmitTurn, CompleteTool, PublishTurn, Publication, Edit,
           registry, around, vars
<1>2. ASSUME OrchestratorInv, [Next]_vars
      PROVE  \A r \in Registrations : AtRest(r) => AtRest(r)'
  BY <1>1, <1>2
<1> QED
  BY <1>2, OrchestratorInvariant, PTL DEF Spec, RetiredStaysQuiet

\* The n-th input of r is finished by a settlement of its batch, and by nothing
\* else, when the inputs before it are finished.
LEMMA NewlyDone ==
  ASSUME OrchestratorInv, DurableStep, NEW r \in Registrations, NEW n \in Nat,
         ~Done(r, n), Done(r, n)'
  PROVE  /\ DoneBefore(r, n) /\ n \in DOMAIN ledger[r]
         /\ \E q \in Recorded :
              /\ batch[q].trigger = <<r, n>>
              /\ settled' \union failed' = settled \union failed \union {q}
<1>1. PICK q \in Recorded' : batch'[q].trigger = <<r, n>> /\ q \notin Pending'
  BY DEF Done, RunsFor
<1>2. q \in Recorded
  <2>1. ASSUME NEW p \in Registrations, Records(p, q) PROVE FALSE
    <3>1. q \in Pending'
      BY <1>1, <2>1, RecordFacts DEF Recorded
    <3> QED
      BY <1>1, <3>1
  <2> QED
    BY <1>1, <2>1, NewlyRecorded
<1>3. batch[q].trigger = <<r, n>>
  BY <1>1, <1>2, FactsAreKept
<1>4. q \in Pending
  BY <1>2, <1>3 DEF Done, RunsFor
<1>5. q \in (settled' \union failed') \ (settled \union failed)
  BY <1>1, <1>4 DEF Pending
<1>6. settled' \union failed' = settled \union failed \union {q}
  <2>1. ASSUME NEW p, settled' \union failed' = settled \union failed \union {p}
        PROVE  settled' \union failed' = settled \union failed \union {q}
    BY <1>5, <2>1
  <2>2. ASSUME NEW p \in Registrations, Settles(p) \/ Fails(p)
        PROVE  settled' \union failed' = settled \union failed \union {q}
    BY <2>1, <2>2 DEF Settles, Fails, Settle, SettleFailed
  <2> QED
    BY <1>5, <2>2
       DEF DurableStep, Takes, Records, Leaves, Applies, Tells, Advances, Finishes,
           TellsOutside, Executes, Publishes, Record, ledgerVars, durable
<1>7. DoneBefore(r, n) /\ n \in DOMAIN ledger[r]
  BY <1>2, <1>3 DEF OrchestratorInv, BatchesInOrder
<1> QED
  BY <1>2, <1>3, <1>6, <1>7

\* The mapping to queues: the finished inputs of a ledger.
DoneInputs(r) == {n \in DOMAIN ledger[r] : Done(r, n)}
finishedInputs == [r \in Registrations |-> DoneInputs(r)]

\* A step finishes at most one input of one registration.
LEMMA OneFinishes ==
  ASSUME OrchestratorInv, DurableStep, ledger' = ledger
  PROVE  \/ finishedInputs' = finishedInputs
         \/ \E r \in Registrations : \E n \in DOMAIN ledger[r] : Queues!Finish(r, n)
<1>1. \A r \in Registrations : DOMAIN ledger[r] \subseteq Nat
  BY DEF OrchestratorInv, Types
<1>2. \A r \in Registrations : DoneInputs(r) \subseteq DoneInputs(r)'
  BY <1>1, FactsAreKept DEF DoneInputs
<1>3. CASE \A r \in Registrations : DoneInputs(r)' = DoneInputs(r)
  BY <1>3 DEF finishedInputs
<1>4. CASE \E r \in Registrations : DoneInputs(r)' # DoneInputs(r)
  <2>0. PICK r \in Registrations : DoneInputs(r)' # DoneInputs(r)
    BY <1>4
  <2>1. PICK n \in DOMAIN ledger[r] : ~Done(r, n) /\ Done(r, n)'
    BY <1>2, <2>0 DEF DoneInputs
  <2>2. n \in Nat
    BY <1>1
  <2>3. PICK q \in Recorded :
          /\ batch[q].trigger = <<r, n>>
          /\ settled' \union failed' = settled \union failed \union {q}
    BY <2>1, <2>2, NewlyDone
  <2>4. ASSUME NEW p \in Registrations, NEW m \in DOMAIN ledger[p],
               ~Done(p, m), Done(p, m)'
        PROVE  p = r /\ m = n
    <3>1. m \in Nat
      BY <1>1
    <3>2. PICK o \in Recorded :
            /\ batch[o].trigger = <<p, m>>
            /\ settled' \union failed' = settled \union failed \union {o}
      BY <2>4, <3>1, NewlyDone
    <3>3. o \in Pending
      BY <2>4, <3>2 DEF Done, RunsFor
    <3>4. o = q
      BY <2>3, <3>2, <3>3 DEF Pending
    <3> QED
      BY <2>3, <3>2, <3>4
  <2>5. finishedInputs' = [finishedInputs EXCEPT ![r] = @ \union {n}]
    <3>1. ASSUME NEW p \in Registrations
          PROVE  DoneInputs(p)' = IF p = r THEN DoneInputs(r) \union {n}
                                  ELSE DoneInputs(p)
      BY <1>2, <2>1, <2>4 DEF DoneInputs
    <3> QED
      BY <3>1 DEF finishedInputs
  <2>6. n \notin finishedInputs[r] /\ 1..(n - 1) \subseteq finishedInputs[r]
    <3>1. DoneBefore(r, n)
      BY <2>1, <2>2, NewlyDone
    <3>2. 1..(n - 1) \subseteq DOMAIN ledger[r]
      <4>1. DOMAIN ledger[r] = 1..Len(ledger[r]) /\ Len(ledger[r]) \in Nat
        BY DEF OrchestratorInv, Types
      <4> QED
        BY <2>2, <4>1
    <3> QED
      BY <2>1, <3>1, <3>2 DEF finishedInputs, DoneInputs, DoneBefore
  <2>7. Queues!Finish(r, n)
    BY <2>5, <2>6 DEF Queues!Finish, finishedInputs, DoneInputs
  <2> QED
    BY <2>7
<1> QED
  BY <1>3, <1>4

\* An input that is new in a ledger is not finished: nothing was recorded for it.
LEMMA TakesAccepts ==
  ASSUME OrchestratorInv, DurableStep, NEW r \in Registrations, NEW ref \in Events,
         Takes(r, ref)
  PROVE  Queues!Accept(r, ref)
<1>0. ledger \in [Registrations -> Seq(Events)]
  BY DEF OrchestratorInv, Types
<1>1. ref \notin Accepted(r) /\ ledger' = [ledger EXCEPT ![r] = Append(@, ref)]
  BY DEF Takes
<1>2. UNCHANGED ledgerVars
  BY DEF Takes
<1>3. \A p, n : Done(p, n)' <=> Done(p, n)
  BY <1>2 DEF Done, RunsFor, Recorded, Pending, ledgerVars
<1>4. ~Done(r, Len(ledger[r]) + 1)
  <2>1. ASSUME NEW q \in Recorded, batch[q].trigger = <<r, Len(ledger[r]) + 1>>
        PROVE  FALSE
    <3>1. Len(ledger[r]) + 1 \in DOMAIN ledger[r]
      BY <2>1 DEF OrchestratorInv, BatchesInOrder
    <3> QED
      BY <1>0, <3>1
  <2> QED
    BY <2>1 DEF Done, RunsFor
<1>5. ASSUME NEW p \in Registrations PROVE DoneInputs(p)' = DoneInputs(p)
  <2>1. CASE p = r
    <3>1. DOMAIN ledger'[r] = DOMAIN ledger[r] \union {Len(ledger[r]) + 1}
      BY <1>0, <1>1, AppendFacts
    <3> QED
      BY <1>3, <1>4, <2>1, <3>1 DEF DoneInputs
  <2>2. CASE p # r
    BY <1>0, <1>1, <1>3, <2>2 DEF DoneInputs
  <2> QED
    BY <2>1, <2>2
<1>6. finishedInputs' = finishedInputs
  BY <1>5 DEF finishedInputs
<1> QED
  BY <1>1, <1>6
     DEF Queues!Accept, Queues!Members, Accepted, finishedInputs, DoneInputs

\* The input ledgers with their runs implement queues: an accepted event stays
\* accepted, and inputs are finished one by one in their order, whatever is
\* delivered twice, fails or is started again (records.find, assertUnreserved).
THEOREM LedgersAreQueues == Spec => ImplementsQueues
<1>1. Init => Queues!Init
  <2> SUFFICES ASSUME Init PROVE Queues!Init
    OBVIOUS
  <2>1. ledger = [r \in Registrations |-> <<>>]
    BY DEF Init
  <2>2. \A r \in Registrations : DoneInputs(r) = {}
    BY <2>1 DEF DoneInputs
  <2> QED
    BY <2>1, <2>2 DEF Queues!Init, DoneInputs
<1>2. ASSUME OrchestratorInv, [Next]_vars PROVE [Queues!Next]_(Queues!queueVars)
  <2>1. DurableStep
    BY <1>2, StepsAreDurable DEF OrchestratorInv
  <2>2. ASSUME NEW r \in Registrations, NEW ref \in Events, Takes(r, ref)
        PROVE  Queues!Next
    BY <1>2, <2>1, <2>2, TakesAccepts DEF Queues!Next
  <2>3. CASE ledger' = ledger
    <3>1. CASE finishedInputs' = finishedInputs
      BY <2>3, <3>1 DEF Queues!queueVars, finishedInputs, DoneInputs
    <3>2. CASE \E r \in Registrations : \E n \in DOMAIN ledger[r] : Queues!Finish(r, n)
      BY <3>2 DEF Queues!Next
    <3> QED
      BY <1>2, <2>1, <2>3, <3>1, <3>2, OneFinishes
  <2> QED
    BY <2>1, <2>2, <2>3
       DEF DurableStep, Records, Settles, Fails, Leaves, Applies, Tells, Advances,
           Finishes, TellsOutside, Executes, Publishes, durable
<1> QED
  BY <1>1, <1>2, OrchestratorInvariant, PTL
     DEF Spec, ImplementsQueues, Queues!Spec
=============================================================================
