------------------------- MODULE CodeFirstOrchestrator -------------------------
(***************************************************************************)
(* CodeFirstOrchestrator (packages/runtime/src/code-first-orchestrator.ts)  *)
(* with its stores (packages/core/src/orchestrate-ledger-store.ts): one     *)
(* worker per registration takes delivered events into the input ledger and *)
(* drains it, input by input: read the heads, run the code, record a batch, *)
(* apply it surface by surface, emit its events, advance, settle.           *)
(*                                                                          *)
(* A surface transaction is one step here; SurfaceContent has its inside.   *)
(* What it leaves to this level is an apply that was interrupted after its  *)
(* intent became durable: every later transaction of the workspace finishes *)
(* it first, or throws because authoring files are in its way.  A revision  *)
(* is the number of times its surface has moved.                            *)
(***************************************************************************)
EXTENDS OperationLedger, Naturals, Sequences, FiniteSets

CONSTANTS
  Registrations,
  Names,        \* names of events; a business event is scoped to a registration
  Tool,         \* the built-in event of a host execution, the same for everyone
  Bindings,     \* surfaces of each registration
  Consumes,     \* <<surface, name>>: what each registration is routed
  Outputs,      \* <<surface, name>>: what a turn on the surface may emit for it
  Emits,        \* <<surface, name>>: what its code may emit
  Results,      \* what its code may return: surfaces it changes, effects
  Retirable,    \* registrations that may be retired
  Edited,       \* surfaces whose drafts may stand in the way of a candidate
  MaxInputs,    \* bound: inputs of a ledger, outside events of a stream
  MaxEvents,    \* bound: events from outside
  MaxMoves,     \* bound: publications and edits from outside
  MaxFaults     \* bound: errors and crashes

\* The effects on a set of surfaces: business events and followup turns.
Effects(surfaces) ==
  [kind : {"event"}, surface : surfaces, name : Names \ {Tool}]
    \union [kind : {"advance"}, surface : surfaces]

\* The batches of an input: on its surfaces, with effects its routes let pass.
Batches(t) ==
  [trigger : {t}, base : [Bound[t] -> Nat], changes : SUBSET Bound[t],
   effects : SUBSET {e \in Effects(Bound[t]) :
                       e.kind = "event" => <<e.surface, e.name>> \in Emits[t[1]]}]

ASSUME OrchestratorAssumption ==
  /\ Triggers = Registrations \X (1..MaxInputs)
  /\ Bindings \in [Registrations -> (SUBSET Surfaces) \ {{}}]
  /\ \A t \in Triggers : Bound[t] = Bindings[t[1]]
  /\ Tool \in Names
  /\ {Consumes, Outputs, Emits} \subseteq [Registrations -> SUBSET (Surfaces \X Names)]
  /\ \A r \in Registrations :
       /\ Consumes[r] \subseteq Bindings[r] \X Names
       /\ Outputs[r] \union Emits[r] \subseteq Bindings[r] \X (Names \ {Tool})
       /\ Results[r] \subseteq [changes : SUBSET Bindings[r],
                                effects : SUBSET Effects(Surfaces)]
  /\ None \notin Runs /\ \A t \in Triggers : None \notin Batches(t)
  /\ {MaxInputs, MaxEvents, MaxMoves, MaxFaults} \subseteq Nat

VARIABLES
  \* durable
  stream,       \* business events of each surface, in order
  tools,        \* host executions of the session of each surface, counted
  head,         \* how often each surface has moved
  applied,      \* <<run, surface>>: the applied facts
  left,         \* <<run, surface>>: intents of interrupted applies
  followups,    \* <<run, surface>>: turns started by an advance
  admitted,     \* registrations with a record
  boundary,     \* the history boundary of each registration's record
  ledger,       \* the input ledger of each registration
  retired,      \* registrations with a retirement record
  \* the authoring files
  drafts,       \* surfaces with work that is neither base nor candidate
  \* memory of the host
  measured,     \* bindings whose boundary an admission has read
  inactive,     \* retiredIds
  wakeups,      \* dispatched deliveries that wait for the worker
  worker,       \* the drain of each registration
  \* bounds
  outside,      \* events from outside so far
  moves,        \* publications and edits so far
  faults        \* errors and crashes so far

streams == <<stream, tools>>
content == <<head, applied, left>>
around == <<drafts, wakeups>>
durable == <<streams, content, followups, ledger, ledgerVars>>
registry == <<admitted, boundary, measured, retired, inactive>>
bounds == <<outside, moves, faults>>
vars == <<durable, registry, around, worker, bounds>>

(***************************************************************************)
(* Events and inputs.  A ref names an event by source, surface and place.   *)
(***************************************************************************)
Sources == {"worksurface", "dsh"}
Length(s, source) == IF source = "dsh" THEN tools[s] ELSE Len(stream[s])

\* resolveExternalInput, resolveSurfaceInput: a ref stands for what is in the
\* stream or in the log of the session, and for nothing else.
Resolves(ref) == ref.seq \in 1..Length(ref.surface, ref.source)

\* matchSurfaceInput, acceptExternal: a name the registration is routed, under
\* its own contract or the built-in one, and after the history boundary.
Matches(r, ref) ==
  LET s == ref.surface IN
  /\ Resolves(ref) /\ ref.seq > boundary[r][s][ref.source]
  /\ IF ref.source = "dsh" THEN <<s, Tool>> \in Consumes[r]
     ELSE LET e == stream[s][ref.seq] IN
          e.scope = r /\ <<s, e.name>> \in Consumes[r]
Refs(source) == [source : {source}, surface : Surfaces, seq : 1..MaxInputs]
InputsFrom(r, source) ==
  {ref \in Refs(source) : ref.surface \in Bindings[r] /\ Matches(r, ref)}
Accepted(r) == {ledger[r][n] : n \in DOMAIN ledger[r]}

RunsFor(t) == {q \in Recorded : batch[q].trigger = t}
Done(r, n) == \E q \in RunsFor(<<r, n>>) : q \notin Pending

\* Mutant: an input with a batch is taken for finished, though it is not settled.
Unstarted(r) == {n \in DOMAIN ledger[r] : RunsFor(<<r, n>>) = {}}

\* inspectRegistrations: what is reported as unfinished.
Unfinished(r) == {n \in DOMAIN ledger[r] : ~Done(r, n)}

EffectsOf(r) == UNION {result.effects : result \in Results[r]}
BusinessEvent(name, r, by) == [name |-> name, scope |-> r, by |-> by]
\* Mutant: the events of a former attempt are not looked for.
EmittedNever(q, e) == FALSE
Emitted(q, e) ==
  \E n \in DOMAIN stream[e.surface] :
    stream[e.surface][n] = BusinessEvent(e.name, batch[q].trigger[1], q)
Carried(q, e) == IF e.kind = "event" THEN Emitted(q, e)
                 ELSE <<q, e.surface>> \in followups

(***************************************************************************)
(* Workers.                                                                 *)
(***************************************************************************)
Idle == [at |-> "idle", owed |-> {}, input |-> 0, seen |-> <<>>, plan |-> None,
         run |-> None, todo |-> {}]
At(r, stage) == worker[r].at = stage
Becomes(r, w) == worker' = [worker EXCEPT ![r] = w]

Starts(r, stage, n, q) ==
  [Idle EXCEPT !.at = stage, !.input = n, !.run = q, !.todo = Bindings[r]]

\* Stages whose next call is a transaction of the workspace.
InContent(r) == worker[r].at \in {"head", "record", "apply"}
Conflicted == \E i \in left : i[2] \in drafts

\* drain's catch: a batch that was recorded for the input is settled as failed
\* before the error leaves the drain.
Caught(r) ==
  LET found == RunsFor(<<r, worker[r].input>>) IN
  Becomes(r, IF found = {} THEN Idle
             ELSE [Idle EXCEPT !.at = "fail",
                               !.run = CHOOSE q \in found : TRUE])

Init ==
  /\ LedgerInit
  /\ stream = [s \in Surfaces |-> <<>>]
  /\ tools = [s \in Surfaces |-> 0]
  /\ head = [s \in Surfaces |-> 0]
  /\ applied = {} /\ left = {} /\ followups = {}
  /\ admitted = {} /\ retired = {} /\ inactive = {} /\ measured = {}
  /\ boundary = [r \in Registrations |->
                  [s \in Surfaces |-> [source \in Sources |-> 0]]]
  /\ ledger = [r \in Registrations |-> <<>>]
  /\ drafts = {}
  /\ wakeups = [r \in Registrations |-> {}]
  /\ worker = [r \in Registrations |-> Idle]
  /\ outside = 0 /\ moves = 0 /\ faults = 0

(***************************************************************************)
(* admit and retire.                                                        *)
(***************************************************************************)
Measure(r, s) ==
  /\ r \notin admitted /\ s \in Bindings[r] /\ <<r, s>> \notin measured
  /\ boundary' = [boundary EXCEPT ![r][s] = [source \in Sources |->
                                                     Length(s, source)]]
  /\ measured' = measured \union {<<r, s>>}
  /\ UNCHANGED <<durable, admitted, retired, inactive, around, worker, bounds>>

PutRegistration(r) ==
  /\ r \notin admitted
  /\ \A s \in Bindings[r] : <<r, s>> \in measured
  /\ admitted' = admitted \union {r}
  /\ UNCHANGED <<durable, boundary, measured, retired, inactive, around, worker,
                 bounds>>

\* RegistrationStatusStore.retire: created once, and read if it is there.
RecordRetirement(r) ==
  /\ r \notin retired
  /\ retired' = retired \union {r}
  /\ UNCHANGED inactive

Deactivate(r) ==
  /\ r \in retired \ inactive
  /\ inactive' = inactive \union {r}
  /\ UNCHANGED retired

\* retire: the record first, the set in memory second.
Retire(r) ==
  /\ r \in admitted \intersect Retirable
  /\ RecordRetirement(r) \/ Deactivate(r)
  /\ UNCHANGED <<durable, admitted, boundary, measured, around, worker, bounds>>

(***************************************************************************)
(* dispatch: deliveries may come late, twice or never; recover has the       *)
(* bound streams scanned, recoverExternalInputs delivers the executions of   *)
(* the sessions again, for whoever calls runtime.recover.  The retired are   *)
(* left out before they queue.                                              *)
(***************************************************************************)
Dispatch(r, deliveries) ==
  /\ r \in admitted \ inactive
  /\ wakeups' = [wakeups EXCEPT ![r] = @ \union deliveries]
  /\ UNCHANGED <<durable, registry, drafts, worker, bounds>>

Deliver(r, source) == \E ref \in InputsFrom(r, source) : Dispatch(r, {{ref}})
Recover(r) == Dispatch(r, {{}})
RecoverExternal(r) == Dispatch(r, {{ref} : ref \in InputsFrom(r, "dsh")})

\* The worker starts on a delivery: one event, or (the empty one) all there are.
Take(r, delivery) ==
  /\ At(r, "idle") /\ delivery \in wakeups[r]
  /\ wakeups' = [wakeups EXCEPT ![r] = @ \ {delivery}]
  /\ Becomes(r, [Idle EXCEPT !.at = "append",
                             !.owed = IF delivery = {}
                                      THEN InputsFrom(r, "worksurface")
                                      ELSE delivery])
  /\ UNCHANGED <<durable, registry, drafts, bounds>>

\* InputLedgerStore.append, in stream order, once per event.
AppendInput(r) ==
  /\ At(r, "append")
  /\ \E ref \in worker[r].owed :
       /\ \A other \in worker[r].owed :
            other.surface = ref.surface => other.seq >= ref.seq
       /\ ref \in Accepted(r) \/ Len(ledger[r]) < MaxInputs
       /\ ledger' = IF ref \in Accepted(r) THEN ledger
                    ELSE [ledger EXCEPT ![r] = Append(@, ref)]
       /\ Becomes(r, [worker[r] EXCEPT !.owed = @ \ {ref}])
  /\ UNCHANGED <<streams, content, followups, ledgerVars, registry, around,
                 bounds>>

\* Mutant: the latest input goes first.
Latest(open) == CHOOSE m \in open : \A k \in open : m >= k
Earliest(open) == CHOOSE m \in open : \A k \in open : m <= k
(***************************************************************************)
(* drain: the first unfinished input; a batch that is recorded is applied   *)
(* again, otherwise the code runs.                                          *)
(***************************************************************************)
Drain(r) ==
  LET open == Unfinished(r)
      n == Earliest(open)
      found == RunsFor(<<r, n>>)
  IN  /\ At(r, "drain") \/ (At(r, "append") /\ worker[r].owed = {})
      /\ Becomes(r, IF open = {} THEN Idle
                    ELSE IF found = {} THEN Starts(r, "head", n, None)
                    ELSE Starts(r, "apply", n, CHOOSE q \in found : TRUE))
      /\ UNCHANGED <<durable, registry, around, bounds>>

\* run: the head of one bound surface after the other.
ReadHead(r, s) ==
  /\ At(r, "head") /\ s \in worker[r].todo
  /\ left = {}
  /\ Becomes(r, [worker[r] EXCEPT
                   !.seen = [b \in DOMAIN @ \union {s} |->
                               IF b = s THEN head[s] ELSE @[b]],
                   !.todo = @ \ {s},
                   !.at = IF worker[r].todo = {s} THEN "code" ELSE @])
  /\ UNCHANGED <<durable, registry, around, bounds>>

\* validateOrchestrateResult and the routes: effects on bound surfaces, events
\* that the code may emit there.
Authorized(r, result) ==
  /\ result.effects \subseteq Effects(Bindings[r])
  /\ \A e \in result.effects : e.kind = "event" => <<e.surface, e.name>> \in Emits[r]

\* The code rewrites its copies of the surfaces and leaves a result.  If it ends
\* otherwise, or the result is refused, the run has failed (Throw).
Returned(r) ==
  {[trigger |-> <<r, worker[r].input>>, base |-> worker[r].seen,
    changes |-> result.changes, effects |-> result.effects] :
     result \in {x \in Results[r] : Authorized(r, x)}}

RunCode(r) ==
  /\ At(r, "code")
  /\ \E plan \in Returned(r) :
       Becomes(r, [worker[r] EXCEPT !.at = "record", !.plan = plan])
  /\ UNCHANGED <<durable, registry, around, bounds>>

Fresh == {q \in Runs : batch[q] = None}

\* recordBatch of the surface port around OperationLedgerStore.record.
Recordable(plan) ==
  \A s \in Bound[plan.trigger] :
    /\ head[s] = plan.base[s]
    /\ ~Reserved(s, None)
    /\ s \in plan.changes => s \notin drafts

RecordBatch(r) ==
  LET plan == worker[r].plan
      q == CHOOSE q \in Fresh : TRUE
  IN  /\ At(r, "record") /\ left = {} /\ Fresh # {}
      /\ \/ /\ Recordable(plan) /\ Record(q, plan)
            /\ Becomes(r, Starts(r, "apply", plan.trigger[2], q))
            /\ UNCHANGED <<streams, content, followups, ledger>>
         \/ /\ ~(Recordable(plan) /\ CanRecord(plan))
            /\ Caught(r)
            /\ UNCHANGED durable
      /\ UNCHANGED <<registry, around, bounds>>

(***************************************************************************)
(* apply: every surface, then every event, then every advance, then settle; *)
(* what a former attempt did is found again and not repeated.               *)
(***************************************************************************)
Move(i) ==
  /\ applied' = applied \union {i}
  /\ head' = [head EXCEPT ![i[2]] = IF i[2] \in batch[i[1]].changes
                                   THEN @ + 1 ELSE @]

\* Mutant: the effects are next as soon as one surface is applied.
ApplyOneSurface(r, s) ==
  LET q == worker[r].run IN
  /\ At(r, "apply") /\ left = {} /\ s \in worker[r].todo
  /\ head[s] = batch[q].base[s] /\ <<q, s>> \notin applied
  /\ Move(<<q, s>>)
  /\ Becomes(r, [worker[r] EXCEPT !.todo = {}, !.at = "emit"])
  /\ UNCHANGED <<streams, left, followups, ledger, ledgerVars, registry, around,
                 bounds>>

ApplySurface(r, s) ==
  LET q == worker[r].run
      i == <<q, s>>
      ready == /\ head[s] = batch[q].base[s]
               /\ ~Reserved(s, q)
               /\ s \in batch[q].changes => s \notin drafts
  IN  /\ At(r, "apply") /\ left = {} /\ s \in worker[r].todo
      /\ \/ /\ i \in applied \/ ready
            /\ IF i \in applied THEN UNCHANGED <<applied, head>> ELSE Move(i)
            /\ Becomes(r, [worker[r] EXCEPT
                             !.todo = @ \ {s},
                             !.at = IF worker[r].todo = {s} THEN "emit" ELSE @])
         \/ /\ i \notin applied /\ ~ready
            /\ Caught(r)
            /\ UNCHANGED <<applied, head>>
      /\ UNCHANGED <<streams, left, followups, ledger, ledgerVars, registry,
                     around, bounds>>

Owed(q) == {e \in batch[q].effects : ~Carried(q, e)}

\* events.append and surfaces.advance, both idempotent by operation key.
CarryOut(r, e) ==
  LET q == worker[r].run IN
  /\ At(r, "emit") /\ e \in Owed(q)
  /\ IF e.kind = "event"
     THEN /\ stream' = [stream EXCEPT ![e.surface] =
                           Append(@, BusinessEvent(e.name, r, q))]
          /\ UNCHANGED followups
     ELSE /\ \A f \in Owed(q) : f.kind = "advance"
          /\ followups' = followups \union {<<q, e.surface>>}
          /\ UNCHANGED stream
  /\ UNCHANGED <<tools, content, ledger, ledgerVars, registry, around, worker,
                 bounds>>

\* Mutant: the settlement does not wait for the effects.
SettleEarly(r) ==
  /\ At(r, "emit")
  /\ Settle(worker[r].run)
  /\ Becomes(r, [Idle EXCEPT !.at = "drain"])
  /\ UNCHANGED <<streams, content, followups, ledger, registry, around, bounds>>

SettleBatch(r) ==
  /\ At(r, "emit") /\ Owed(worker[r].run) = {}
  /\ Settle(worker[r].run)
  /\ Becomes(r, [Idle EXCEPT !.at = "drain"])
  /\ UNCHANGED <<streams, content, followups, ledger, registry, around, bounds>>

\* settleFailed, and the error leaves the drain.
SettleAsFailed(r) ==
  /\ At(r, "fail")
  /\ IF worker[r].run \in failed THEN UNCHANGED ledgerVars
     ELSE SettleFailed(worker[r].run)
  /\ Becomes(r, Idle)
  /\ UNCHANGED <<streams, content, followups, ledger, registry, around, bounds>>

(***************************************************************************)
(* What every transaction does first, and how it goes wrong.                *)
(***************************************************************************)
\* recoverLocked, in whoever's transaction.
FinishLeft(i) ==
  /\ i \in left /\ ~Conflicted
  /\ Move(i)
  /\ left' = left \ {i}
  /\ UNCHANGED <<streams, followups, ledger, ledgerVars, registry, around,
                 worker, bounds>>

\* A draft stands in the way of an unfinished apply, on whatever surface: the
\* worker's transaction throws before it comes to its own work.
Blocked(r) ==
  /\ InContent(r) /\ Conflicted
  /\ Caught(r)
  /\ UNCHANGED <<durable, registry, around, bounds>>

Faulty == faults < MaxFaults /\ faults' = faults + 1 /\ UNCHANGED <<outside,
                                                                    moves>>

\* An apply of run q may be left with its intent durable and no more.
LeaveIntent(q, todo) ==
  /\ left = {}
  /\ \E s \in todo \intersect batch[q].changes :
       /\ <<q, s>> \notin applied
       /\ head[s] = batch[q].base[s] /\ s \notin drafts
       /\ left' = {<<q, s>>}

\* A file operation, a lock wait, the code or an effect throws.  A batch, an
\* intent or a settlement may be durable by then all the same.
Throw(r) ==
  /\ Faulty /\ ~At(r, "idle")
  /\ \/ /\ IF worker[r].at \in {"append", "drain", "fail"}
           THEN Becomes(r, Idle) ELSE Caught(r)
        /\ \/ UNCHANGED <<left, ledgerVars>>
           \/ /\ At(r, "apply") /\ LeaveIntent(worker[r].run, worker[r].todo)
              /\ UNCHANGED ledgerVars
           \/ /\ At(r, "emit") /\ Owed(worker[r].run) = {}
              /\ Settle(worker[r].run) /\ UNCHANGED left
     \/ /\ At(r, "record") /\ left = {} /\ Fresh # {}
        /\ Recordable(worker[r].plan)
        /\ LET q == CHOOSE q \in Fresh : TRUE IN
             /\ Record(q, worker[r].plan)
             /\ Becomes(r, [Idle EXCEPT !.at = "fail", !.run = q])
        /\ UNCHANGED left
  /\ UNCHANGED <<streams, head, applied, followups, ledger, registry, around>>

\* The host dies, in the middle of at most one apply, and starts again: what it
\* had in memory is gone, and init reads the retirement records.  Start-up recovers
\* once: it delivers the executions of the sessions whose logs it can read and has
\* the streams scanned, for the registrations that are not retired.
Restart(out) ==
  /\ Faulty
  /\ worker' = [r \in Registrations |-> Idle]
  /\ \E readable \in SUBSET Surfaces :
       wakeups' = [r \in Registrations |->
                     IF r \in admitted \ out
                     THEN {{}} \union {{ref} : ref \in {x \in InputsFrom(r, "dsh") :
                                                           x.surface \in readable}}
                     ELSE {}]
  /\ measured' = {m \in measured : m[1] \in admitted}
  /\ inactive' = out
  /\ \/ UNCHANGED left
     \/ \E r \in Registrations :
          At(r, "apply") /\ LeaveIntent(worker[r].run, worker[r].todo)
  /\ UNCHANGED <<streams, head, applied, followups, ledger, ledgerVars,
                 admitted, boundary, retired, drafts>>

\* Mutant: the set in memory starts empty.
CrashForgets == Restart({})
Crash == Restart(retired)

(***************************************************************************)
(* Sessions and editors.                                                    *)
(***************************************************************************)
\* A turn emits a business event (service.emitTurn, surfaceOutput): for the one
\* active registration that admits it, or not at all.
EmitTurn(s, name) ==
  LET asking == {r \in admitted \ inactive : <<s, name>> \in Outputs[r]} IN
  /\ outside < MaxEvents /\ outside' = outside + 1
  /\ Len(stream[s]) < MaxInputs
  /\ \E r \in Registrations :
       /\ asking = {r}
       /\ stream' = [stream EXCEPT ![s] =
                        Append(@, BusinessEvent(name, r, None))]
  /\ UNCHANGED <<tools, content, followups, ledger, ledgerVars, registry,
                 around, worker, moves, faults>>

\* The session of the surface finishes a tool call.
CompleteTool(s) ==
  /\ tools[s] < MaxInputs
  /\ \E r \in Registrations : <<s, Tool>> \in Consumes[r]
  /\ outside < MaxEvents /\ outside' = outside + 1
  /\ tools' = [tools EXCEPT ![s] = @ + 1]
  /\ UNCHANGED <<stream, content, followups, ledger, ledgerVars, registry,
                 around, worker, moves, faults>>

Publication(s) ==
  /\ moves < MaxMoves /\ moves' = moves + 1
  /\ left = {}
  /\ head' = [head EXCEPT ![s] = @ + 1]
  /\ drafts' = drafts \ {s}
  /\ UNCHANGED <<streams, applied, left, followups, ledger, ledgerVars,
                 registry, wakeups, worker, outside, faults>>

\* Mutant: reservations are not looked at.
PublishAcross(s) == Publication(s)

\* A turn publishes its files: refused while a batch holds the surface.
PublishTurn(s) == ~Reserved(s, None) /\ Publication(s)

\* An editor leaves work that is neither base nor candidate, or takes it back.
Edit(s) ==
  /\ s \in Edited
  /\ moves < MaxMoves /\ moves' = moves + 1
  /\ drafts' = IF s \in drafts THEN drafts \ {s} ELSE drafts \union {s}
  /\ UNCHANGED <<durable, registry, wakeups, worker, outside, faults>>

Work(r) ==
  \/ AppendInput(r) \/ Drain(r) \/ RunCode(r) \/ RecordBatch(r)
  \/ \E s \in Bindings[r] : ReadHead(r, s) \/ ApplySurface(r, s)
  \/ \E e \in EffectsOf(r) : CarryOut(r, e)
  \/ SettleBatch(r) \/ SettleAsFailed(r) \/ Blocked(r)

Host(r) ==
  \/ \E s \in Bindings[r] : Measure(r, s)
  \/ PutRegistration(r) \/ Retire(r)
  \/ \E source \in Sources : Deliver(r, source)
  \/ Recover(r) \/ RecoverExternal(r)
  \/ \E delivery \in wakeups[r] : Take(r, delivery)

Next ==
  \/ \E r \in Registrations : Host(r) \/ Work(r) \/ Throw(r)
  \/ \E i \in left : FinishLeft(i)
  \/ \E s \in Surfaces :
       \/ \E name \in Names : EmitTurn(s, name)
       \/ CompleteTool(s) \/ PublishTurn(s) \/ Edit(s)
  \/ Crash

Spec == Init /\ [][Next]_vars

(***************************************************************************)
(* Fairness.  A started drain goes on; the queue of a registration is first *)
(* in, first out (serialize), so that no delivery is overtaken for ever; a   *)
(* worker whose next call is a transaction finishes what was left first.     *)
(* Nothing is assumed of listeners, editors, sessions, admissions or of      *)
(* whoever may call runtime.recover: what failed is tried again at the next  *)
(* start, or when somebody asks.                                            *)
(***************************************************************************)
Wanted(r) ==
  {ref \in UNION {Refs(source) : source \in Sources} : \E name \in Names :
     /\ <<ref.surface, name>> \in Consumes[r]
     /\ (name = Tool) = (ref.source = "dsh")}

FairSpec ==
  /\ Spec
  /\ \A r \in Registrations :
       /\ WF_vars(Work(r) \/ (InContent(r) /\ \E i \in left : FinishLeft(i)))
       /\ SF_vars(Take(r, {}))
       /\ \A ref \in Wanted(r) : SF_vars(Take(r, {ref}))

(***************************************************************************)
(* Properties.                                                              *)
(***************************************************************************)
Stages == {"idle", "append", "drain", "head", "code", "record", "apply", "emit",
           "fail"}
Events == UNION {Refs(source) : source \in Sources}
TouchedBy ==
  {i \in Runs \X Surfaces : i[1] \in Recorded /\ i[2] \in Touches(i[1])}

\* The types, and what every stage of a worker needs to be in memory or on disk
\* (drain, run and apply read it without looking again).
TypeOK ==
  /\ applied \subseteq TouchedBy /\ left \subseteq TouchedBy
  /\ followups \subseteq TouchedBy
  /\ settled \union failed \subseteq Recorded
  /\ \A s \in Surfaces : head[s] \in Nat /\ tools[s] \in Nat
  /\ \A r \in Registrations :
       /\ \A n \in DOMAIN ledger[r] : ledger[r][n] \in Events
       /\ worker[r].at \in Stages
       /\ worker[r].owed \subseteq Events
       /\ r \notin admitted => ledger[r] = <<>> /\ worker[r] = Idle
       /\ worker[r].at \in {"head", "code", "record", "apply", "emit"} =>
            worker[r].input \in DOMAIN ledger[r]
       /\ worker[r].at \in {"apply", "emit", "fail"} =>
            worker[r].run \in Recorded /\ batch[worker[r].run].trigger[1] = r
       /\ worker[r].at \in {"apply", "emit"} => worker[r].run \in Pending
  /\ inactive \subseteq retired /\ retired \subseteq admitted
  /\ drafts \subseteq Surfaces

\* The downstream barrier of apply: an event of a batch is in a stream, or a
\* turn was started by it, only once every surface of the batch has been applied
\* (across errors, crashes and second attempts).
ContentBeforeEffects ==
  \A q \in Recorded :
    (\E e \in batch[q].effects : Carried(q, e)) =>
      \A s \in Touches(q) : <<q, s>> \in applied

\* No effect is carried out for less or more than the recorded batch says, none
\* twice, however often apply was started for it, and none its routes refuse (in
\* a state that is well-formed: TypeOK).
EffectsOnce ==
  /\ TypeOK
  /\ \A s \in Surfaces : \A n \in DOMAIN stream[s] :
       LET e == stream[s][n] IN
       e.by # None =>
         /\ e.by \in Recorded
         /\ [kind |-> "event", surface |-> s, name |-> e.name]
              \in batch[e.by].effects
         /\ <<s, e.name>> \in Emits[e.scope]
         /\ \A m \in DOMAIN stream[s] : stream[s][m] = e => m = n

\* A settlement tells the truth: every surface applied, every effect carried out.
SettledMeansDone ==
  \A q \in settled :
    /\ \A s \in Touches(q) : <<q, s>> \in applied
    /\ \A e \in batch[q].effects : Carried(q, e)

\* While a batch is pending nobody else moves a surface it holds: its head is
\* the base, or what this batch (or its interrupted apply) made of it.
PendingHoldsHeads ==
  \A q \in Pending, s \in Surfaces :
    s \in Touches(q) =>
      head[s] = batch[q].base[s]
                + (IF <<q, s>> \in applied /\ s \in batch[q].changes
                   THEN 1 ELSE 0)

\* Nothing reaches a registration that had come to rest after it was retired:
\* not a late delivery, not a recovery, not a restart (retire and init keep
\* retiredIds, dispatch asks them).
AtRest(r) == r \in inactive /\ At(r, "idle") /\ wakeups[r] = {}
RetiredStaysQuiet == [][\A r \in Registrations : AtRest(r) => AtRest(r)']_vars

Queues == INSTANCE InputQueues WITH
  accepted <- ledger,
  finished <- [r \in Registrations |->
                 {n \in DOMAIN ledger[r] : Done(r, n)}]

\* The ledgers and the drains implement queues: an event is accepted once and
\* for good, and inputs are finished strictly in the order of acceptance.
ImplementsQueues == Queues!Spec

\* In a delivery that waits for the worker.
Delivered(r, ref) ==
  /\ Matches(r, ref)
  /\ {ref} \in wakeups[r] \/ ({} \in wakeups[r] /\ ref.source = "worksurface")

RunsOn(r, ref) == {q \in Recorded : \E n \in DOMAIN ledger[r] :
                                     ledger[r][n] = ref /\ batch[q].trigger = <<r, n>>}
Disturbances == faults + moves
\* A draft is in the way, or another registration holds one of the surfaces.
Contended(r) ==
  \/ drafts # {}
  \/ \E q \in Pending : batch[q].trigger[1] # r /\ Touches(q) \cap Bindings[r] # {}

\* An input that was delivered, by a listener, at start-up or by runtime.recover, is
\* taken into the ledger and its run is settled, whatever former attempts and crashes
\* left behind: unless an error, a crash or an edit disturbs the worker on the way, or
\* somebody else holds one of its surfaces.  (Such an input waits for another delivery;
\* if its batch was recorded by then, apply may have settled it as failed, for good.)
DeliveredInputsFinish ==
  \A r \in Registrations : \A ref \in Wanted(r), n \in 0..MaxFaults + MaxMoves :
    (/\ Delivered(r, ref) /\ RunsOn(r, ref) \cap failed = {} /\ ~At(r, "fail")
     /\ ~Contended(r) /\ Disturbances = n)
    ~> (RunsOn(r, ref) \cap settled # {} \/ Contended(r) \/ Disturbances > n)
=============================================================================
