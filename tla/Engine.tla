-------------------------------- MODULE Engine --------------------------------
(***************************************************************************)
(* WorkSurfaceEngine (packages/runtime/src/engine.ts) for one declarative  *)
(* registration: its stream of records, the promise chain that its jobs go *)
(* through, and the events and followup turns it causes on the surfaces it *)
(* is bound to.                                                            *)
(*                                                                         *)
(* Every job replays the records first and trusts nothing else.  A record, *)
(* an effect and the reading of one stream are steps of their own, and the *)
(* host may die between any two.  An append to a stream is idempotent by   *)
(* the event's id (FileEventStore.append); the id of a record is the hash  *)
(* of what it says.                                                        *)
(*                                                                         *)
(* Left out: interpolation of keys into payloads and texts, the sandbox of *)
(* a handler.                                                  *)
(***************************************************************************)
EXTENDS EventConditions

CONSTANTS
  Roles, Surfaces,
  Bindings,       \* the surface of each role
  Subscriptions,
  When,           \* the condition of each subscription
  Keyed,          \* the subscriptions with a key expression
  FromStart,      \* those whose history is "all"
  Outcomes,       \* what the reaction of a subscription may come to
  Handlers,       \* the subscriptions whose reaction is code
  Emits,          \* the roles that the code of each of these declares
  Names, Keys,    \* of the events from outside
  Past,           \* what had happened on each surface before
  MaxEvents,      \* bound: events from outside
  MaxSwitches,    \* bound: calls of pause, resume and retire
  MaxFaults,      \* bound: errors and crashes
  MaxQueue,       \* bound: jobs that wait when one of these calls comes
  None

Messages == {"broken", "invalid", "undeclared"}

\* A reaction fails with a message or asks for actions, in order.
Failed(message) == [message |-> message, actions |-> <<>>]
Asks(actions) == [message |-> None, actions |-> actions]
Emit(key, role, name) == [key |-> key, kind |-> "emit", role |-> role, name |-> name]
Followup(key, role) == [key |-> key, kind |-> "followup", role |-> role, name |-> None]

\* Two actions under one key: a declared reaction with such is not admitted, and
\* a handler's run fails before anything of it is recorded.
Valid(actions) ==
  \A i, j \in DOMAIN actions : actions[i].key = actions[j].key => i = j

ASSUME EngineAssumption ==
  /\ Bindings \in [Roles -> Surfaces]
  /\ \A r, q \in Roles : Bindings[r] = Bindings[q] => r = q
  /\ {Keyed, FromStart, Handlers} \subseteq SUBSET Subscriptions
  /\ Emits \in [Handlers -> (SUBSET Roles) \ {{}}]
  /\ {MaxEvents, MaxSwitches, MaxFaults, MaxQueue} \subseteq Nat
  /\ \A s \in Subscriptions : \A o \in Outcomes[s] :
       o.actions \in Seq({o.actions[i] : i \in DOMAIN o.actions})
  /\ \A s \in Subscriptions : When[s].kind \in {"all", "any"} =>
       When[s].parts \in Seq({When[s].parts[i] : i \in DOMAIN When[s].parts})
  \* What had happened, happened without this registration.
  /\ Past \in [Surfaces -> Seq([name : Names, key : Keys, by : {None}])]

\* The activations that there can be: of a key, or of an event of a role.
ActivationIds ==
  [sub : Subscriptions, key : Keys \cup {None}, event : [role : Roles, seq : Nat] \cup {None}]
ASSUME NoneAssumption == None \notin ActivationIds /\ None \notin Messages

\* validateDefinition; only code may come to something else the next time.
ValidDefinition ==
  /\ \A s \in Subscriptions : ValidCondition(When[s], Roles)
  /\ \A s \in Subscriptions \ Keyed : When[s].kind = "one"
  /\ \A s \in Subscriptions \ Handlers :
       \E o \in Outcomes[s] :
         /\ Outcomes[s] = {o} /\ o = Asks(o.actions)
         /\ o.actions # <<>> /\ Valid(o.actions)
         /\ \A i \in DOMAIN o.actions : o.actions[i].role \in Roles
ASSUME DefinitionAssumption == ValidDefinition

\* Mutant: what the code emits is not compared with what it declares.
AnyRole(s, actions) == TRUE

\* readEmits: code emits to the roles that its own reaction declares.
Declared(s, actions) == \A i \in DOMAIN actions : actions[i].role \in Emits[s]

Plans == UNION {{o.actions : o \in Outcomes[s]} : s \in Handlers}

VARIABLES
  stream,     \* events of each surface
  records,    \* the registration stream
  torn,       \* its last line was cut short
  turns,      \* followups with a receipt in the log of the session
  known,      \* the registration is among registrationIds of the service
  chain,      \* jobs that wait in serializeRegistration
  job,        \* the job under way, or NoJob
  failing,    \* history: activations that failed and were not asked for again
  repeated,   \* history: those that failed twice with the same message
  missed,     \* history: an event or an error that no reconcile follows
  outside, switches, faults   \* counted against the bounds

durable == <<stream, records, torn, turns>>
history == <<failing, repeated>>
bounds == <<outside, switches, faults>>
vars == <<durable, known, chain, job, history, missed, bounds>>

(***************************************************************************)
(* foldOrchestration: what the records say.                                *)
(***************************************************************************)
Of(kind) == {n \in DOMAIN records : records[n].kind = kind}
Registered == Of("registered") # {}
Boundary == records[CHOOSE n \in Of("registered") : TRUE].boundary

Status ==
  IF ~Registered THEN "unregistered"
  ELSE IF Of("status") = {} THEN "active"
  ELSE records[CHOOSE n \in Of("status") : \A m \in Of("status") : m <= n].status

Opened == {records[n].act : n \in Of("opened")}
Invoked(a) == {records[n].nth : n \in {m \in Of("invoked") : records[m].act = a}}
Settled == {<<records[n].act, records[n].key>> : n \in Of("settled")}
Done == {records[n].act : n \in Of("done")}

\* The recorded operations in order, and those that are not settled.
Operation(n) == [act |-> records[n].act, op |-> records[n].op]
Identity(o) == <<o.act, o.op.key>>
Recorded == {Identity(Operation(n)) : n \in Of("recorded")}
Nth(places, i) == CHOOSE n \in places : Cardinality({m \in places : m <= n}) = i
InOrder(places) == [i \in 1..Cardinality(places) |-> Nth(places, i)]
PendingPlaces == {n \in Of("recorded") : Identity(Operation(n)) \notin Settled}
Pending == [i \in DOMAIN InOrder(PendingPlaces) |-> Operation(InOrder(PendingPlaces)[i])]

\* Mutant: an activation is tried again whenever there is a reconcile.
NeverNeedsRetry(a) == FALSE

\* The last failure is newer than the last explicit "active".
FailureNeedsRetry(a) ==
  \E n \in {m \in Of("failed") : records[m].act = a} :
    \A k \in {m \in Of("status") : records[m].status = "active"} : k < n

(***************************************************************************)
(* deriveActivations, over what was read of each stream.                   *)
(***************************************************************************)
Events == [r \in Roles |-> stream[Bindings[r]]]
Eligible(s, read) ==
  [r \in Roles |-> {n \in 1..read[r] : s \in FromStart \/ n > Boundary[r]}]

\* With a key: one group for each value of it.  Without: one for each event
\* that the selector matches.
ByKey(s, key) == [sub |-> s, key |-> key, event |-> None]
ByEvent(s, ref) == [sub |-> s, key |-> None, event |-> ref]
Activations(s, read) ==
  LET view == Eligible(s, read) IN
  IF s \in Keyed
  THEN UNION {{[kind |-> "opened", act |-> ByKey(s, k), refs |-> e] :
                e \in Evidence(Events, [r \in Roles |-> {n \in view[r] : Events[r][n].key = k}],
                               When[s])} : k \in Keys}
  ELSE {[kind |-> "opened", act |-> ByEvent(s, ref), refs |-> {ref}] :
         ref \in Refs(When[s].role, Matching(Events, view, When[s].role, When[s].name))}

Derived(read) ==
  {o \in UNION {Activations(s, read) : s \in Subscriptions} : o.act \notin Opened}

(***************************************************************************)
(* Jobs, and the wakeups that queue them.                                  *)
(***************************************************************************)
Switches == {"paused", "active", "retired"}
NoOne == [r \in Roles |-> 0]
Fresh(of, at) ==
  [of |-> of, at |-> at, read |-> NoOne, unread |-> Roles, open |-> {}, left |-> <<>>,
   act |-> None, plan |-> <<>>, ops |-> <<>>, message |-> None]

\* Nothing is under way: the tail of the promise chain has settled.
NoJob == [at |-> "none"]
At(stage) == job # NoJob /\ job.at = stage
Goes(stage) == job' = [job EXCEPT !.at = stage]

\* Mutant: a wakeup is dropped while a job is under way.
WokenIfIdle(jobs) == IF known /\ job = NoJob /\ jobs = <<>> THEN Append(jobs, "reconcile") ELSE jobs

\* queueReconcile: only for registrations the service knows.  A reconcile that
\* would wait right behind another is taken to be one with it.
Woken(jobs) ==
  IF ~known \/ (jobs # <<>> /\ jobs[Len(jobs)] = "reconcile") THEN jobs
  ELSE Append(jobs, "reconcile")

\* appendRecord: a record that says the same is the same event.
Write(record) ==
  records' = IF \E n \in DOMAIN records : records[n] = record THEN records
             ELSE Append(records, record)

\* Stages that begin with the append of a record.
Writing == {"boundary", "status", "settle", "open", "invoke", "act", "fail"}

(***************************************************************************)
(* The start of a job: it replays the records, which throws when the last  *)
(* line is torn.                                                           *)
(***************************************************************************)
Takes(kind) == job = NoJob /\ chain # <<>> /\ Head(chain) = kind
Rest == chain' = Tail(chain)

Refuse ==
  /\ job = NoJob /\ chain # <<>>
  /\ torn \/ (Head(chain) # "register" /\ ~Registered)
          \/ (Head(chain) \in {"paused", "active"} /\ Status = "retired")
  /\ Rest
  /\ UNCHANGED <<durable, known, job, history, missed, bounds>>

\* register of what is registered already goes on to a reconcile.
StartRegister ==
  /\ Takes("register") /\ ~torn
  /\ IF records = <<>> THEN job' = Fresh("register", "boundary") /\ Rest
     ELSE job' = NoJob /\ chain' = Append(Tail(chain), "first")
  /\ UNCHANGED <<durable, known, history, missed, bounds>>

\* One stream after the other; an event may come between.
Read(r) == job' = [job EXCEPT !.unread = @ \ {r}, !.read[r] = Len(stream[Bindings[r]])]

ReadBoundary(r) ==
  /\ At("boundary") /\ r \in job.unread
  /\ Read(r)
  /\ UNCHANGED <<durable, known, chain, history, missed, bounds>>

WriteRegistered ==
  /\ At("boundary") /\ job.unread = {}
  /\ Write([kind |-> "registered", boundary |-> job.read])
  /\ job' = NoJob
  /\ chain' = Append(chain, "first")
  /\ UNCHANGED <<stream, torn, turns, known, history, missed, bounds>>

\* transition: the record is written only when the status changes; resume goes
\* on to a reconcile.
Resumed(kind) == IF kind = "active" THEN Append(Tail(chain), "reconcile") ELSE Tail(chain)

StartStatus(kind) ==
  /\ Takes(kind) /\ ~torn /\ Registered
  /\ Status = "retired" => kind = "retired"
  /\ IF Status = kind THEN job' = NoJob /\ chain' = Resumed(kind)
     ELSE job' = Fresh(kind, "status") /\ Rest
  /\ UNCHANGED <<durable, known, history, missed, bounds>>

WriteStatus ==
  /\ At("status")
  /\ records' = Append(records, [kind |-> "status", status |-> job.of, length |-> Len(records)])
  /\ chain' = IF job.of = "active" THEN Append(chain, "reconcile") ELSE chain
  /\ job' = NoJob
  /\ failing' = IF job.of = "active" THEN {} ELSE failing
  /\ UNCHANGED <<stream, torn, turns, known, repeated, missed, bounds>>

\* The first reconcile belongs to the registration: after it the service adds
\* the id to those it wakes.
Ended(j) ==
  /\ job' = NoJob
  /\ known' = (known \/ j.of = "first")

StartReconcile ==
  /\ job = NoJob /\ chain # <<>> /\ Head(chain) \in {"reconcile", "first"}
  /\ ~torn /\ Registered
  /\ Rest
  /\ IF Status # "active" THEN Ended(Fresh(Head(chain), "load")) /\ UNCHANGED missed
     ELSE /\ job' = [Fresh(Head(chain), IF Pending = <<>> THEN "observe" ELSE "send")
                       EXCEPT !.ops = Pending]
          /\ missed' = FALSE
          /\ UNCHANGED known
  /\ UNCHANGED <<durable, history, bounds>>

(***************************************************************************)
(* Operations: recorded, carried out, settled.  What was recorded is what  *)
(* is carried out, by recoverRecorded too; the receivers know the identity *)
(* of an operation and do not take it twice.                               *)
(***************************************************************************)
Event(o) == [name |-> o.op.name, key |-> o.act.key, by |-> Identity(o)]
Target(o) == stream[Bindings[o.op.role]]
Happened(o) ==
  IF o.op.kind = "followup" THEN Identity(o) \in turns
  ELSE \E n \in DOMAIN Target(o) : Target(o)[n].by = Identity(o)

\* An event of a surface that no later reading of this registration will see.
Overlooks(r) == ~known /\ job # NoJob /\ job.of = "first" /\ r \notin job.unread

Appended(r, event) ==
  /\ stream' = [stream EXCEPT ![Bindings[r]] = Append(@, event)]
  /\ chain' = Woken(chain)
  /\ missed' = (missed \/ Overlooks(r))

\* Mutant: the stream is not searched for the identity of the operation.
CarryOutBlindly(o) ==
  IF o.op.kind = "followup"
  THEN turns' = turns \cup {Identity(o)} /\ UNCHANGED <<stream, chain, missed>>
  ELSE Appended(o.op.role, Event(o)) /\ UNCHANGED turns
CarryOut(o) ==
  IF o.op.kind = "followup"
  THEN turns' = turns \cup {Identity(o)} /\ UNCHANGED <<stream, chain, missed>>
  ELSE /\ IF Happened(o) THEN UNCHANGED <<stream, chain, missed>>
          ELSE Appended(o.op.role, Event(o))
       /\ UNCHANGED turns

Send ==
  /\ At("send")
  /\ CarryOut(Head(job.ops))
  /\ Goes("settle")
  /\ UNCHANGED <<records, torn, known, history, bounds>>

\* Within the try of an activation, or in the recovery before all of them.
Trying == job.act # None

Settle ==
  /\ At("settle")
  /\ LET o == Head(job.ops) IN
     Write([kind |-> "settled", act |-> o.act, key |-> o.op.key])
  /\ job' = [job EXCEPT !.ops = Tail(@),
                        !.at = IF Len(job.ops) > 1 THEN "send"
                               ELSE IF Trying THEN "act" ELSE "observe"]
  /\ UNCHANGED <<stream, torn, turns, known, chain, history, missed, bounds>>

\* An error of an operation or of its settlement: inside the try it becomes a
\* failure of the activation, outside it ends the reconcile.
Err ==
  /\ At("send") \/ At("settle")
  /\ faults < MaxFaults /\ faults' = faults + 1
  /\ IF Trying
     THEN job' = [job EXCEPT !.at = "fail", !.message = "io", !.ops = <<>>] /\ UNCHANGED missed
     ELSE job' = NoJob /\ missed' = TRUE
  /\ UNCHANGED <<durable, known, chain, history, outside, switches>>

(***************************************************************************)
(* Activations.                                                            *)
(***************************************************************************)
Observe(r) ==
  /\ At("observe") /\ r \in job.unread
  /\ Read(r)
  /\ UNCHANGED <<durable, known, chain, history, missed, bounds>>

Derive ==
  /\ At("observe") /\ job.unread = {}
  /\ job' = [job EXCEPT !.open = Derived(job.read), !.at = "open"]
  /\ UNCHANGED <<durable, known, chain, history, missed, bounds>>

\* In an order that does not depend on the run: that of the hashes of their ids.
FirstOf(set) == CHOOSE o \in set : TRUE
Open ==
  /\ At("open") /\ job.open # {}
  /\ Write(FirstOf(job.open))
  /\ job' = [job EXCEPT !.open = @ \ {FirstOf(job.open)}]
  /\ UNCHANGED <<stream, torn, turns, known, chain, history, missed, bounds>>

\* The activations to try, in the order in which they were opened.
ToTry == {n \in Of("opened") : records[n].act \notin Done /\ ~FailureNeedsRetry(records[n].act)}
AllOpen ==
  /\ At("open") /\ job.open = {}
  /\ job' = [job EXCEPT !.at = "pick",
                        !.left = [i \in DOMAIN InOrder(ToTry) |-> records[InOrder(ToTry)[i]].act]]
  /\ UNCHANGED <<durable, known, chain, history, missed, bounds>>

Tries(a, stage, plan) ==
  job' = [job EXCEPT !.left = Tail(@), !.act = a, !.at = stage, !.plan = plan]

Try ==
  /\ At("pick") /\ job.left # <<>>
  /\ LET a == Head(job.left) IN
     IF a.sub \in Handlers THEN Tries(a, "invoke", <<>>)
     ELSE \E outcome \in Outcomes[a.sub] : Tries(a, "act", outcome.actions)
  /\ UNCHANGED <<durable, known, chain, history, missed, bounds>>

Finish ==
  /\ At("pick") /\ job.left = <<>>
  /\ Ended(job)
  /\ UNCHANGED <<durable, chain, history, missed, bounds>>

Invoke ==
  /\ At("invoke")
  /\ LET number == Cardinality(Invoked(job.act)) + 1 IN
     Write([kind |-> "invoked", act |-> job.act, nth |-> number])
  /\ Goes("run")
  /\ UNCHANGED <<stream, torn, turns, known, chain, history, missed, bounds>>

\* The code fails, asks for what it has not declared, or twice for one key.
Message(s, outcome) ==
  IF outcome.message # None THEN outcome.message
  ELSE IF ~Declared(s, outcome.actions) THEN "undeclared"
  ELSE IF ~Valid(outcome.actions) THEN "invalid" ELSE None

RunFails(message) ==
  /\ At("run")
  /\ \E o \in Outcomes[job.act.sub] : Message(job.act.sub, o) = message
  /\ job' = [job EXCEPT !.at = "fail", !.message = message]
  /\ UNCHANGED <<durable, known, chain, history, missed, bounds>>

RunAsks(actions) ==
  /\ At("run") /\ Asks(actions) \in Outcomes[job.act.sub]
  /\ Message(job.act.sub, Asks(actions)) = None
  /\ job' = [job EXCEPT !.at = "act", !.plan = actions]
  /\ UNCHANGED <<durable, known, chain, history, missed, bounds>>

\* managedOperation: what is settled is left, what is new is recorded.  (Its
\* third case, recorded and not settled, does not come up: see NothingLeft.)
NextAction == [act |-> job.act, op |-> Head(job.plan)]
Acts == At("act") /\ job.plan # <<>>
Advance(stage, ops) == job' = [job EXCEPT !.plan = Tail(@), !.at = stage, !.ops = ops]

ActSettled ==
  /\ Acts /\ Identity(NextAction) \in Settled
  /\ Advance("act", <<>>)
  /\ UNCHANGED <<durable, known, chain, history, missed, bounds>>

\* Mutant: what the code asks for this time is recorded next to what it asked
\* for in a run before.
ActAgain ==
  /\ Acts
  /\ Write([kind |-> "recorded", act |-> job.act, op |-> Head(job.plan)])
  /\ Advance("send", <<NextAction>>)
  /\ chain' = Woken(chain)
  /\ UNCHANGED <<stream, torn, turns, known, history, missed, bounds>>

ActNew ==
  /\ Acts /\ Identity(NextAction) \notin Recorded
  /\ Write([kind |-> "recorded", act |-> job.act, op |-> Head(job.plan)])
  /\ Advance("send", <<NextAction>>)
  /\ chain' = Woken(chain)
  /\ UNCHANGED <<stream, torn, turns, known, history, missed, bounds>>

EndTry(record) ==
  /\ Write(record)
  /\ job' = [job EXCEPT !.at = "pick", !.act = None, !.message = None]
  /\ UNCHANGED <<stream, torn, turns, known, chain, missed, bounds>>

SettleActivation ==
  /\ At("act") /\ job.plan = <<>>
  /\ EndTry([kind |-> "done", act |-> job.act])
  /\ failing' = failing \ {job.act}
  /\ UNCHANGED repeated

Fail ==
  /\ At("fail")
  /\ LET record == [kind |-> "failed", act |-> job.act, message |-> job.message] IN
     /\ EndTry(record)
     /\ repeated' = repeated \cup {a \in {job.act} : \E n \in Of("failed") : records[n] = record}
  /\ failing' = failing \cup {job.act}

(***************************************************************************)
(* The world.                                                              *)
(***************************************************************************)
\* registerDefinition looks for records before it asks the engine.
Register ==
  /\ records = <<>> /\ ~torn /\ chain = <<>> /\ job = NoJob
  /\ chain' = <<"register">>
  /\ UNCHANGED <<durable, known, job, history, missed, bounds>>
RegisterAgain ==
  /\ records # <<>> /\ ~torn
  /\ known' = TRUE
  /\ UNCHANGED <<durable, chain, job, history, missed, bounds>>

Switch(kind) ==
  /\ switches < MaxSwitches /\ switches' = switches + 1
  /\ Len(chain) < MaxQueue
  /\ chain' = Append(chain, kind)
  /\ UNCHANGED <<durable, known, job, history, missed, outside, faults>>

Happen(r, name, key) ==
  /\ outside < MaxEvents /\ outside' = outside + 1
  /\ Appended(r, [name |-> name, key |-> key, by |-> None])
  /\ UNCHANGED <<records, torn, turns, known, job, history, switches, faults>>

\* The host dies and starts again: it knows every registration with a stream,
\* and reconciles it.
Crash ==
  /\ faults < MaxFaults /\ faults' = faults + 1
  /\ torn' \in {torn} \cup (IF job # NoJob /\ job.at \in Writing THEN {TRUE} ELSE {})
  /\ known' = (records # <<>> \/ torn')
  /\ chain' = IF known' THEN <<"reconcile">> ELSE <<>>
  /\ job' = NoJob
  /\ UNCHANGED <<stream, records, turns, history, missed, outside, switches>>

Init ==
  /\ stream = Past
  /\ records = <<>> /\ torn = FALSE /\ turns = {}
  /\ known = FALSE /\ chain = <<>> /\ job = NoJob
  /\ failing = {} /\ repeated = {} /\ missed = FALSE
  /\ outside = 0 /\ switches = 0 /\ faults = 0

JobStep ==
  \/ Refuse \/ StartRegister \/ StartReconcile
  \/ \E kind \in Switches : StartStatus(kind)
  \/ \E r \in Roles : ReadBoundary(r) \/ Observe(r)
  \/ WriteRegistered \/ WriteStatus
  \/ Send \/ Settle
  \/ Derive \/ Open \/ AllOpen \/ Try \/ Finish
  \/ Invoke
  \/ \E message \in Messages : RunFails(message)
  \/ \E actions \in Plans : RunAsks(actions)
  \/ ActSettled \/ ActNew
  \/ SettleActivation \/ Fail

World ==
  \/ Register \/ RegisterAgain
  \/ \E kind \in Switches : Switch(kind)
  \/ \E r \in Roles, name \in Names, key \in Keys : Happen(r, name, key)

Next == JobStep \/ World \/ Err \/ Crash

Spec == Init /\ [][Next]_vars

\* The host runs the jobs it has queued.
FairSpec == Spec /\ WF_vars(JobStep)

(***************************************************************************)
(* Properties.                                                             *)
(***************************************************************************)
\* The records have their kinds, and the boundary lies within the streams.
TypeOK ==
  /\ \A n \in DOMAIN records : records[n].kind \in
       {"registered", "status", "opened", "invoked", "recorded", "settled", "done", "failed"}
  /\ Registered => \A r \in Roles : Boundary[r] \in 0..Len(stream[Bindings[r]])
  /\ Done \subseteq Opened
  /\ {torn, known, missed} \subseteq BOOLEAN
  /\ \A n \in DOMAIN chain : chain[n] \in Switches \cup {"register", "reconcile", "first"}

\* foldOrchestration never throws: records have their form, no second registration, no two sources for an
\* activation or two contents for an operation, nothing settled unrecorded.
\* A stream that breaks this could never be replayed again.
RecordsFold ==
  /\ TypeOK
  /\ Cardinality(Of("registered")) <= 1
  /\ records # <<>> => records[1].kind = "registered"
  /\ \A n, m \in Of("opened") : records[n].act = records[m].act => n = m
  /\ \A n, m \in Of("recorded") : Identity(Operation(n)) = Identity(Operation(m)) => n = m
  /\ \A n \in Of("settled") : \E m \in Of("recorded") :
       m < n /\ Identity(Operation(m)) = <<records[n].act, records[n].key>>

\* The reconcile has recovered what former runs of the activation had recorded
\* before it is tried again.
NothingLeft == Acts => Identity(NextAction) \notin Recorded \ Settled

\* Every operation takes effect at most once, as it was recorded; it is settled
\* only when it has; and an activation is settled only when all its recorded
\* operations are, those of former runs of its handler too.
EffectsOnce ==
  /\ \A s \in Surfaces : \A n, m \in DOMAIN stream[s] :
       stream[s][n].by # None /\ stream[s][n].by = stream[s][m].by => n = m
  /\ \A r \in Roles : \A n \in DOMAIN stream[Bindings[r]] :
       LET e == stream[Bindings[r]][n] IN
       e.by # None => \E k \in Of("recorded") :
         Event(Operation(k)) = e /\ Operation(k).op.role = r
  /\ \A k \in Of("recorded") : Identity(Operation(k)) \in Settled => Happened(Operation(k))
  /\ \A k \in Of("recorded") : records[k].act \in Done => Identity(Operation(k)) \in Settled
  /\ NothingLeft

\* The evidence an activation was opened with is that with which its condition
\* first came true, and stays so whatever comes later: when and how often it
\* was derived makes no difference.
EvidenceIsEarliest ==
  \A n \in Of("opened") :
    LET a == records[n].act
        view == Eligible(a.sub, [r \in Roles |-> Len(stream[Bindings[r]])])
        group == [r \in Roles |-> {m \in view[r] : Events[r][m].key = a.key}]
    IN  IF a.sub \in Keyed
        THEN IsEarliestEvidence(Events, group, When[a.sub], records[n].refs)
        ELSE records[n].refs = {a.event} /\ a.event.seq \in view[a.event.role]

\* A handler that failed does not run again before it is resumed explicitly,
\* crashes and repeated reconciles notwithstanding: unless it has failed twice with
\* the same message, whose record appendRecord takes for the old one.
NoUnaskedRetry ==
  [][\A a \in failing \ repeated : Invoked(a)' = Invoked(a)]_vars

\* The jobs come to an end, and then whatever satisfies a subscription of an active
\* registration has been opened and is settled or has failed, also after a crash:
\* except what the service overlooks while it does not wake the registration yet,
\* and what a reconcile leaves that an error ended, until the next one.
Due == IF ~Registered THEN {}
       ELSE {o.act : o \in UNION {Activations(s, [r \in Roles |-> Len(stream[Bindings[r]])]) :
                                    s \in Subscriptions}}
Reacts ==
  Registered ~> /\ job = NoJob /\ chain = <<>>
                /\ Status # "active" \/ torn \/ missed \/ Due \subseteq Done \cup failing

===============================================================================
