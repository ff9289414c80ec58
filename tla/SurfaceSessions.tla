---------------------------- MODULE SurfaceSessions ----------------------------
(***************************************************************************)
(* The one DSH session of one surface: its binding and turn scopes          *)
(* (SurfaceSessionService, packages/dsh/src/session-surface.ts), admission   *)
(* and recovery after a restart (SurfaceSessionAdmission,                   *)
(* session-admission.ts), the delivery of followups (session-adapter.ts)    *)
(* and the outputs a turn emits (service.ts).                               *)
(*                                                                          *)
(* DSH itself is external and modelled from how this code uses it: a        *)
(* session is a log of which some prefix is on disk; an agent that was      *)
(* resumed sleeps, with the messages its log still holds, until a followup  *)
(* or a steer wakes it; awake it takes them in order, one or more in a      *)
(* turn; a message is not put into the inbox twice while it waits there; a  *)
(* graceful stop ends the open turn as disposed and cancels the inbox; the  *)
(* turn that a crash cut short is closed as interrupted by the resumption.  *)
(*                                                                          *)
(* Left out: revision state and authoring files (module SurfaceContent has  *)
(* them), presets, abort signals, and the outputs of the earlier version,    *)
(* which no registration routes: they ask for a capability and no grant.     *)
(***************************************************************************)
EXTENDS Integers, FiniteSets, SequencesExt

CONSTANTS
  Ids,          \* of sessions
  Followups,    \* of batches: pending until they are delivered or fail
  Brief,        \* the contracts that each followup grants
  Generic,      \* the contracts of all registrations of the surface
  Continuation, \* the notice of recovery after the n-th restart
  MaxRestarts,  \* bound: crashes and graceful stops
  Late,         \* bound: the followups that may be asked for after a restart
  EmitsUntil,   \* bound: the restarts after which no output is tried any more
  None

Notices == {Continuation[n] : n \in 1..MaxRestarts}
Messages == Followups \cup Notices

\* A contract is a name and the registration that it belongs to.
Agree(contracts) == \A c, d \in contracts : c[1] = d[1] => c = d

ASSUME SessionsAssumption ==
  /\ \A m \in Followups : Agree(Brief[m])
  /\ Agree(Generic)
  /\ Notices \cap Followups = {} /\ "recovery" \notin Followups
  /\ \A i, j \in 1..MaxRestarts : Continuation[i] = Continuation[j] => i = j
  /\ None \notin Ids
  /\ {MaxRestarts, EmitsUntil} \subseteq Nat

VARIABLES
  binding,      \* binding.json
  log, kept,    \* each session's events, and how many are on disk (-1: no session)
  briefs,       \* followup-briefs: what a message grants, written once
  delivery,     \* how far each followup is; new, asked, done and failed last
  index,        \* bindingsBySurface
  live, awake,  \* agents
  scope,        \* currentBySession: the open turn and what it may emit
  prepared,     \* lastBriefs: the generic brief
  adm,          \* the ensure that has its turn in surfaceOperations, or None
  rec,          \* recovery after the last restart
  emit,         \* the output under way, or what was recorded last
  resent,       \* history: messages recovery sent again that had run
  passed,       \* history: messages this host's recovery knew of and did not wake
  restarts

durable == <<binding, briefs, log, kept>>
agents == <<live, awake, scope>>
history == <<resent, passed>>
vars == <<durable, delivery, index, agents, prepared, adm, rec, emit, history, restarts>>

(***************************************************************************)
(* Logs.                                                                    *)
(***************************************************************************)
Queued(m) == [kind |-> "queued", m |-> m]
Took(m) == [kind |-> "message", m |-> m]
Start == [kind |-> "start"]
End(how) == [kind |-> "end", how |-> how]
Canceled == [kind |-> "canceled"]

Count(l, kind) == Cardinality({i \in DOMAIN l : l[i].kind = kind})
Turn(l) == Count(l, "start")
Open(l) == Turn(l) > Count(l, "end")
OnDisk(id) == SubSeq(log[id], 1, kept[id])

\* nextTurnState: what waits in the inbox, and everything a stop ever cancelled.
Stays(l, i, j) ==
  \A k \in i + 1..j : l[k] \notin {Queued(l[i].m), Took(l[i].m), Canceled}
Nth(places, n) == CHOOSE i \in places : Cardinality({j \in places : j <= i}) = n
InOrder(l, places) == [n \in 1..Cardinality(places) |-> l[Nth(places, n)].m]
Waiting(l) == {i \in DOMAIN l : l[i].kind = "queued" /\ Stays(l, i, Len(l))}
Cut(l) ==
  {i \in DOMAIN l : l[i].kind = "queued" /\ \E j \in i + 1..Len(l) : l[j] = Canceled /\ Stays(l, i, j - 1)}
Inbox(l) == InOrder(l, Waiting(l))
Dropped(l) == InOrder(l, Cut(l))

\* restartInterruption.
Ends(l) == SelectSeq(l, LAMBDA e : e.kind = "end")
Interrupted(l) ==
  \/ Open(l)
  \/ Ends(l) # <<>> /\ Last(Ends(l)).how # "completed"

\* messagesForTurn, turnForMessage, hasMessageReceipt.
TurnAt(l, i) == Turn(SubSeq(l, 1, i))
Takes(l, m) == {i \in DOMAIN l : l[i] = Took(m)}
MessagesForTurn(l, t) == {m \in Messages : \E i \in Takes(l, m) : TurnAt(l, i) = t}
Ran(l, m) == Takes(l, m) # {}
HasReceipt(l, m) == \E i \in DOMAIN l : l[i] \in {Queued(m), Took(m)}

(***************************************************************************)
(* Briefs and scopes.                                                       *)
(***************************************************************************)
BriefsFor(l, t) == {briefs[m] : m \in MessagesForTurn(l, t)} \ {None}

\* immutableJson: linked under its name once; the same brief again is no change,
\* and another is refused.
WriteBrief(m, grants) ==
  /\ briefs[m] \in {None, grants}
  /\ briefs' = [briefs EXCEPT ![m] = grants]

\* requireScope: the capability of a session is that of its open turn.
HasScope(id) == scope[id] # None

\* beginTurn: no message yet, so the turn starts with the generic brief.
BeginTurn(id, l) ==
  scope' = [scope EXCEPT ![id] =
    IF id = index THEN [turn |-> Turn(l), grants |-> IF prepared THEN Generic ELSE {}]
    ELSE None]

\* Mutant: the brief of the last message is taken, whatever others say.
ApplyLastBrief(id, l, m) ==
  LET current == scope[id] IN
  scope' = [scope EXCEPT ![id] =
    IF current = None \/ briefs[m] = None THEN current
    ELSE [current EXCEPT !.grants = briefs[m]]]

\* applyMessageBrief: the briefs of all the turn's messages, merged; if they
\* contradict each other the scope is gone and the call throws.
Contradicts(id, l) ==
  scope[id] # None /\ ~Agree(UNION BriefsFor(l, scope[id].turn))

ApplyMessageBrief(id, l, m) ==
  LET current == scope[id]
      specific == BriefsFor(l, current.turn)
  IN  scope' = [scope EXCEPT ![id] =
        IF current = None \/ specific = {} THEN current
        ELSE IF Contradicts(id, l) THEN None
        ELSE [current EXCEPT !.grants = UNION specific]]

EndScope(id) == scope' = [scope EXCEPT ![id] = None]

(***************************************************************************)
(* The agents of DSH.                                                       *)
(***************************************************************************)
Quiet == [at |-> "none"]
UnderWay == emit.at \in {"look", "append"}
AppendLog(id, events) == log' = [log EXCEPT ![id] = @ \o events]

StartTurn(id) ==
  /\ id \in live \cap awake /\ ~Open(log[id]) /\ Inbox(log[id]) # <<>>
  /\ AppendLog(id, <<Start>>)
  /\ BeginTurn(id, log'[id])
  /\ UNCHANGED <<binding, briefs, kept, delivery, index, live, awake, prepared, adm, rec,
                 emit, history, restarts>>

\* The adapter's listener runs before anything else does.  When the briefs
\* contradict each other it throws before it resolves the receipt.
TakeMessage(id) ==
  /\ id \in live \cap awake /\ Open(log[id]) /\ Inbox(log[id]) # <<>>
  /\ LET m == Head(Inbox(log[id])) IN
     /\ AppendLog(id, <<Took(m)>>)
     /\ ApplyMessageBrief(id, log'[id], m)
     /\ delivery' = [f \in Followups |->
                       IF f = m /\ delivery[f] = "wait" /\ ~Contradicts(id, log'[id])
                       THEN "flush" ELSE delivery[f]]
  /\ UNCHANGED <<binding, briefs, kept, index, live, awake, prepared, adm, rec, emit,
                 history, restarts>>

EndTurn(id) ==
  /\ id \in live \cap awake /\ Open(log[id])
  /\ MessagesForTurn(log[id], Turn(log[id])) # {}
  /\ AppendLog(id, <<End("completed")>>)
  /\ EndScope(id)
  /\ awake' = IF Inbox(log[id]) = <<>> THEN awake \ {id} ELSE awake
  /\ prepared' = (prepared \/ id = index)
  /\ emit' = IF UnderWay THEN emit ELSE Quiet
  /\ UNCHANGED <<binding, briefs, kept, delivery, index, live, adm, rec, history, restarts>>

\* followup and steer.
Wake(id, messages) ==
  /\ AppendLog(id, [i \in DOMAIN messages |-> Queued(messages[i])])
  /\ awake' = awake \cup {id}

(***************************************************************************)
(* Admission.  One ensure of the surface at a time.                         *)
(***************************************************************************)
Waits(client) ==
  IF client = "recovery" THEN rec.at = "ensure" ELSE delivery[client] = "ensure"

AdmAt(stage) == adm # None /\ adm.at = stage

\* A random id; any that nobody uses yet.
Unused ==
  LET fresh == {id \in Ids : id # binding /\ kept[id] = -1 /\ log[id] = <<>>}
                 \ (IF adm = None THEN {} ELSE {adm.id})
  IN  IF fresh = {} THEN {} ELSE {CHOOSE id \in fresh : TRUE}

Choose(client) ==
  /\ adm = None /\ Waits(client)
  /\ \E id \in IF index = None THEN Unused ELSE {index} :
       adm' = [client |-> client, id |-> id, at |-> "look"]
  /\ UNCHANGED <<durable, delivery, index, agents, prepared, rec, emit, history, restarts>>

Look ==
  /\ AdmAt("look")
  /\ adm' = [adm EXCEPT !.at = IF adm.id \in live THEN "flush"
                               ELSE IF kept[adm.id] >= 0 THEN "resume" ELSE "create"]
  /\ UNCHANGED <<durable, delivery, index, agents, prepared, rec, emit, history, restarts>>

\* Mutant: that the surface had no session when the admission chose is enough.
RebindAnyway(id) == id \in Ids

\* bindSession, one at a time by bindingMutation; binding.json is written once.
CanBind(id) == index \in {None, id} /\ binding \in {None, id}

Bind(id) == binding' = id /\ index' = id /\ live' = live \cup {id}

Closed(l) == IF Open(l) THEN l \o <<End("interrupted")>> ELSE l
OpenSession ==
  /\ AdmAt("resume") \/ AdmAt("create")
  /\ CanBind(adm.id)
  /\ Bind(adm.id)
  /\ log' = [log EXCEPT ![adm.id] = Closed(@)]
  /\ adm' = [adm EXCEPT !.at = "flush"]
  /\ UNCHANGED <<briefs, kept, delivery, awake, scope, prepared, rec, emit, history,
                 restarts>>

DeliveryAt(m, stage) == delivery' = [delivery EXCEPT ![m] = stage]

Flush(id) == kept' = [kept EXCEPT ![id] = Len(log[id])]
Admitted ==
  /\ AdmAt("flush")
  /\ Flush(adm.id)
  /\ adm' = None
  /\ prepared' = TRUE
  /\ IF adm.client = "recovery" THEN rec' = [rec EXCEPT !.at = "act"] /\ UNCHANGED delivery
     ELSE DeliveryAt(adm.client, "ready") /\ UNCHANGED rec
  /\ UNCHANGED <<binding, briefs, log, index, agents, emit, history, restarts>>

\* Messages that a log holds and no turn has taken.
Forgotten(l) == {m \in Messages : ~Ran(l, m) /\ HasReceipt(l, m)}

\* The session cannot be bound, or DSH, the workspace or the flush fails, before
\* or after the agent is open: the batch is settled as failed, for good, and
\* recovery drops its candidate with a warning.
Refused ==
  /\ AdmAt("resume") \/ AdmAt("create") \/ AdmAt("flush")
  /\ IF adm.client = "recovery"
     THEN /\ rec' = [rec EXCEPT !.at = "over"]
          /\ passed' = passed \cup Forgotten(log[index])
          /\ UNCHANGED delivery
     ELSE DeliveryAt(adm.client, "failed") /\ UNCHANGED <<rec, passed>>
  /\ adm' = None
  /\ UNCHANGED <<durable, index, agents, prepared, emit, resent, restarts>>

\* A creator of its own binds a session of its own (WorkSurfaceService.bindSession).
NativeBind(id) ==
  /\ id \in Unused /\ index = None /\ binding = None
  /\ Bind(id)
  /\ UNCHANGED <<briefs, log, kept, delivery, awake, scope, prepared, adm, rec, emit,
                 history, restarts>>

(***************************************************************************)
(* Followups.                                                               *)
(***************************************************************************)
\* A batch that asks for it is recorded.
Ask(m) ==
  /\ delivery[m] = "new" /\ (restarts = 0 \/ m \in Late)
  /\ DeliveryAt(m, "asked")
  /\ UNCHANGED <<durable, index, agents, prepared, adm, rec, emit, history, restarts>>

\* advance: the brief is on disk before DSH hears of the message.
Advance(m) ==
  /\ delivery[m] = "asked"
  /\ WriteBrief(m, Brief[m])
  /\ DeliveryAt(m, IF index \in live THEN "ready" ELSE "ensure")
  /\ UNCHANGED <<binding, log, kept, index, agents, prepared, adm, rec, emit, history,
                 restarts>>

\* Mutant: whether the session has the message already is not looked at.
SendAgain(m) ==
  /\ delivery[m] = "ready"
  /\ Wake(index, <<m>>) /\ DeliveryAt(m, "wait")
  /\ UNCHANGED <<binding, briefs, kept, index, live, scope, prepared, adm, rec, emit,
                 history, restarts>>

\* deliverFollowup: a message that the session has is not sent again.
Send(m) ==
  /\ delivery[m] = "ready"
  /\ IF HasReceipt(log[index], m)
     THEN DeliveryAt(m, IF Ran(log[index], m) THEN "flush" ELSE "wait")
          /\ UNCHANGED <<log, awake>>
     ELSE Wake(index, <<m>>) /\ DeliveryAt(m, "wait")
  /\ UNCHANGED <<binding, briefs, kept, index, live, scope, prepared, adm, rec, emit,
                 history, restarts>>

\* 30 seconds without a receipt, or the flush fails.  The batch of the followup is
\* settled as failed, whether its message runs or not.
TimeOut(m) ==
  /\ delivery[m] \in {"wait", "flush"}
  /\ DeliveryAt(m, "failed")
  /\ UNCHANGED <<durable, index, agents, prepared, adm, rec, emit, history, restarts>>

FlushDelivery(m) ==
  /\ delivery[m] = "flush"
  /\ Flush(index)
  /\ DeliveryAt(m, "done")
  /\ UNCHANGED <<binding, briefs, log, index, agents, prepared, adm, rec, emit, history,
                 restarts>>

(***************************************************************************)
(* Outputs of the model.  The capability is looked at first; after the       *)
(* registrations were read, the grants of the turn that is open then; and    *)
(* then the event is appended, whatever becomes of the turn meanwhile.       *)
(***************************************************************************)
Contracts == Generic \cup UNION {Brief[m] : m \in Followups}

BeginEmit(id) ==
  /\ ~UnderWay /\ restarts <= EmitsUntil
  /\ HasScope(id) /\ MessagesForTurn(log[id], Turn(log[id])) # {}
  /\ emit' = [at |-> "look", by |-> id]
  /\ UNCHANGED <<durable, delivery, index, agents, prepared, adm, rec, history, restarts>>

\* What has passed the check, with the length of the log at that moment.
Checked(id, contract) ==
  [at |-> "append", by |-> id, contract |-> contract, upto |-> Len(log[id])]

\* Mutant: the capability that was looked at is enough.
PassAnyway(contract) ==
  /\ emit.at = "look"
  /\ emit' = IF HasScope(emit.by) THEN Checked(emit.by, contract) ELSE Quiet
  /\ UNCHANGED <<durable, delivery, index, agents, prepared, adm, rec, history, restarts>>

Authorize(contract) ==
  /\ emit.at = "look"
  /\ emit' = IF HasScope(emit.by) /\ contract \in scope[emit.by].grants
             THEN Checked(emit.by, contract) ELSE Quiet
  /\ UNCHANGED <<durable, delivery, index, agents, prepared, adm, rec, history, restarts>>

\* append: a queue, the contract, the lock of the stream and its replay; it may fail.
EndEmit ==
  /\ emit.at = "append"
  /\ emit' \in {[emit EXCEPT !.at = "said"], Quiet}
  /\ UNCHANGED <<durable, delivery, index, agents, prepared, adm, rec, history, restarts>>

(***************************************************************************)
(* recoverAfterRestart.  It waits for the redelivery of what batches had    *)
(* asked for; sessions that are live by then are not looked at.             *)
(***************************************************************************)
RecAt(stage) == rec.at = stage
Goes(stage) == rec' = [rec EXCEPT !.at = stage]
Redelivered == \A m \in rec.again : delivery[m] \in {"done", "failed"}

RecoverLook ==
  /\ RecAt("look") /\ Redelivered
  /\ IF index = None \/ index \in live \/ kept[index] = -1 THEN Goes("over") ELSE Goes("inspect")
  /\ passed' = IF index \in live THEN passed \cup Forgotten(log[index]) ELSE passed
  /\ UNCHANGED <<durable, delivery, index, agents, prepared, adm, emit, resent, restarts>>

\* Mutant: an interruption is all that is looked for.
InspectInterruption ==
  /\ RecAt("inspect")
  /\ Goes(IF Interrupted(OnDisk(index)) THEN "ensure" ELSE "over")
  /\ UNCHANGED <<durable, delivery, index, agents, prepared, adm, emit, history, restarts>>

RecoverInspect ==
  /\ RecAt("inspect")
  /\ LET l == OnDisk(index)
         messages == IF Inbox(l) # <<>> THEN Inbox(l) ELSE Dropped(l)
         send == IF Interrupted(l) THEN <<>> ELSE messages
     IN  /\ IF Interrupted(l) \/ messages # <<>>
            THEN rec' = [rec EXCEPT !.at = "ensure", !.send = send]
            ELSE Goes("over")
         /\ passed' = passed \cup {m \in ToSet(Dropped(l)) : ~Ran(l, m) /\ ~Contains(Inbox(l) \o send, m)}
  /\ UNCHANGED <<durable, delivery, index, agents, prepared, adm, emit, resent, restarts>>

\* A failed inspection is logged, and so is a failed prepareRestartBrief: nothing is
\* sent, and nothing is tried again before the next restart.
RecoverFails ==
  /\ RecAt("inspect") \/ (RecAt("act") /\ rec.send = <<>>)
  /\ Goes("over")
  /\ passed' = passed \cup Forgotten(log[index])
  /\ UNCHANGED <<durable, delivery, index, agents, prepared, adm, emit, resent, restarts>>

\* recoverCandidate, once the session is live: what was queued is sent again.
RecoverSend ==
  /\ RecAt("act") /\ rec.send # <<>>
  /\ Wake(index, rec.send)
  /\ resent' = resent \cup {m \in Messages : Contains(rec.send, m) /\ Ran(log[index], m)}
  /\ Goes("over")
  /\ UNCHANGED <<binding, briefs, kept, delivery, index, live, scope, prepared, adm, emit,
                 passed, restarts>>

\* prepareRestartBrief: the notice grants what the cut turn's messages granted;
\* if they contradict each other it throws.
Notice == Continuation[restarts]
RecoverBrief ==
  /\ RecAt("act") /\ rec.send = <<>>
  /\ LET l == log[index]
         specific == IF Interrupted(l) THEN BriefsFor(l, Turn(l)) ELSE {}
     IN  /\ Agree(UNION specific)
         /\ IF specific = {} THEN UNCHANGED briefs ELSE WriteBrief(Notice, UNION specific)
  /\ Goes("follow")
  /\ UNCHANGED <<binding, log, kept, delivery, index, agents, prepared, adm, emit, history,
                 restarts>>

RecoverFollow ==
  /\ RecAt("follow")
  /\ Wake(index, <<Notice>>)
  /\ Goes("over")
  /\ UNCHANGED <<binding, briefs, kept, delivery, index, live, scope, prepared, adm, emit,
                 history, restarts>>

(***************************************************************************)
(* The host goes and comes back: the bindings are loaded, the next turn is  *)
(* prepared, and what batches had asked for is delivered again.             *)
(***************************************************************************)
Restart ==
  /\ restarts < MaxRestarts /\ restarts' = restarts + 1
  /\ index' = binding
  /\ live' = {} /\ awake' = {} /\ scope' = [id \in Ids |-> None]
  /\ prepared' = (binding # None)
  /\ adm' = None /\ emit' = Quiet
  /\ delivery' = [m \in Followups |->
                    IF delivery[m] \in {"new", "done", "failed"} THEN delivery[m] ELSE "asked"]
  /\ rec' = [at |-> "look", send |-> <<>>, again |-> {m \in Followups : delivery'[m] = "asked"}]
  /\ passed' = {}
  /\ UNCHANGED <<binding, briefs, resent>>

\* Of what was not flushed any part may be on disk.
Crash ==
  /\ Restart
  /\ \E lost \in {0} \cup UNION {1..Len(log[id]) + 1 : id \in live} :
       LET left(id) == IF Len(log[id]) - lost > kept[id] THEN Len(log[id]) - lost ELSE kept[id]
       IN  /\ kept' = [id \in Ids |-> IF id \in live THEN left(id) ELSE kept[id]]
           /\ log' = [id \in Ids |-> SubSeq(log[id], 1, kept'[id])]

Stopped(l) ==
  LET closed == IF Open(l) THEN l \o <<End("disposed")>> ELSE l
  IN  IF Inbox(l) = <<>> THEN closed ELSE closed \o <<Canceled>>
Stop ==
  /\ Restart
  /\ log' = [id \in Ids |-> IF id \in live THEN Stopped(log[id]) ELSE log[id]]
  /\ kept' = [id \in Ids |-> IF id \in live THEN Len(log'[id]) ELSE kept[id]]

Init ==
  /\ binding = None /\ index = None
  /\ log = [id \in Ids |-> <<>>] /\ kept = [id \in Ids |-> -1]
  /\ briefs = [m \in Messages |-> None]
  /\ delivery = [m \in Followups |-> "new"]
  /\ live = {} /\ awake = {} /\ scope = [id \in Ids |-> None]
  /\ prepared = FALSE
  /\ adm = None /\ emit = Quiet
  /\ rec = [at |-> "over", send |-> <<>>, again |-> {}]
  /\ resent = {} /\ passed = {} /\ restarts = 0

AgentStep == \E id \in Ids : StartTurn(id) \/ TakeMessage(id) \/ EndTurn(id)

HostStep ==
  \/ \E client \in Followups \cup {"recovery"} : Choose(client)
  \/ Look \/ OpenSession \/ Refused \/ Admitted
  \/ \E m \in Followups :
       Advance(m) \/ Send(m) \/ TimeOut(m) \/ FlushDelivery(m)
  \/ RecoverLook \/ RecoverInspect \/ RecoverFails
  \/ RecoverSend \/ RecoverBrief \/ RecoverFollow

World ==
  \/ \E m \in Followups : Ask(m)
  \/ \E id \in Ids : NativeBind(id)
  \/ \E id \in Ids : BeginEmit(id)
  \/ \E contract \in Contracts : Authorize(contract)
  \/ EndEmit
  \/ Crash \/ Stop

Next == AgentStep \/ HostStep \/ World

Spec == Init /\ [][Next]_vars

\* Promises settle, timers fire, and an agent that is awake goes on.
FairSpec == Spec /\ WF_vars(AgentStep \/ HostStep)

-----------------------------------------------------------------------------
(***************************************************************************)
(* Properties.                                                              *)
(***************************************************************************)

\* One session progresses the surface, whoever opens it first, through crashes
\* and restarts: no other is live or has a log, and the index in memory does not
\* disagree with the file.
OneSession ==
  /\ index \in {None, binding}
  /\ \A id \in Ids : id \in live \/ log[id] # <<>> \/ kept[id] >= 0 => id = binding

\* A capability exists for the open turn only, and grants what that turn's own
\* messages agree on: all of their briefs, nothing else, and nothing at all as
\* soon as two of them contradict each other.
GrantsFollowMessages ==
  \A id \in Ids : scope[id] # None =>
    LET specific == BriefsFor(log[id], Turn(log[id])) IN
    /\ id \in live /\ Open(log[id]) /\ scope[id].turn = Turn(log[id])
    /\ Agree(UNION specific)
    /\ IF specific = {} THEN scope[id].grants \subseteq Generic
       ELSE scope[id].grants = UNION specific

\* What the model emits was granted by the messages of the turn that was open when
\* the registrations had been read: it is in what all of them agreed on then.  It may
\* be recorded after that turn has ended or its messages contradict each other.
EmitsAreGranted ==
  emit.at \in {"append", "said"} =>
    LET l == SubSeq(log[emit.by], 1, emit.upto)
        specific == BriefsFor(l, Turn(l))
    IN  /\ Open(l) /\ Agree(UNION specific)
        /\ emit.contract \in IF specific = {} THEN Generic ELSE UNION specific

\* A followup runs in one turn, over retries and restarts, and one that was
\* reported as delivered has run and is on disk.  (Recovery may send again what it
\* found queued or cancelled although it has run: resent.)
RunsOnce ==
  \A m \in Followups :
    /\ \A id \in Ids : m \notin resent => Cardinality(Takes(log[id], m)) <= 1
    /\ delivery[m] = "done" => \E id \in Ids : Ran(OnDisk(id), m)

\* What was queued on disk runs in the end, over crashes and stops, cancelled or
\* not: unless the recovery after the last restart passed it by, because it failed
\* (an inspection, an admission, a notice) or left it out.
Owed ==
  {m \in Messages \ passed : \E id \in Ids : HasReceipt(OnDisk(id), m) /\ ~Ran(log[id], m)}
QueuedRuns == []<>(Owed = {})
===============================================================================
