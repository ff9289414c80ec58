---------------------------- MODULE SurfaceContent ----------------------------
(***************************************************************************)
(* SurfaceContentRuntime (packages/runtime/src/surface-content-runtime.ts)  *)
(* over FileWorkspace (packages/core/src/file-workspace.ts).                *)
(*                                                                          *)
(* The published head of a surface is the last revision fact of its event   *)
(* stream; its authoring files are an ordinary directory that anybody may   *)
(* edit.  Every operation is a transaction under the writer lock: it first  *)
(* finishes the file projections and the applies that an earlier            *)
(* transaction left, and only then does its own work.  A transaction may    *)
(* be abandoned between any two durable steps, by an error of a file        *)
(* operation or by the death of the host; what it wrote stays.              *)
(*                                                                          *)
(* Revisions are content addressed, so a revision is its content: equal     *)
(* contents are the same revision, and a head may return to an older one.   *)
(***************************************************************************)
EXTENDS OperationLedger, Naturals, Sequences

CONSTANTS
  Files,       \* the paths of a surface directory
  Contents,    \* what a file may hold ("no file" may be one of them)
  Initial,     \* the authoring files before anything is admitted
  Candidates,  \* the revisions that orchestration code may propose
  Keys,        \* publication keys (producer and operation key)
  Edited,      \* the surfaces an ordinary editor works on
  MaxSaves,    \* bound: saves of the editor, who stops in the end
  MaxFaults    \* bound: transactions abandoned half way

Revisions == [Files -> Contents]

Batches == [trigger : Triggers, base : [Surfaces -> Revisions \union {None}],
            candidate : [Surfaces -> Candidates \union Revisions \union {None}]]

ASSUME ContentAssumption ==
  /\ Initial \in [Surfaces -> Revisions]
  /\ Candidates \subseteq Revisions
  /\ Edited \subseteq Surfaces
  /\ None \notin Revisions /\ None \notin Runs /\ None \notin Keys
  /\ None \notin Batches
  /\ Runs \intersect Keys = {}
  /\ {MaxSaves, MaxFaults} \subseteq Nat

VARIABLES
  history,     \* revision facts of each surface's event stream, in order
  work,        \* the authoring files of each surface
  intents,     \* apply intents on disk
  pending,     \* file projection intents on disk (workspace/pending)
  receipts,    \* finished file projections (workspace/receipts)
  tx,          \* the transaction that holds the writer lock, or None
  saves,       \* what the editor has saved so far
  faults       \* abandoned transactions so far

bounds == <<saves, faults>>
contentVars == <<history, work, intents, pending, receipts, tx, bounds>>
vars == <<ledgerVars, contentVars>>

(***************************************************************************)
(* Heads and facts.                                                         *)
(***************************************************************************)
Kinds == {"admitted", "applied", "published"}
Facts == [kind : Kinds, id : Runs \union Keys \union {None},
          base : Revisions \union {None}, revision : Revisions]

HeadOf(facts) == IF facts = <<>> THEN None ELSE facts[Len(facts)].revision
HeadAt(s) == HeadOf(history[s])
Knows(s, id) == \E n \in DOMAIN history[s] : history[s][n].id = id

Fact(kind, id, base, revision) ==
  [kind |-> kind, id |-> id, base |-> base, revision |-> revision]
AppendFact(s, fact) == history' = [history EXCEPT ![s] = Append(@, fact)]

\* An intent names a run and one of its surfaces; base and candidate are
\* copied from the batch, which never changes.
Intents == [run : Runs, surface : Surfaces]
BaseOf(i) == batch[i.run].base[i.surface]
CandidateOf(i) == batch[i.run].candidate[i.surface]
Applied(i) == Knows(i.surface, i.run)
AppliedFact(i) == Fact("applied", i.run, BaseOf(i), CandidateOf(i))

\* project and preflight: a file of the surface holds its old or new content.
Delta(i) == {f \in Files : BaseOf(i)[f] # CandidateOf(i)[f]}
OldOrNew(i, f) == work[i.surface][f] \in {BaseOf(i)[f], CandidateOf(i)[f]}
Preflight(i) == \A f \in Files : OldOrNew(i, f)
\* replace and checkReplace: the whole directory is the base or the candidate.
Replaceable(i) == work[i.surface] \in {BaseOf(i), CandidateOf(i)}

(***************************************************************************)
(* Transactions.                                                            *)
(***************************************************************************)
Requests ==
  [op : {"recover"}] \union [op : {"head"}, surface : Surfaces] \union
  [op : {"record"}, run : Runs, batch : Batches] \union
  [op : {"apply"}, intent : Intents] \union
  [op : {"publish"}, key : Keys, surface : Surfaces,
   expected : Revisions \union {None}]

Callers == {"workspace", "intents", "body"}
Stages == {"start", "project", "rename", "receipt", "drop", "append",
           "unlink", "finish"}
Transactions == [request : Requests, caller : Callers, at : Stages,
                 item : Intents \union {None}, todo : SUBSET Files,
                 file : Files \union {None}]

Init ==
  /\ LedgerInit
  /\ history = [s \in Surfaces |-> <<>>]
  /\ work = Initial
  /\ intents = {} /\ pending = {} /\ receipts = {}
  /\ tx = None
  /\ saves = 0 /\ faults = 0

OnlyTx ==
  UNCHANGED <<ledgerVars, history, work, intents, pending, receipts, bounds>>

At(caller, stage) == tx # None /\ tx.caller = caller /\ tx.at = stage
AtStage(stage) == tx # None /\ tx.at = stage
Go(caller, stage) == tx' = [tx EXCEPT !.caller = caller, !.at = stage]
GoTo(stage) == tx' = [tx EXCEPT !.at = stage]
Begin(request) ==
  /\ tx = None
  /\ tx' = [request |-> request, caller |-> "workspace", at |-> "start",
            item |-> None, todo |-> {}, file |-> None]
  /\ OnlyTx

End == tx' = None

\* The operation returns, or throws, without writing anything more.
Leave == End /\ OnlyTx

(***************************************************************************)
(* Who begins a transaction, and with what in hand.  Bases and expectations *)
(* were read in earlier transactions, so they may be any head there was.    *)
(***************************************************************************)
Known(s) == {history[s][n].revision : n \in DOMAIN history[s]}

BeginRecover == Begin([op |-> "recover"])

\* head is asked for by run and, for every surface that has a stream, a recorded
\* head or a directory, by recoverHeads.
BeginHead(s) == Begin([op |-> "head", surface |-> s])

\* run: code has proposed a candidate for every bound surface.
BeginRecord(r, t) ==
  /\ batch[r] = None
  /\ \E base \in [Bound[t] -> UNION {Known(s) : s \in Bound[t]}],
        edits \in SUBSET Bound[t] :
       \E candidate \in [edits -> Candidates] :
         LET total(f, g) == [s \in Surfaces |->
                               IF s \in DOMAIN f THEN f[s]
                               ELSE IF s \in DOMAIN g THEN g[s] ELSE None]
         IN  /\ \A s \in Bound[t] : base[s] \in Known(s)
             /\ Begin([op |-> "record", run |-> r,
                       batch |-> [trigger |-> t, base |-> total(base, base),
                                  candidate |-> total(candidate, base)]])

\* drain: only the registration's worker applies its run, while it is pending.
BeginApply(i) ==
  /\ i.run \in Pending /\ i.surface \in Touches(i.run)
  /\ Begin([op |-> "apply", intent |-> i])

BeginPublish(k, s) ==
  \E expected \in Known(s) \union {None} :
    Begin([op |-> "publish", key |-> k, surface |-> s, expected |-> expected])

(***************************************************************************)
(* Recovery: first every pending projection, then every apply intent.       *)
(***************************************************************************)
Project(i, caller) ==
  /\ tx' = [tx EXCEPT !.caller = caller, !.at = "project", !.item = i,
                      !.todo = Delta(i)]
  /\ UNCHANGED <<ledgerVars, history, work, intents, receipts, bounds>>

\* Mutant: a projection that was cut short is not taken up again.
SkipProjections == At("workspace", "start") /\ Go("intents", "start") /\ OnlyTx

\* LockedFileWorkspace.recoverLocked.
RecoverWorkspace ==
  /\ At("workspace", "start")
  /\ \/ /\ pending = {}
        /\ Go("intents", "start")
        /\ OnlyTx
     \/ \E i \in pending : /\ Preflight(i)
                           /\ Project(i, "workspace") /\ UNCHANGED pending
     \/ \E i \in pending : ~Preflight(i) /\ Leave

\* Mutant: apply intents are left to somebody else.
SkipIntents == At("intents", "start") /\ Go("body", "start") /\ OnlyTx

\* SurfaceContentRuntime.recoverLocked.
RecoverIntents ==
  /\ At("intents", "start")
  /\ tx' = IF intents = {} THEN [tx EXCEPT !.caller = "body"]
           ELSE [tx EXCEPT !.at = "finish", !.item = CHOOSE i \in intents : TRUE]
  /\ OnlyTx

\* finishApply and the checks of replaceLocked, up to the durable intent.
Finish ==
  LET i == tx.item
      unchanged == UNCHANGED <<ledgerVars, history, work, intents, pending,
                               receipts, bounds>>
      ready == HeadAt(i.surface) = BaseOf(i) /\ ~Reserved(i.surface, i.run)
  IN  /\ AtStage("finish")
      /\ \/ Applied(i) /\ GoTo("unlink") /\ OnlyTx
         \/ /\ ~Applied(i) /\ ready /\ i \in receipts
            /\ GoTo("append") /\ OnlyTx
         \/ /\ ~Applied(i) /\ ready /\ i \notin receipts /\ Replaceable(i)
            /\ pending' = pending \union {i}
            /\ Project(i, tx.caller)
         \/ /\ ~Applied(i)
            /\ ~ready \/ (i \notin receipts /\ ~Replaceable(i))
            /\ Leave

(***************************************************************************)
(* project: file by file, each checked again just before its rename.        *)
(***************************************************************************)
CheckFile(f) ==
  LET i == tx.item IN
  /\ AtStage("project") /\ f \in tx.todo
  /\ \/ /\ work[i.surface][f] = CandidateOf(i)[f]
        /\ tx' = [tx EXCEPT !.todo = @ \ {f}]
        /\ OnlyTx
     \/ /\ work[i.surface][f] = BaseOf(i)[f]
        /\ tx' = [tx EXCEPT !.todo = @ \ {f}, !.at = "rename", !.file = f]
        /\ OnlyTx
     \/ ~OldOrNew(i, f) /\ Leave

RenameFile ==
  LET i == tx.item IN
  /\ AtStage("rename")
  /\ work' = [work EXCEPT ![i.surface][tx.file] = CandidateOf(i)[tx.file]]
  /\ tx' = [tx EXCEPT !.at = "project", !.file = None]
  /\ UNCHANGED <<ledgerVars, history, intents, pending, receipts, bounds>>

Verify ==
  LET i == tx.item IN
  /\ AtStage("project") /\ tx.todo = {}
  /\ \/ /\ work[i.surface] = CandidateOf(i)
        /\ GoTo("receipt")
        /\ OnlyTx
     \/ work[i.surface] # CandidateOf(i) /\ Leave

WriteReceipt ==
  /\ AtStage("receipt")
  /\ receipts' = receipts \union {tx.item}
  /\ GoTo("drop")
  /\ UNCHANGED <<ledgerVars, history, work, intents, pending, bounds>>

DropPending ==
  /\ AtStage("drop")
  /\ pending' = pending \ {tx.item}
  /\ IF tx.caller = "workspace"
     THEN tx' = [tx EXCEPT !.at = "start", !.item = None]
     ELSE GoTo("append")
  /\ UNCHANGED <<ledgerVars, history, work, intents, receipts, bounds>>

AppendApplied ==
  /\ AtStage("append")
  /\ AppendFact(tx.item.surface, AppliedFact(tx.item))
  /\ GoTo("unlink")
  /\ UNCHANGED <<ledgerVars, work, intents, pending, receipts, bounds>>

UnlinkIntent ==
  /\ AtStage("unlink")
  /\ intents' = intents \ {tx.item}
  /\ IF tx.caller = "intents"
     THEN tx' = [tx EXCEPT !.at = "start", !.item = None]
     ELSE End
  /\ UNCHANGED <<ledgerVars, history, work, pending, receipts, bounds>>

(***************************************************************************)
(* The operations, once everything left over is finished.                   *)
(***************************************************************************)
Requested(op) == At("body", "start") /\ tx.request.op = op

BodyRecover == Requested("recover") /\ Leave

\* head / headLocked: a surface without facts is admitted as it lies there.
Admit(s) ==
  /\ HeadAt(s) = None
  /\ AppendFact(s, Fact("admitted", None, None, work[s]))
  /\ End
  /\ UNCHANGED <<ledgerVars, work, intents, pending, receipts, bounds>>

BodyHead ==
  LET s == tx.request.surface IN
  /\ Requested("head")
  /\ Admit(s) \/ (HeadAt(s) # None /\ Leave)

\* recordBatch: bases, reservations and drafts are checked under the lock
\* that also covers the record.
Recordable(r, b) ==
  \A s \in Bound[b.trigger] :
    /\ HeadAt(s) = b.base[s]
    /\ ~Reserved(s, r)
    /\ b.candidate[s] # b.base[s] => work[s] \in {b.base[s], b.candidate[s]}

BodyRecord ==
  LET r == tx.request.run
      b == tx.request.batch
  IN  /\ Requested("record")
      /\ \/ /\ Recordable(r, b) /\ Record(r, b)
            /\ End
            /\ UNCHANGED <<history, work, intents, pending, receipts, bounds>>
         \/ ~(Recordable(r, b) /\ CanRecord(b)) /\ Leave

\* Mutant: the fact is appended and the files are never projected.
BodyApplyFactOnly ==
  LET i == tx.request.intent IN
  /\ Requested("apply")
  /\ IF Applied(i) \/ HeadAt(i.surface) # BaseOf(i) \/ Reserved(i.surface, i.run)
     THEN Leave
     ELSE /\ AppendFact(i.surface, AppliedFact(i))
          /\ End
          /\ UNCHANGED <<ledgerVars, work, intents, pending, receipts, bounds>>

BodyApply ==
  LET i == tx.request.intent
      ready == HeadAt(i.surface) = BaseOf(i) /\ ~Reserved(i.surface, i.run)
  IN  /\ Requested("apply")
      /\ \/ (Applied(i) \/ ~ready) /\ Leave
         \/ /\ ~Applied(i) /\ ready /\ CandidateOf(i) = BaseOf(i)
            /\ AppendFact(i.surface, AppliedFact(i))
            /\ End
            /\ UNCHANGED <<ledgerVars, work, intents, pending, receipts, bounds>>
         \/ /\ ~Applied(i) /\ ready /\ CandidateOf(i) # BaseOf(i)
            /\ Replaceable(i)
            /\ intents' = intents \union {i}
            /\ tx' = [tx EXCEPT !.at = "finish", !.item = i]
            /\ UNCHANGED <<ledgerVars, history, work, pending, receipts, bounds>>
         \/ /\ ~Applied(i) /\ CandidateOf(i) # BaseOf(i) /\ ~Replaceable(i)
            /\ Leave

\* Mutant: the expected head is not compared.
BodyPublishStale ==
  LET s == tx.request.surface
      k == tx.request.key
      e == tx.request.expected
  IN  /\ Requested("publish")
      /\ \/ Admit(s)
         \/ /\ HeadAt(s) # None /\ ~Reserved(s, None)
            /\ AppendFact(s, Fact("published", k, e, work[s]))
            /\ End
            /\ UNCHANGED <<ledgerVars, work, intents, pending, receipts, bounds>>

\* publish: a surface without facts is admitted first, and then the expected
\* head, read before there was one, is stale.
BodyPublish ==
  LET s == tx.request.surface
      k == tx.request.key
      e == tx.request.expected
  IN  /\ Requested("publish")
      /\ \/ Admit(s)
         \/ /\ ~Knows(s, k) /\ ~Reserved(s, None)
            /\ HeadAt(s) = e /\ e # None
            /\ AppendFact(s, Fact("published", k, e, work[s]))
            /\ End
            /\ UNCHANGED <<ledgerVars, work, intents, pending, receipts, bounds>>
         \/ /\ HeadAt(s) # None
            /\ Knows(s, k) \/ Reserved(s, None) \/ HeadAt(s) # e
            /\ Leave

(***************************************************************************)
(* What happens around the transactions.                                    *)
(***************************************************************************)
AppliesFor(r) == tx # None /\ tx.request.op = "apply" /\ tx.request.intent.run = r

\* The run's worker: all applies have returned, or one of them has thrown.
SettleRun(r) ==
  /\ r \in Pending /\ ~AppliesFor(r)
  /\ \A s \in Touches(r) : Knows(s, r)
  /\ Settle(r)
  /\ UNCHANGED contentVars

FailRun(r) ==
  /\ r \in Pending /\ ~AppliesFor(r)
  /\ SettleFailed(r)
  /\ UNCHANGED contentVars

\* An ordinary editor, which knows nothing of the lock, saves a file.
Edit(s, f, c) ==
  /\ s \in Edited /\ work[s][f] # c
  /\ saves < MaxSaves /\ saves' = saves + 1
  /\ work' = [work EXCEPT ![s][f] = c]
  /\ UNCHANGED <<ledgerVars, history, intents, pending, receipts, tx, faults>>

\* A file operation throws, the lock wait times out, or the host dies.
Abandon ==
  /\ tx # None /\ faults < MaxFaults
  /\ tx' = None /\ faults' = faults + 1
  /\ UNCHANGED <<ledgerVars, history, work, intents, pending, receipts, saves>>

Step ==
  \/ RecoverWorkspace \/ RecoverIntents \/ Finish
  \/ \E f \in Files : CheckFile(f)
  \/ RenameFile \/ Verify \/ WriteReceipt \/ DropPending
  \/ AppendApplied \/ UnlinkIntent
  \/ BodyRecover \/ BodyHead \/ BodyRecord \/ BodyApply \/ BodyPublish

BeginTransaction ==
  \/ BeginRecover
  \/ \E s \in Surfaces : BeginHead(s)
  \/ \E r \in Runs, t \in Triggers : BeginRecord(r, t)
  \/ \E i \in Intents : BeginApply(i)
  \/ \E k \in Keys, s \in Surfaces : BeginPublish(k, s)

Next ==
  \/ BeginTransaction \/ Step
  \/ \E r \in Runs : SettleRun(r) \/ FailRun(r)
  \/ \E s \in Surfaces, f \in Files, c \in Contents : Edit(s, f, c)
  \/ Abandon

Spec == Init /\ [][Next]_vars

\* A transaction that holds the lock goes on, and a free lock is taken by some
\* transaction again: at the latest by the recovery of the next startup.
FairSpec == Spec /\ WF_vars(Step) /\ WF_vars(BeginTransaction)

-----------------------------------------------------------------------------
(***************************************************************************)
(* Properties.                                                              *)
(***************************************************************************)

\* The shape of the state.
TypeOK ==
  /\ batch \in [Runs -> Batches \union {None}]
  /\ settled \subseteq Runs /\ failed \subseteq Runs
  /\ history \in [Surfaces -> Seq(Facts)]
  /\ work \in [Surfaces -> Revisions]
  /\ intents \subseteq Intents /\ pending \subseteq Intents
  /\ receipts \subseteq Intents
  /\ tx \in Transactions \union {None}
  /\ saves \in 0..MaxSaves /\ faults \in 0..MaxFaults

\* recordedHead never finds its history corrupt: what is stored has its form, a
\* surface is admitted once, first, every later fact is based on the fact before
\* it, and no operation has left two facts.
ChainIntact ==
  /\ TypeOK
  /\ \A s \in Surfaces : \A n \in DOMAIN history[s] :
       /\ history[s][n].base =
            IF n = 1 THEN None ELSE history[s][n - 1].revision
       /\ history[s][n].kind = "admitted" <=> n = 1
       /\ \A m \in DOMAIN history[s] :
            history[s][m].id = history[s][n].id => m = n

\* As long as no editor interferes, the files are the head whenever nothing is
\* left unfinished: no apply loses, repeats or half writes a candidate.
AuthoringFollowsHead ==
  \A s \in Surfaces :
    /\ s \notin Edited \/ saves = 0
    /\ history[s] # <<>> /\ \A i \in intents : i.surface # s
    => work[s] = HeadAt(s)

\* What is admitted or published is never a directory in the middle of a
\* projection.
NoHalfProjectionIsRead ==
  [][\A s \in Surfaces :
       history'[s] # history[s] /\ (\A r \in Runs : Knows(s, r)' = Knows(s, r))
         => \A i \in intents \union pending : i.surface # s]_vars

\* The pending run that holds a surface, and the revision it announced.
HolderOf(s) ==
  IF \E r \in Pending : s \in Touches(r)
  THEN LET r == CHOOSE r \in Pending : s \in Touches(r)
       IN  [run |-> r, next |-> batch[r].candidate[s]]
  ELSE None

Heads == INSTANCE SurfaceHeads
           WITH head <- [s \in Surfaces |-> HeadAt(s)],
                holder <- [s \in Surfaces |-> HolderOf(s)]

\* File by file, crash by crash, the runtime implements heads that are
\* compared and set under reservations.
ImplementsHeads == Heads!Spec

\* An editor has saved what stands in the way of an interrupted apply.
Obstructed(i) ==
  IF i \in pending THEN ~Preflight(i) ELSE i \notin receipts /\ ~Replaceable(i)

\* What an interrupted apply left is finished in the end, unless the last thing
\* an editor saved stands in its way.
IntentsFinish ==
  []<>(\A i \in intents : Obstructed(i))
=============================================================================
