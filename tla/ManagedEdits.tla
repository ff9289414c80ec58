------------------------------ MODULE ManagedEdits ------------------------------
(***************************************************************************)
(* FileWorkspace.edit and materialize (packages/core/src/file-workspace.ts) *)
(* as the block-to-file adapter (packages/dsh/src/block-to-file-adapter.ts) *)
(* and the revision.materialize request use them: agents propose changes of *)
(* several files on what they observed, send them once or again, and are    *)
(* told what became of them, while editors that know nothing of the lock    *)
(* save files and the host dies.                                            *)
(*                                                                         *)
(* A version is the content it is the digest of, and a revision the whole   *)
(* directory.  The writer lock is RuntimeLock: here a transaction holds it. *)
(* Recovery and projection are those of SurfaceContent, whose replacements  *)
(* never meet an operation id twice.  Steps that others can only delay are  *)
(* merged: a check of the whole directory is one step with the durable      *)
(* write that follows it, since an editor's save after the check leaves     *)
(* the same state as one after the write.                                   *)
(***************************************************************************)
EXTENDS Naturals, FiniteSets

CONSTANTS
  Files, Contents, Absent, None,
  Messages,    \* <<agent, message>>: what identifies a proposal of block-to-file
  Proposals,   \* of each message: the new contents it may propose for some files
  Import,      \* the id of a revision.materialize request
  Imported,    \* the files of its revision, under a prefix of their own
  Initial,     \* the directory at first
  MaxSaves, MaxFaults   \* bounds

Revisions == [Files -> Contents]
Callers == Messages \union {Import}

ASSUME EditAssumption ==
  /\ Absent \in Contents /\ Initial \in Revisions
  /\ DOMAIN Imported \subseteq Files
  /\ \A f \in DOMAIN Imported : Imported[f] \in Contents
  /\ \A m \in Messages : \A changes \in Proposals[m] :
       DOMAIN changes \subseteq Files /\ \A f \in DOMAIN changes : changes[f] \in Contents
  /\ Import \notin Messages /\ None \notin Callers
  /\ None \notin {"committed", "unchanged", "stale", "failed", "projection-failed"}

VARIABLES
  work,       \* the files of the directory
  pending,    \* durable intents that are not projected yet
  receipts,   \* durable receipts
  tx,         \* the transaction under the lock
  proposal,   \* what the agent of each message wants: file -> expected, content
  answer,     \* what it was last told
  lost,       \* history: files whose saves were written over
  saves, faults

answers == <<proposal, answer>>
vars == <<work, pending, receipts, tx, answers, lost, saves, faults>>

-----------------------------------------------------------------------------
\* The adapter's operation id: message ids are unique within an agent only.
OperationIdOfMessage(caller) == IF caller = Import THEN caller ELSE caller[2]
OperationId(caller) == caller

Known(records, id) == {i \in records : i.id = id}
Delta(i) == {f \in Files : i.before[f] # i.after[f]}
OldOrNew(i, f) == work[f] \in {i.before[f], i.after[f]}
Preflight(i) == \A f \in Files : OldOrNew(i, f)

At(stage) == tx # None /\ tx.at = stage
GoTo(stage) == tx' = [tx EXCEPT !.at = stage]

\* The transaction ends, and its caller is told how.
End(told) ==
  /\ tx' = None
  /\ answer' = IF tx.caller \in Messages THEN [answer EXCEPT ![tx.caller] = told] ELSE answer

\* commit of the adapter: an error of a projection says that the edit was
\* accepted, any other that it was not.
Projecting == tx.at \in {"preflight", "project", "rename", "drop"}
Fail == End(IF Projecting THEN "projection-failed" ELSE "failed")

-----------------------------------------------------------------------------
(***************************************************************************)
(* Calls.                                                                   *)
(***************************************************************************)

\* captureSnapshot or head, and readFile: the agent sees a directory, also one
\* in the middle of a projection (observe does not recover), and proposes.
Observe(m) ==
  /\ tx = None /\ proposal[m] = None
  /\ \E changes \in Proposals[m] :
       proposal' = [proposal EXCEPT ![m] =
         [f \in DOMAIN changes |-> [expected |-> work[f], content |-> changes[f]]]]
  /\ UNCHANGED <<work, pending, receipts, tx, answer, lost, saves, faults>>

\* commit, materialize: for the first time, or again.
Call(caller) ==
  /\ tx = None
  /\ caller \in Messages => proposal[caller] # None
  /\ tx' = [caller |-> caller, at |-> "recover", recovering |-> TRUE,
            item |-> None, todo |-> {}, file |-> None]
  /\ UNCHANGED <<work, pending, receipts, answers, lost, saves, faults>>

\* recoverLocked: everything that is pending is projected first.
Recover ==
  /\ At("recover")
  /\ IF pending = {} THEN tx' = [tx EXCEPT !.at = "body", !.recovering = FALSE]
     ELSE \E i \in pending : tx' = [tx EXCEPT !.at = "preflight", !.item = i]
  /\ UNCHANGED <<work, pending, receipts, answers, lost, saves, faults>>

-----------------------------------------------------------------------------
(***************************************************************************)
(* edit and materialize.                                                    *)
(***************************************************************************)
Overlay(changes) ==
  [f \in Files |-> IF f \in DOMAIN changes THEN changes[f].content ELSE work[f]]
Intent(changes) ==
  [id |-> OperationId(tx.caller), request |-> changes, before |-> work, after |-> Overlay(changes)]

ImportChanges == [f \in DOMAIN Imported |-> [expected |-> Absent, content |-> Imported[f]]]
ASSUME ImportAssumption == None # ImportChanges

Requested == IF tx.caller = Import THEN ImportChanges ELSE proposal[tx.caller]

\* Mutant: receipts are not looked for.
PreviousForgotten == {}
Previous == Known(receipts, OperationId(tx.caller))

\* editLocked, on one snapshot: an id that was used for other changes is
\* refused; a request that was carried out expects what it has written; the
\* versions must be those the agent has seen.
Edit ==
  LET changes == Requested
      expected(f) == IF Previous = {} THEN changes[f].expected ELSE changes[f].content
  IN  /\ At("body") /\ tx.caller \in Messages
      /\ IF \E i \in Previous : i.request # changes THEN End("failed") /\ UNCHANGED receipts
         ELSE IF \E f \in DOMAIN changes : work[f] # expected(f)
              THEN End("stale") /\ UNCHANGED receipts
         ELSE IF Previous # {} THEN End("unchanged") /\ UNCHANGED receipts
         ELSE IF Overlay(changes) = work
              THEN End("unchanged") /\ receipts' = receipts \union {Intent(changes)}
         ELSE /\ tx' = [tx EXCEPT !.at = "replace", !.item = Intent(changes)]
              /\ UNCHANGED <<answer, receipts>>
  /\ UNCHANGED <<work, pending, proposal, lost, saves, faults>>

\* materializeLocked: once, into a prefix without files.
Materialize ==
  /\ At("body") /\ tx.caller = Import
  /\ IF Previous # {} \/ \E f \in DOMAIN Imported : work[f] # Absent
     THEN tx' = None
     ELSE tx' = [tx EXCEPT !.at = "replace", !.item = Intent(ImportChanges)]
  /\ UNCHANGED <<work, pending, receipts, answers, lost, saves, faults>>

\* replaceLocked: the directory is still what the candidate was made from, and
\* then the intent is durable; its creation may throw after that.
Replace ==
  /\ At("replace")
  /\ IF work \in {tx.item.before, tx.item.after}
     THEN /\ pending' = pending \union {tx.item}
          /\ \/ GoTo("preflight") /\ UNCHANGED <<answer, faults>>
             \/ faults < MaxFaults /\ faults' = faults + 1 /\ Fail
     ELSE Fail /\ UNCHANGED <<pending, faults>>
  /\ UNCHANGED <<work, receipts, proposal, lost, saves>>

-----------------------------------------------------------------------------
(***************************************************************************)
(* project.                                                                 *)
(***************************************************************************)
projectRest == <<work, pending, receipts, proposal, lost, saves, faults>>

StartProject ==
  /\ At("preflight")
  /\ IF Preflight(tx.item)
     THEN tx' = [tx EXCEPT !.at = "project", !.todo = Delta(tx.item)] /\ UNCHANGED answer
     ELSE Fail
  /\ UNCHANGED projectRest

CheckFile(f) ==
  /\ At("project") /\ f \in tx.todo
  /\ IF work[f] = tx.item.after[f]
     THEN tx' = [tx EXCEPT !.todo = @ \ {f}] /\ UNCHANGED answer
     ELSE IF work[f] = tx.item.before[f]
     THEN /\ tx' = [tx EXCEPT !.todo = @ \ {f}, !.at = "rename", !.file = f]
          /\ UNCHANGED answer
     ELSE Fail
  /\ UNCHANGED projectRest

\* What is written over is lost if it was saved after the check, or after the
\* edit had its receipt.
Overwritten(i, f) ==
  work[f] # i.after[f] /\ (i \in receipts \/ work[f] # i.before[f])

RenameFile ==
  LET i == tx.item
      f == tx.file
  IN  /\ At("rename")
      /\ work' = [work EXCEPT ![f] = i.after[f]]
      /\ lost' = IF Overwritten(i, f) THEN lost \union {f} ELSE lost
      /\ tx' = [tx EXCEPT !.at = "project", !.file = None]
      /\ UNCHANGED <<pending, receipts, answers, saves, faults>>

\* The whole directory is the candidate, and the receipt is durable.
WriteReceipt ==
  /\ At("project") /\ tx.todo = {}
  /\ IF work = tx.item.after
     THEN receipts' = receipts \union {tx.item} /\ GoTo("drop") /\ UNCHANGED answer
     ELSE Fail /\ UNCHANGED receipts
  /\ UNCHANGED <<work, pending, proposal, lost, saves, faults>>

DropPending ==
  /\ At("drop")
  /\ pending' = pending \ {tx.item}
  /\ IF tx.recovering
     THEN tx' = [tx EXCEPT !.at = "recover", !.item = None] /\ UNCHANGED answer
     ELSE End("committed")
  /\ UNCHANGED <<work, receipts, proposal, lost, saves, faults>>

-----------------------------------------------------------------------------
\* An ordinary editor saves, creates or removes a file.
Save(f, c) ==
  /\ saves < MaxSaves /\ saves' = saves + 1
  /\ work[f] # c /\ work' = [work EXCEPT ![f] = c]
  /\ UNCHANGED <<pending, receipts, tx, answers, lost, faults>>

\* A file operation throws, or the host dies and nobody is told anything.
Fault ==
  /\ tx # None /\ faults < MaxFaults /\ faults' = faults + 1
  /\ \/ Fail
     \/ tx' = None /\ UNCHANGED answer
  /\ UNCHANGED <<work, pending, receipts, proposal, lost, saves>>

Init ==
  /\ work = Initial /\ pending = {} /\ receipts = {} /\ tx = None
  /\ proposal = [m \in Messages |-> None] /\ answer = [m \in Messages |-> None]
  /\ lost = {} /\ saves = 0 /\ faults = 0

Next ==
  \/ \E m \in Messages : Observe(m)
  \/ \E caller \in Callers : Call(caller)
  \/ Recover \/ Edit \/ Materialize \/ Replace
  \/ StartProject \/ (\E f \in Files : CheckFile(f))
  \/ RenameFile \/ WriteReceipt \/ DropPending
  \/ \E f \in Files, c \in Contents : Save(f, c)
  \/ Fault

Spec == Init /\ [][Next]_vars
-----------------------------------------------------------------------------
(***************************************************************************)
(* Properties.                                                              *)
(***************************************************************************)

\* What an agent is told is so, whatever was interrupted, repeated or saved, and
\* whatever message ids other agents use: success means that a durable receipt
\* holds its own changes; it hears of stale files only if somebody else has
\* written, and of a failure only if something has failed or was in the way.
AnswersAreTrue ==
  \A m \in Messages :
    LET own == Known(receipts, OperationId(m)) IN
    /\ answer[m] \in {"committed", "unchanged"} => \E i \in own : i.request = proposal[m]
    /\ answer[m] = "stale" => saves > 0 \/ receipts # own
    /\ answer[m] \in {"failed", "projection-failed"} => saves > 0 \/ faults > 0

\* A projection failure names a candidate that was recorded and will be
\* projected: the edit it answers was accepted
\* (docs/core-and-host-boundaries.md:27).
ProjectionFailedWasAccepted ==
  \A m \in Messages : answer[m] = "projection-failed" =>
    Known(pending \union receipts, OperationId(m)) # {}

\* The directory, with the accepted edit carried out where nothing has been
\* done yet.
Settled(f) ==
  IF \E i \in pending \ receipts : f \in Delta(i) /\ work[f] = i.before[f]
  THEN (CHOOSE i \in pending : TRUE).after[f]
  ELSE work[f]

Edits == INSTANCE FileEdits
           WITH files <- [f \in Files |-> Settled(f)],
                done <- {i.id : i \in pending \union receipts},
                wanted <- [c \in Callers |-> IF c = Import THEN ImportChanges ELSE proposal[c]],
                Operations <- Callers, Unasked <- None

\* Whatever is repeated, interrupted or saved in between, edits happen once,
\* as a whole and on what was expected.
ImplementsEdits == Edits!Spec
=============================================================================
