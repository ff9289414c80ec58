--------------------------- MODULE ManagedEditsProofs ---------------------------
(***************************************************************************)
(* Proofs about ManagedEdits, for any agents, proposals, files, editors and  *)
(* faults.                                                                   *)
(*                                                                         *)
(* What an agent is told is true because an id has at most one durable       *)
(* record, which says what its caller wanted, and because at most one record *)
(* is pending: whatever the lock's holder projects is either its own edit    *)
(* or, before it has looked at its own, what was left of another.  As long   *)
(* as no editor has saved (Quiet), the directory is the initial one with the *)
(* durable edits carried out, up to the files that the pending one is still  *)
(* to replace: so nothing is in the way of a projection, and an agent whose  *)
(* edit comes first finds what it has seen.                                  *)
(***************************************************************************)
EXTENDS ManagedEdits, TLAPS

Wanted(c) == IF c = Import THEN ImportChanges ELSE proposal[c]
TxFields == {"caller", "at", "recovering", "item", "todo", "file"}

\* A record is of what its caller wants, made from the whole directory.
ItemSound(i) ==
  /\ i.id \in Callers
  /\ i.request = Wanted(i.id)
  /\ i.id \in Messages => proposal[i.id] # None
  /\ i.before \in Revisions /\ i.after \in Revisions
  /\ \A f \in Files :
       i.after[f] = IF f \in DOMAIN i.request THEN i.request[f].content ELSE i.before[f]

Durable == pending \union receipts

ItemsSound ==
  /\ \A i \in Durable : ItemSound(i)
  /\ \A i, j \in Durable : i.id = j.id => i = j
  /\ \A i, j \in pending : i = j

ProposalsSound ==
  /\ DOMAIN proposal = Messages /\ DOMAIN answer = Messages
  /\ \A m \in Messages : proposal[m] # None =>
       /\ DOMAIN proposal[m] \subseteq Files
       /\ \A f \in DOMAIN proposal[m] : proposal[m][f].content \in Contents
  /\ \A m \in Messages : answer[m] # None => proposal[m] # None

\* What the holder of the lock has in hand at each stage.
TxSound ==
  tx # None =>
    /\ DOMAIN tx = TxFields /\ tx.recovering \in BOOLEAN
    /\ tx.caller \in Callers
    /\ tx.caller \in Messages => proposal[tx.caller] # None
    /\ tx.at \in {"recover", "body", "replace", "preflight", "project", "rename", "drop"}
    /\ tx.at = "recover" => tx.recovering
    /\ tx.at \in {"body", "replace"} => pending = {} /\ ~tx.recovering
    /\ tx.at = "replace" =>
         /\ ItemSound(tx.item) /\ tx.item.id = tx.caller
         /\ Known(receipts, tx.caller) = {}
         /\ \A f \in DOMAIN tx.item.request : tx.item.before[f] = tx.item.request[f].expected
    /\ tx.at \in {"preflight", "project", "rename", "drop"} =>
         /\ tx.item \in pending
         /\ ~tx.recovering => tx.item.id = tx.caller
    /\ tx.at = "rename" => tx.file \in Files
    /\ tx.at = "drop" => tx.item \in receipts

\* The directory while no editor has saved: the initial one with the durable
\* edits carried out, but for the files that the pending one still replaces.
FilesQuiet ==
  /\ Durable = {} => work = Initial
  /\ \A i \in pending, f \in Files : OldOrNew(i, f)
  /\ \A i \in receipts : Durable = {i} => work = i.after
  /\ \A m \in Messages : proposal[m] # None /\ (\A i \in Durable : i.id = m) =>
       \A f \in DOMAIN proposal[m] : proposal[m][f].expected = Initial[f]

TxQuiet ==
  /\ At("replace") => work = tx.item.before
  /\ At("project") => \A f \in Files \ tx.todo : work[f] = tx.item.after[f]
  /\ At("rename") => \A f \in Files \ (tx.todo \union {tx.file}) : work[f] = tx.item.after[f]

Quiet == saves = 0 => FilesQuiet /\ TxQuiet

WorkSound == work \in Revisions /\ saves \in Nat /\ faults \in Nat

EditInv ==
  /\ WorkSound /\ ItemsSound /\ ProposalsSound /\ TxSound /\ Quiet /\ AnswersAreTrue

-----------------------------------------------------------------------------
(***************************************************************************)
(* What a step leaves alone.                                                *)
(***************************************************************************)

\* A proposal is made once.
LEMMA ProposalsStay ==
  ProposalsSound /\ [Next]_vars =>
    \A m \in Messages : proposal[m] # None => proposal'[m] = proposal[m]
<1> SUFFICES ASSUME ProposalsSound, [Next]_vars, NEW m \in Messages, proposal[m] # None
             PROVE  proposal'[m] = proposal[m]
  OBVIOUS
<1>1. ASSUME NEW n \in Messages, Observe(n) PROVE proposal'[m] = proposal[m]
  <2>1. n # m
    BY <1>1 DEF Observe
  <2> QED
    BY <1>1, <2>1 DEF Observe, ProposalsSound
<1>2. CASE proposal' = proposal
  BY <1>2
<1>3. (\E n \in Messages : Observe(n)) \/ proposal' = proposal
  BY DEF Next, vars, answers, Call, Recover, Edit, Materialize, Replace, StartProject,
         CheckFile, projectRest, RenameFile, WriteReceipt, DropPending, Save, Fault
<1> QED
  BY <1>1, <1>2, <1>3

\* So a record that was sound stays so.
LEMMA ItemStays ==
  (\A m \in Messages : proposal[m] # None => proposal'[m] = proposal[m]) =>
    \A i : ItemSound(i) => ItemSound(i)'
<1> SUFFICES ASSUME \A m \in Messages : proposal[m] # None => proposal'[m] = proposal[m],
                    NEW i, ItemSound(i)
             PROVE  ItemSound(i)'
  OBVIOUS
<1>1. i.id = Import \/ i.id \in Messages
  BY DEF ItemSound, Callers
<1>2. Import \notin Messages
  BY EditAssumption
<1>3. Wanted(i.id)' = Wanted(i.id)
  BY <1>1, <1>2 DEF ItemSound, Wanted, ImportChanges
<1>4. i.id \in Messages => proposal'[i.id] # None
  BY DEF ItemSound
<1> QED
  BY <1>3, <1>4 DEF ItemSound

\* What a caller asks for names files of the directory, and contents.
LEMMA RequestFits ==
  ProposalsSound =>
    \A c \in Callers : (c \in Messages => proposal[c] # None) =>
      /\ DOMAIN Wanted(c) \subseteq Files
      /\ \A f \in DOMAIN Wanted(c) : Wanted(c)[f].content \in Contents
<1> SUFFICES ASSUME ProposalsSound, NEW c \in Callers, c \in Messages => proposal[c] # None
             PROVE  /\ DOMAIN Wanted(c) \subseteq Files
                    /\ \A f \in DOMAIN Wanted(c) : Wanted(c)[f].content \in Contents
  OBVIOUS
<1>1. CASE c = Import
  BY <1>1, EditAssumption DEF Wanted, ImportChanges
<1>2. CASE c \in Messages
  <2>1. c # Import
    BY <1>2, EditAssumption
  <2> QED
    BY <1>2, <2>1 DEF Wanted, ProposalsSound
<1> QED
  BY <1>1, <1>2 DEF Callers

\* A record that is made of a request is sound.
LEMMA IntentSound ==
  WorkSound /\ ProposalsSound /\ TxSound /\ tx # None =>
    /\ Requested = Wanted(tx.caller)
    /\ ItemSound(Intent(Requested))
    /\ Intent(Requested).id = tx.caller /\ Intent(Requested).request = Requested
    /\ Intent(Requested).before = work /\ Intent(Requested).after = Overlay(Requested)
<1> SUFFICES ASSUME WorkSound, ProposalsSound, TxSound, tx # None
             PROVE  /\ Requested = Wanted(tx.caller)
                    /\ ItemSound(Intent(Requested))
                    /\ Intent(Requested).id = tx.caller /\ Intent(Requested).request = Requested
                    /\ Intent(Requested).before = work
                    /\ Intent(Requested).after = Overlay(Requested)
  OBVIOUS
<1>1. Requested = Wanted(tx.caller)
  BY DEF Requested, Wanted
<1>2. /\ Intent(Requested).id = tx.caller /\ Intent(Requested).request = Requested
      /\ Intent(Requested).before = work /\ Intent(Requested).after = Overlay(Requested)
  BY DEF Intent, OperationId
<1>3. tx.caller \in Callers /\ (tx.caller \in Messages => proposal[tx.caller] # None)
  BY DEF TxSound
<1>4. \A f \in DOMAIN Requested : Requested[f].content \in Contents
  BY <1>1, <1>3, RequestFits
<1>5. work \in [Files -> Contents]
  BY DEF WorkSound, Revisions
<1>6. Overlay(Requested) \in [Files -> Contents]
  BY <1>4, <1>5 DEF Overlay
<1>7. \A f \in Files : Overlay(Requested)[f] =
        IF f \in DOMAIN Requested THEN Requested[f].content ELSE work[f]
  BY DEF Overlay
<1> QED
  BY <1>1, <1>2, <1>3, <1>5, <1>6, <1>7 DEF ItemSound, Revisions

-----------------------------------------------------------------------------
(***************************************************************************)
(* The durable records.                                                     *)
(***************************************************************************)

\* Nothing durable is given up, at most one record is pending, and what is
\* added is the first record of its caller.
DurableGrows ==
  /\ receipts \subseteq receipts'
  /\ \A i, j \in pending' : i = j
  /\ \/ Durable' = Durable
     \/ \E i : /\ Durable' = Durable \union {i}
               /\ ItemSound(i) /\ Known(Durable, i.id) = {}

LEMMA DurableStep == EditInv /\ [Next]_vars => DurableGrows
<1> SUFFICES ASSUME EditInv, [Next]_vars PROVE DurableGrows
  OBVIOUS
<1>0. \A i, j \in pending : i = j
  BY DEF EditInv, ItemsSound
<1>1. CASE pending' = pending /\ receipts' = receipts
  BY <1>0, <1>1 DEF DurableGrows, Durable
<1>2. CASE Edit
  <2>1. At("body") /\ pending' = pending
    BY <1>2 DEF Edit
  <2>2. tx # None /\ pending = {}
    BY <2>1 DEF At, EditInv, TxSound
  <2>3. PICK i : i = Intent(Requested)
    OBVIOUS
  <2>4. ItemSound(i) /\ i.id = tx.caller
    BY <2>2, <2>3, IntentSound DEF EditInv
  <2>5. \/ receipts' = receipts
        \/ receipts' = receipts \union {i} /\ Previous = {}
    BY <1>2, <2>3 DEF Edit
  <2>6. Known(Durable, i.id) = {} \/ receipts' = receipts
    BY <2>2, <2>4, <2>5 DEF Previous, Known, OperationId, Durable
  <2> QED
    BY <2>1, <2>2, <2>4, <2>5, <2>6 DEF DurableGrows, Durable
<1>3. CASE Replace
  <2>1. At("replace") /\ receipts' = receipts
    BY <1>3 DEF Replace
  <2>2. tx # None /\ pending = {}
    BY <2>1 DEF At, EditInv, TxSound
  <2>3. PICK i : i = tx.item
    OBVIOUS
  <2>4. ItemSound(i) /\ i.id = tx.caller /\ Known(receipts, i.id) = {}
    BY <2>1, <2>2, <2>3 DEF EditInv, TxSound, At
  <2>5. pending' = pending \/ pending' = pending \union {i}
    BY <1>3, <2>3 DEF Replace
  <2>6. Known(Durable, i.id) = {}
    BY <2>2, <2>4 DEF Known, Durable
  <2> QED
    BY <2>1, <2>2, <2>4, <2>5, <2>6 DEF DurableGrows, Durable
<1>4. CASE WriteReceipt
  <2>1. tx.item \in pending
    BY <1>4 DEF WriteReceipt, At, EditInv, TxSound
  <2>2. pending' = pending /\ (receipts' = receipts \/ receipts' = receipts \union {tx.item})
    BY <1>4 DEF WriteReceipt
  <2> QED
    BY <1>0, <2>1, <2>2 DEF DurableGrows, Durable
<1>5. CASE DropPending
  <2>1. tx.item \in receipts
    BY <1>5 DEF DropPending, At, EditInv, TxSound
  <2>2. receipts' = receipts /\ pending' = pending \ {tx.item}
    BY <1>5 DEF DropPending
  <2> QED
    BY <1>0, <2>1, <2>2 DEF DurableGrows, Durable
<1> QED
  BY <1>1, <1>2, <1>3, <1>4, <1>5
     DEF Next, vars, answers, Observe, Call, Recover, Materialize, StartProject, CheckFile,
         projectRest, RenameFile, Save, Fault

LEMMA ItemsStep == EditInv /\ [Next]_vars => ItemsSound'
<1> SUFFICES ASSUME EditInv, [Next]_vars PROVE ItemsSound'
  OBVIOUS
<1>1. DurableGrows
  BY DurableStep
<1>2. \A i : ItemSound(i) => ItemSound(i)'
  BY ProposalsStay, ItemStays DEF EditInv
<1>3. CASE Durable' = Durable
  BY <1>1, <1>2, <1>3 DEF EditInv, ItemsSound, DurableGrows
<1>4. ASSUME NEW i, Durable' = Durable \union {i}, ItemSound(i), Known(Durable, i.id) = {}
      PROVE  ItemsSound'
  <2>1. \A j \in Durable : j.id # i.id
    BY <1>4 DEF Known
  <2>2. \A j \in Durable' : ItemSound(j)'
    BY <1>2, <1>4 DEF EditInv, ItemsSound
  <2>3. \A j, k \in Durable' : j.id = k.id => j = k
    BY <1>4, <2>1 DEF EditInv, ItemsSound
  <2> QED
    BY <1>1, <2>2, <2>3 DEF ItemsSound, DurableGrows
<1> QED
  BY <1>1, <1>3, <1>4 DEF DurableGrows

-----------------------------------------------------------------------------
(***************************************************************************)
(* The directory, the proposals and the transaction.                        *)
(***************************************************************************)
LEMMA WorkStep == EditInv /\ [Next]_vars => WorkSound'
<1> SUFFICES ASSUME EditInv, [Next]_vars PROVE WorkSound'
  OBVIOUS
<1>0. work \in [Files -> Contents] /\ saves \in Nat /\ faults \in Nat
  BY DEF EditInv, WorkSound, Revisions
<1>1. CASE work' = work /\ saves' = saves /\ (faults' = faults \/ faults' = faults + 1)
  BY <1>0, <1>1 DEF WorkSound, Revisions
<1>2. CASE RenameFile
  <2>1. tx.item \in pending /\ tx.file \in Files
    BY <1>2 DEF RenameFile, At, EditInv, TxSound
  <2>2. tx.item.after \in [Files -> Contents]
    BY <2>1 DEF EditInv, ItemsSound, ItemSound, Durable, Revisions
  <2>3. work' = [work EXCEPT ![tx.file] = tx.item.after[tx.file]]
        /\ saves' = saves /\ faults' = faults
    BY <1>2 DEF RenameFile
  <2>4. work' \in [Files -> Contents]
    BY <1>0, <2>1, <2>2, <2>3
  <2> QED
    BY <1>0, <2>3, <2>4 DEF WorkSound, Revisions
<1>3. ASSUME NEW f \in Files, NEW c \in Contents, Save(f, c) PROVE WorkSound'
  BY <1>0, <1>3 DEF Save, WorkSound, Revisions
<1> QED
  BY <1>1, <1>2, <1>3
     DEF Next, vars, answers, Observe, Call, Recover, Edit, Materialize, Replace, StartProject,
         CheckFile, projectRest, WriteReceipt, DropPending, Fault

LEMMA ProposalsStep == EditInv /\ [Next]_vars => ProposalsSound'
<1> SUFFICES ASSUME EditInv, [Next]_vars PROVE ProposalsSound'
  OBVIOUS
<1>0. ProposalsSound /\ TxSound
  BY DEF EditInv
<1>1. ASSUME NEW m \in Messages, Observe(m) PROVE ProposalsSound'
  <2>1. PICK changes \in Proposals[m] : proposal' = [proposal EXCEPT ![m] =
          [f \in DOMAIN changes |-> [expected |-> work[f], content |-> changes[f]]]]
    BY <1>1 DEF Observe
  <2>2. DOMAIN changes \subseteq Files /\ \A f \in DOMAIN changes : changes[f] \in Contents
    BY EditAssumption
  <2>3. answer' = answer /\ proposal[m] = None
    BY <1>1 DEF Observe
  <2>4. answer[m] = None
    BY <1>0, <2>3 DEF ProposalsSound
  <2>5. /\ DOMAIN proposal'[m] = DOMAIN changes
        /\ \A f \in DOMAIN changes : proposal'[m][f].content = changes[f]
    BY <1>0, <2>1 DEF ProposalsSound
  <2>6. \A n \in Messages : n # m => proposal'[n] = proposal[n]
    BY <1>0, <2>1 DEF ProposalsSound
  <2>7. DOMAIN proposal' = Messages
    BY <1>0, <2>1 DEF ProposalsSound
  <2> QED
    BY <1>0, <2>2, <2>3, <2>4, <2>5, <2>6, <2>7 DEF ProposalsSound
<1>2. CASE UNCHANGED answers
  BY <1>0, <1>2 DEF ProposalsSound, answers
<1>3. ASSUME NEW told, tx # None, End(told), proposal' = proposal PROVE ProposalsSound'
  BY <1>0, <1>3 DEF ProposalsSound, End, TxSound
<1>4. Fail => \E told : End(told)
  BY DEF Fail
<1>5. (\E m \in Messages : Observe(m)) \/ UNCHANGED answers
      \/ (proposal' = proposal /\ tx # None /\ \E told : End(told))
  BY <1>4 DEF Next, vars, answers, Call, Recover, Edit, Materialize, Replace, StartProject,
         CheckFile, projectRest, RenameFile, WriteReceipt, DropPending, Save, Fault, At
<1> QED
  BY <1>1, <1>2, <1>3, <1>5

LEMMA TxStep == EditInv /\ [Next]_vars => TxSound'
<1> SUFFICES ASSUME EditInv, [Next]_vars, tx' # None PROVE TxSound'
  BY DEF TxSound
<1>0. TxSound /\ ItemsSound
  BY DEF EditInv
<1>1. \A i : ItemSound(i) => ItemSound(i)'
  BY ProposalsStay, ItemStays DEF EditInv
<1>2. \A m \in Messages : proposal[m] # None => proposal'[m] # None
  BY ProposalsStay DEF EditInv
<1>3. ASSUME tx' = tx, pending' = pending, receipts' = receipts PROVE TxSound'
  <2>1. \A i : Known(receipts, i)' = Known(receipts, i)
    BY <1>3 DEF Known
  <2> QED
    BY <1>0, <1>1, <1>2, <1>3, <2>1 DEF TxSound
<1>4. ASSUME NEW m \in Messages, Observe(m) PROVE TxSound'
  BY <1>3, <1>4 DEF Observe
<1>5. ASSUME NEW c \in Callers, Call(c) PROVE TxSound'
  <2>1. tx' = [caller |-> c, at |-> "recover", recovering |-> TRUE,
               item |-> None, todo |-> {}, file |-> None]
        /\ (c \in Messages => proposal[c] # None)
    BY <1>5 DEF Call
  <2> QED
    BY <1>2, <2>1 DEF TxSound, TxFields
<1>6. CASE Recover
  <2>1. /\ tx # None /\ proposal' = proposal /\ pending' = pending /\ receipts' = receipts
    BY <1>6 DEF Recover, At, answers
  <2>2. CASE pending = {}
    <3>1. tx' = [tx EXCEPT !.at = "body", !.recovering = FALSE]
      BY <1>6, <2>2 DEF Recover
    <3> QED
      BY <1>0, <2>1, <2>2, <3>1 DEF TxSound, TxFields
  <2>3. CASE pending # {}
    <3>1. PICK i \in pending : tx' = [tx EXCEPT !.at = "preflight", !.item = i]
      BY <1>6, <2>3 DEF Recover
    <3>2. tx.recovering
      BY <1>6, <2>1, <1>0 DEF Recover, At, TxSound
    <3>3. /\ DOMAIN tx' = TxFields /\ tx'.caller = tx.caller /\ tx'.at = "preflight"
          /\ tx'.item = i /\ tx'.recovering
      BY <1>0, <2>1, <3>1, <3>2 DEF TxSound, TxFields
    <3> QED
      BY <1>0, <2>1, <3>3 DEF TxSound
  <2> QED
    BY <2>2, <2>3
<1>7. CASE Edit
  <2>1. At("body") /\ UNCHANGED <<work, pending, proposal>>
    BY <1>7 DEF Edit
  <2>2. tx # None /\ pending = {} /\ ~tx.recovering
    BY <1>0, <2>1 DEF At, TxSound
  <2>3. PICK i : i = Intent(Requested)
    OBVIOUS
  <2>4. ~End("failed") /\ ~End("stale") /\ ~End("unchanged")
    BY DEF End
  <2>5. /\ ~\E f \in DOMAIN Requested : work[f] # Requested[f].expected
        /\ Previous = {} /\ receipts' = receipts
        /\ tx' = [tx EXCEPT !.at = "replace", !.item = i]
    BY <1>7, <2>3, <2>4 DEF Edit
  <2>6. /\ ItemSound(i) /\ i.id = tx.caller /\ i.request = Requested /\ i.before = work
    BY <1>0, <2>2, <2>3, IntentSound DEF EditInv
  <2>7. Known(receipts, tx.caller)' = {}
    BY <2>5 DEF Previous, Known, OperationId
  <2>8. /\ DOMAIN tx' = TxFields /\ tx'.caller = tx.caller /\ tx'.at = "replace"
        /\ tx'.item = i /\ tx'.recovering = tx.recovering
    BY <1>0, <2>2, <2>5 DEF TxSound, TxFields
  <2>9. ItemSound(i)'
    BY <1>1, <2>6
  <2>10. Known(receipts', tx'.caller) = {}
    BY <2>5, <2>8 DEF Previous, Known, OperationId
  <2>11. tx.caller \in Messages => proposal'[tx.caller] # None
    BY <1>0, <1>2, <2>2 DEF TxSound
  <2> QED
    BY <1>0, <2>1, <2>2, <2>5, <2>6, <2>8, <2>9, <2>10, <2>11 DEF TxSound, Known
<1>8. CASE Materialize
  <2>1. At("body") /\ UNCHANGED <<work, pending, receipts, proposal>> /\ tx.caller = Import
    BY <1>8 DEF Materialize, answers
  <2>2. tx # None /\ pending = {} /\ ~tx.recovering
    BY <1>0, <2>1 DEF At, TxSound
  <2>3. PICK i : i = Intent(ImportChanges)
    OBVIOUS
  <2>4. /\ ~\E f \in DOMAIN Imported : work[f] # Absent
        /\ Previous = {} /\ tx' = [tx EXCEPT !.at = "replace", !.item = i]
    BY <1>8, <2>3 DEF Materialize
  <2>5. Requested = ImportChanges
    BY <2>1 DEF Requested
  <2>6. /\ ItemSound(i) /\ i.id = tx.caller /\ i.request = Requested /\ i.before = work
    BY <1>0, <2>2, <2>3, <2>5, IntentSound DEF EditInv
  <2>7. \A f \in DOMAIN i.request : i.before[f] = i.request[f].expected
    BY <2>4, <2>5, <2>6 DEF ImportChanges
  <2>8. /\ DOMAIN tx' = TxFields /\ tx'.caller = tx.caller /\ tx'.at = "replace"
        /\ tx'.item = i /\ tx'.recovering = tx.recovering
    BY <1>0, <2>2, <2>4 DEF TxSound, TxFields
  <2>9. ItemSound(i)'
    BY <1>1, <2>6
  <2>10. Known(receipts', tx'.caller) = {}
    BY <2>1, <2>4, <2>8 DEF Previous, Known, OperationId
  <2>11. tx.caller \in Messages => proposal'[tx.caller] # None
    BY <1>0, <1>2, <2>2 DEF TxSound
  <2> QED
    BY <1>0, <2>1, <2>2, <2>6, <2>7, <2>8, <2>9, <2>10, <2>11 DEF TxSound, Known
<1>9. CASE Replace
  <2>1. At("replace") /\ UNCHANGED <<work, receipts, proposal>>
    BY <1>9 DEF Replace
  <2>2. ~Fail
    BY DEF Fail, End
  <2>3. pending' = pending \union {tx.item} /\ tx' = [tx EXCEPT !.at = "preflight"]
    BY <1>9, <2>2 DEF Replace, GoTo
  <2> QED
    BY <1>0, <2>1, <2>3 DEF At, TxSound, TxFields
<1>10. CASE StartProject
  <2>1. At("preflight") /\ UNCHANGED <<pending, receipts, proposal>>
    BY <1>10 DEF StartProject, projectRest
  <2>2. ~Fail
    BY DEF Fail, End
  <2>3. tx' = [tx EXCEPT !.at = "project", !.todo = Delta(tx.item)]
    BY <1>10, <2>2 DEF StartProject
  <2>4. /\ DOMAIN tx' = TxFields /\ tx'.caller = tx.caller /\ tx'.at = "project"
        /\ tx'.item = tx.item /\ tx'.recovering = tx.recovering
    BY <1>0, <2>1, <2>3 DEF At, TxSound, TxFields
  <2> QED
    BY <1>0, <2>1, <2>4 DEF At, TxSound
<1>11. ASSUME NEW f \in Files, CheckFile(f) PROVE TxSound'
  <2>1. At("project") /\ UNCHANGED <<pending, receipts, proposal>>
    BY <1>11 DEF CheckFile, projectRest
  <2>2. ~Fail
    BY DEF Fail, End
  <2>3. \/ tx' = [tx EXCEPT !.todo = @ \ {f}]
        \/ tx' = [tx EXCEPT !.todo = @ \ {f}, !.at = "rename", !.file = f]
    BY <1>11, <2>2 DEF CheckFile
  <2>4. /\ DOMAIN tx' = TxFields /\ tx'.caller = tx.caller
        /\ tx'.at = "project" \/ (tx'.at = "rename" /\ tx'.file = f)
        /\ tx'.item = tx.item /\ tx'.recovering = tx.recovering
    BY <1>0, <2>1, <2>3 DEF At, TxSound, TxFields
  <2> QED
    BY <1>0, <2>1, <2>4 DEF At, TxSound
<1>12. CASE RenameFile
  <2>1. At("rename") /\ UNCHANGED <<pending, receipts, proposal>>
        /\ tx' = [tx EXCEPT !.at = "project", !.file = None]
    BY <1>12 DEF RenameFile, answers
  <2> QED
    BY <1>0, <2>1 DEF At, TxSound, TxFields
<1>13. CASE WriteReceipt
  <2>1. At("project") /\ UNCHANGED <<pending, proposal>>
    BY <1>13 DEF WriteReceipt
  <2>2. ~Fail
    BY DEF Fail, End
  <2>3. receipts' = receipts \union {tx.item} /\ tx' = [tx EXCEPT !.at = "drop"]
    BY <1>13, <2>2 DEF WriteReceipt, GoTo
  <2> QED
    BY <1>0, <2>1, <2>3 DEF At, TxSound, TxFields
<1>14. CASE DropPending
  <2>1. At("drop") /\ UNCHANGED <<receipts, proposal>>
    BY <1>14 DEF DropPending
  <2>2. ~End("committed")
    BY DEF End
  <2>3. tx.recovering /\ tx' = [tx EXCEPT !.at = "recover", !.item = None]
    BY <1>14, <2>2 DEF DropPending
  <2> QED
    BY <1>0, <2>1, <2>3 DEF At, TxSound, TxFields
<1>15. ASSUME NEW f \in Files, NEW c \in Contents, Save(f, c) PROVE TxSound'
  BY <1>3, <1>15 DEF Save
<1>16. CASE Fault
  BY <1>16 DEF Fault, Fail, End
<1>17. CASE UNCHANGED vars
  BY <1>3, <1>17 DEF vars
<1> QED
  BY <1>4, <1>5, <1>6, <1>7, <1>8, <1>9, <1>10, <1>11, <1>12, <1>13, <1>14, <1>15, <1>16,
     <1>17 DEF Next

-----------------------------------------------------------------------------
(***************************************************************************)
(* While no editor saves.                                                   *)
(***************************************************************************)
LEMMA FilesQuietStep == EditInv /\ [Next]_vars /\ saves = 0 /\ saves' = 0 => FilesQuiet'
<1> SUFFICES ASSUME EditInv, [Next]_vars, saves = 0, saves' = 0 PROVE FilesQuiet'
  OBVIOUS
<1>0. FilesQuiet /\ TxQuiet /\ ItemsSound /\ TxSound /\ ProposalsSound /\ WorkSound
  BY DEF EditInv, Quiet
<1>1. DurableGrows
  BY DurableStep
<1>2. \A i \in Durable : i \in Durable'
  BY <1>1 DEF DurableGrows
<1>3. \A m \in Messages : proposal[m] # None => proposal'[m] = proposal[m]
  BY <1>0, ProposalsStay
<1> DEFINE Seen == \A m \in Messages : proposal[m] # None /\ (\A i \in Durable : i.id = m) =>
                     \A f \in DOMAIN proposal[m] : proposal[m][f].expected = Initial[f]
<1>4. ASSUME proposal' = proposal PROVE Seen'
  BY <1>0, <1>2, <1>4 DEF FilesQuiet
<1>5. CASE UNCHANGED <<work, pending, receipts, proposal>>
  BY <1>0, <1>5 DEF FilesQuiet, Durable, OldOrNew
<1>6. ASSUME NEW m \in Messages, Observe(m) PROVE FilesQuiet'
  <2>1. UNCHANGED <<work, pending, receipts>> /\ proposal[m] = None
    BY <1>6 DEF Observe
  <2>2. Durable' = Durable
    BY <2>1 DEF Durable
  <2>3. \A n \in Messages : n # m => proposal'[n] = proposal[n]
    BY <1>0, <1>6 DEF Observe, ProposalsSound
  <2>4. ASSUME \A i \in Durable : i.id = m, NEW f \in DOMAIN proposal'[m]
        PROVE  proposal'[m][f].expected = Initial[f]
    <3>1. Durable = {}
      BY <1>0, <2>1, <2>4 DEF ItemsSound, ItemSound
    <3>2. work = Initial
      BY <1>0, <3>1 DEF FilesQuiet
    <3>3. PICK changes \in Proposals[m] : proposal' = [proposal EXCEPT ![m] =
            [g \in DOMAIN changes |-> [expected |-> work[g], content |-> changes[g]]]]
      BY <1>6 DEF Observe
    <3>4. proposal'[m] = [g \in DOMAIN changes |-> [expected |-> work[g], content |-> changes[g]]]
      BY <1>0, <3>3 DEF ProposalsSound
    <3> QED
      BY <2>4, <3>2, <3>4
  <2>5. Seen'
    BY <1>0, <2>2, <2>3, <2>4 DEF FilesQuiet
  <2> QED
    BY <1>0, <2>1, <2>2, <2>5 DEF FilesQuiet, OldOrNew
<1>7. CASE Edit
  <2>1. At("body") /\ UNCHANGED <<work, pending, proposal>>
    BY <1>7 DEF Edit
  <2>2. tx # None /\ pending = {}
    BY <1>0, <2>1 DEF At, TxSound
  <2>3. PICK i : i = Intent(Requested)
    OBVIOUS
  <2>4. i.after = Overlay(Requested)
    BY <1>0, <2>2, <2>3, IntentSound
  <2>5. CASE receipts' = receipts
    BY <1>5, <2>1, <2>5
  <2>6. CASE receipts' # receipts
    <3>1. receipts' = receipts \union {i} /\ work = i.after
      BY <1>7, <2>3, <2>4, <2>6 DEF Edit
    <3>2. i \in Durable'
      BY <3>1 DEF Durable
    <3>3. \A j \in receipts' : Durable' = {j} => work' = j.after
      BY <2>1, <3>1, <3>2
    <3> QED
      BY <1>4, <2>1, <2>2, <3>2, <3>3 DEF FilesQuiet
  <2> QED
    BY <2>5, <2>6
<1>8. CASE Replace
  <2>1. At("replace") /\ UNCHANGED <<work, receipts, proposal>>
    BY <1>8 DEF Replace
  <2>2. PICK i : i = tx.item
    OBVIOUS
  <2>3. i.id = tx.caller /\ Known(receipts, i.id) = {} /\ work = i.before /\ pending = {}
    BY <1>0, <2>1, <2>2 DEF TxSound, TxQuiet, At
  <2>4. pending' = pending \/ pending' = {i}
    BY <1>8, <2>2, <2>3 DEF Replace
  <2>5. CASE pending' = pending
    BY <1>5, <2>1, <2>5
  <2>6. CASE pending' = {i}
    <3>1. i \in Durable' /\ i \notin receipts
      BY <2>3, <2>6 DEF Durable, Known
    <3>2. \A j \in pending', f \in Files : OldOrNew(j, f)'
      BY <2>1, <2>3, <2>6 DEF OldOrNew
    <3> QED
      BY <1>4, <2>1, <3>1, <3>2 DEF FilesQuiet
  <2> QED
    BY <2>4, <2>5, <2>6
<1>9. CASE RenameFile
  <2>1. At("rename") /\ UNCHANGED <<pending, receipts, proposal>>
    BY <1>9 DEF RenameFile, answers
  <2>2. PICK i : i = tx.item
    OBVIOUS
  <2>3. PICK f : f = tx.file
    OBVIOUS
  <2>4. i \in pending /\ (\A j \in pending : j = i) /\ f \in Files
    BY <1>0, <2>1, <2>2, <2>3 DEF TxSound, At, ItemsSound
  <2>5. work' = [work EXCEPT ![f] = i.after[f]] /\ work \in [Files -> Contents]
    BY <1>0, <1>9, <2>2, <2>3 DEF RenameFile, WorkSound, Revisions
  <2>6. Durable' = Durable /\ i \in Durable
    BY <2>1, <2>4 DEF Durable
  <2>7. \A j \in pending', g \in Files : OldOrNew(j, g)'
    BY <1>0, <2>1, <2>4, <2>5 DEF FilesQuiet, OldOrNew
  <2>8. ASSUME NEW j \in receipts', Durable' = {j} PROVE work' = j.after
    <3>1. j = i /\ work = j.after
      BY <1>0, <2>1, <2>6, <2>8 DEF FilesQuiet
    <3> QED
      BY <2>4, <2>5, <3>1
  <2> QED
    BY <1>4, <2>1, <2>6, <2>7, <2>8 DEF FilesQuiet
<1>10. CASE WriteReceipt
  <2>1. At("project") /\ UNCHANGED <<work, pending, proposal>>
    BY <1>10 DEF WriteReceipt
  <2>2. PICK i : i = tx.item
    OBVIOUS
  <2>3. CASE receipts' = receipts
    BY <1>5, <2>1, <2>3
  <2>4. CASE receipts' # receipts
    <3>1. receipts' = receipts \union {i} /\ work = i.after
      BY <1>10, <2>2, <2>4 DEF WriteReceipt
    <3>2. i \in Durable'
      BY <3>1 DEF Durable
    <3>3. \A j \in receipts' : Durable' = {j} => work' = j.after
      BY <2>1, <3>1, <3>2
    <3>4. \A j \in pending', f \in Files : OldOrNew(j, f)'
      BY <1>0, <2>1 DEF FilesQuiet, OldOrNew
    <3> QED
      BY <1>4, <2>1, <3>2, <3>3, <3>4 DEF FilesQuiet
  <2> QED
    BY <2>3, <2>4
<1>11. CASE DropPending
  <2>1. At("drop") /\ UNCHANGED <<work, receipts, proposal>> /\ pending' = pending \ {tx.item}
    BY <1>11 DEF DropPending
  <2>2. tx.item \in receipts
    BY <1>0, <2>1 DEF At, TxSound
  <2>3. Durable' = Durable
    BY <2>1, <2>2 DEF Durable
  <2> QED
    BY <1>0, <1>4, <2>1, <2>3 DEF FilesQuiet, OldOrNew
<1>12. ASSUME NEW f \in Files, NEW c \in Contents, Save(f, c) PROVE FALSE
  BY <1>12 DEF Save
<1> QED
  BY <1>5, <1>6, <1>7, <1>8, <1>9, <1>10, <1>11, <1>12
     DEF Next, vars, answers, Call, Recover, Materialize, StartProject, CheckFile, projectRest,
         Fault

LEMMA TxQuietStep == EditInv /\ [Next]_vars /\ saves = 0 /\ saves' = 0 => TxQuiet'
<1> SUFFICES ASSUME EditInv, [Next]_vars, saves = 0, saves' = 0, tx' # None PROVE TxQuiet'
  BY DEF TxQuiet, At
<1>0. FilesQuiet /\ TxQuiet /\ ItemsSound /\ TxSound /\ WorkSound
  BY DEF EditInv, Quiet
<1>1. CASE tx' = tx /\ work' = work
  BY <1>0, <1>1 DEF TxQuiet, At
<1>2. CASE tx'.at \in {"recover", "body", "preflight", "drop"}
  BY <1>2 DEF TxQuiet, At
<1>3. \A told : ~End(told)
  BY DEF End
<1>4. ~Fail
  BY <1>3 DEF Fail
<1>5. ASSUME NEW c \in Callers, Call(c) PROVE TxQuiet'
  BY <1>2, <1>5 DEF Call
<1>6. CASE Recover
  BY <1>0, <1>2, <1>6 DEF Recover, At, TxSound, TxFields
<1>7. ASSUME NEW i, i.before = work, tx' = [tx EXCEPT !.at = "replace", !.item = i],
             At("body"), work' = work
      PROVE  TxQuiet'
  BY <1>0, <1>7 DEF TxQuiet, At, TxSound, TxFields
<1>8. CASE Edit
  <2>1. At("body") /\ work' = work
    BY <1>8 DEF Edit
  <2>2. PICK i : i = Intent(Requested)
    OBVIOUS
  <2>3. i.before = work
    BY <2>2 DEF Intent
  <2>4. tx' = [tx EXCEPT !.at = "replace", !.item = i]
    BY <1>3, <1>8, <2>2 DEF Edit
  <2> QED
    BY <1>7, <2>1, <2>3, <2>4
<1>9. CASE Materialize
  <2>1. At("body") /\ work' = work
    BY <1>9 DEF Materialize
  <2>2. PICK i : i = Intent(ImportChanges)
    OBVIOUS
  <2>3. i.before = work
    BY <2>2 DEF Intent
  <2>4. tx' = [tx EXCEPT !.at = "replace", !.item = i]
    BY <1>9, <2>2 DEF Materialize
  <2> QED
    BY <1>7, <2>1, <2>3, <2>4
<1>10. CASE Replace
  <2>1. At("replace") /\ tx' = [tx EXCEPT !.at = "preflight"]
    BY <1>4, <1>10 DEF Replace, GoTo
  <2>2. tx'.at = "preflight"
    BY <1>0, <2>1 DEF At, TxSound, TxFields
  <2> QED
    BY <1>2, <2>2
<1>11. CASE StartProject
  <2>1. At("preflight") /\ work' = work
        /\ tx' = [tx EXCEPT !.at = "project", !.todo = Delta(tx.item)]
    BY <1>4, <1>11 DEF StartProject, projectRest
  <2>2. tx'.at = "project" /\ tx'.todo = Delta(tx.item) /\ tx'.item = tx.item
    BY <1>0, <2>1 DEF At, TxSound, TxFields
  <2>3. \A f \in Files : OldOrNew(tx.item, f)
    BY <1>0, <2>1 DEF At, TxSound, FilesQuiet
  <2> QED
    BY <2>1, <2>2, <2>3 DEF TxQuiet, At, Delta, OldOrNew
<1>12. ASSUME NEW f \in Files, CheckFile(f) PROVE TxQuiet'
  <2>1. At("project") /\ work' = work
    BY <1>12 DEF CheckFile, projectRest
  <2>2. \/ tx' = [tx EXCEPT !.todo = @ \ {f}] /\ work[f] = tx.item.after[f]
        \/ tx' = [tx EXCEPT !.todo = @ \ {f}, !.at = "rename", !.file = f]
    BY <1>4, <1>12 DEF CheckFile
  <2>3. /\ tx'.todo = tx.todo \ {f} /\ tx'.item = tx.item
        /\ \/ tx'.at = "project" /\ work[f] = tx.item.after[f]
           \/ tx'.at = "rename" /\ tx'.file = f
    BY <1>0, <2>1, <2>2 DEF At, TxSound, TxFields
  <2>4. \A g \in Files \ tx.todo : work[g] = tx.item.after[g]
    BY <1>0, <2>1 DEF TxQuiet
  <2> QED
    BY <2>1, <2>3, <2>4 DEF TxQuiet, At
<1>13. CASE RenameFile
  <2>1. At("rename") /\ tx' = [tx EXCEPT !.at = "project", !.file = None]
        /\ work' = [work EXCEPT ![tx.file] = tx.item.after[tx.file]]
    BY <1>13 DEF RenameFile
  <2>2. tx'.at = "project" /\ tx'.todo = tx.todo /\ tx'.item = tx.item /\ tx.file \in Files
    BY <1>0, <2>1 DEF At, TxSound, TxFields
  <2>3. \A g \in Files \ (tx.todo \union {tx.file}) : work[g] = tx.item.after[g]
    BY <1>0, <2>1 DEF TxQuiet
  <2>4. work \in [Files -> Contents]
    BY <1>0 DEF WorkSound, Revisions
  <2>5. \A g \in Files \ tx.todo : work'[g] = tx.item.after[g]
    BY <2>1, <2>2, <2>3, <2>4
  <2> QED
    BY <2>2, <2>5 DEF TxQuiet, At
<1>14. CASE WriteReceipt
  <2>1. At("project") /\ tx' = [tx EXCEPT !.at = "drop"]
    BY <1>4, <1>14 DEF WriteReceipt, GoTo
  <2>2. tx'.at = "drop"
    BY <1>0, <2>1 DEF At, TxSound, TxFields
  <2> QED
    BY <1>2, <2>2
<1>15. CASE DropPending
  <2>1. At("drop") /\ tx' = [tx EXCEPT !.at = "recover", !.item = None]
    BY <1>3, <1>15 DEF DropPending
  <2>2. tx'.at = "recover"
    BY <1>0, <2>1 DEF At, TxSound, TxFields
  <2> QED
    BY <1>2, <2>2
<1>16. ASSUME NEW f \in Files, NEW c \in Contents, Save(f, c) PROVE FALSE
  BY <1>16 DEF Save
<1>17. CASE Fault
  BY <1>4, <1>17 DEF Fault
<1>18. ASSUME NEW m \in Messages, Observe(m) PROVE TxQuiet'
  BY <1>1, <1>18 DEF Observe
<1> QED
  BY <1>1, <1>5, <1>6, <1>8, <1>9, <1>10, <1>11, <1>12, <1>13, <1>14, <1>15, <1>16, <1>17,
     <1>18 DEF Next, vars

LEMMA QuietStep == EditInv /\ [Next]_vars => Quiet'
<1> SUFFICES ASSUME EditInv, [Next]_vars, saves' = 0 PROVE FilesQuiet' /\ TxQuiet'
  BY DEF Quiet
<1>1. saves' = saves \/ saves' = saves + 1
  BY DEF Next, vars, answers, Observe, Call, Recover, Edit, Materialize, Replace, StartProject,
         CheckFile, projectRest, RenameFile, WriteReceipt, DropPending, Save, Fault
<1>2. saves \in Nat
  BY DEF EditInv, WorkSound
<1>3. saves = 0
  BY <1>1, <1>2
<1> QED
  BY <1>3, FilesQuietStep, TxQuietStep

-----------------------------------------------------------------------------
(***************************************************************************)
(* The answers.                                                             *)
(***************************************************************************)
AnswerTrue(m) ==
  /\ answer[m] \in {"committed", "unchanged"} =>
       \E i \in receipts : i.id = m /\ i.request = proposal[m]
  /\ answer[m] = "stale" => saves > 0 \/ \E i \in receipts : i.id # m
  /\ answer[m] \in {"failed", "projection-failed"} => saves > 0 \/ faults > 0

LEMMA AnswersEach == AnswersAreTrue <=> \A m \in Messages : AnswerTrue(m)
<1> SUFFICES ASSUME NEW m \in Messages
             PROVE  /\ receipts # Known(receipts, OperationId(m)) <=> \E i \in receipts : i.id # m
                    /\ (\E i \in Known(receipts, OperationId(m)) : i.request = proposal[m]) <=>
                          \E i \in receipts : i.id = m /\ i.request = proposal[m]
  BY DEF AnswersAreTrue, AnswerTrue
<1> QED
  BY DEF Known, OperationId

LEMMA AnswersEachNext == AnswersAreTrue' <=> (\A m \in Messages : AnswerTrue(m))'
BY AnswersEach, PTL

\* With nobody else's saves and receipts, an agent finds what it has seen, or what
\* its own receipt says.
LEMMA StaleIsTrue ==
  ASSUME EditInv, At("body"), NEW m \in Messages, tx.caller = m, saves = 0,
         \A i \in receipts : i.id = m /\ i.request = Requested,
         NEW f \in DOMAIN Requested
  PROVE  work[f] = IF Previous = {} THEN Requested[f].expected ELSE Requested[f].content
<1>0. FilesQuiet /\ ItemsSound /\ TxSound /\ ProposalsSound /\ pending = {}
  BY DEF EditInv, Quiet, TxSound, At
<1>1. m # Import
  BY EditAssumption
<1>2. Requested = proposal[m] /\ proposal[m] # None
  BY <1>0, <1>1 DEF Requested, TxSound, At
<1>3. Previous = receipts
  BY DEF Previous, Known, OperationId
<1>4. f \in Files
  BY <1>0, <1>2 DEF ProposalsSound
<1>5. CASE receipts = {}
  <2>1. Durable = {} /\ work = Initial
    BY <1>0, <1>5 DEF Durable, FilesQuiet
  <2>2. Requested[f].expected = Initial[f]
    BY <1>0, <1>2, <2>1 DEF FilesQuiet
  <2> QED
    BY <1>3, <1>5, <2>1, <2>2
<1>6. ASSUME NEW i \in receipts
      PROVE  work[f] = IF Previous = {} THEN Requested[f].expected ELSE Requested[f].content
  <2>1. Durable = {i}
    BY <1>0 DEF Durable, ItemsSound
  <2>2. work = i.after
    BY <1>0, <2>1 DEF FilesQuiet
  <2>3. i.after[f] = Requested[f].content
    BY <1>0, <1>4 DEF ItemsSound, ItemSound, Durable
  <2> QED
    BY <1>3, <2>2, <2>3
<1> QED
  BY <1>5, <1>6

\* While no editor saves, nothing is in the way of an edit.
LEMMA NothingInTheWay ==
  ASSUME EditInv, saves = 0
  PROVE  /\ At("body") => \A i \in Previous : i.request = Requested
         /\ At("replace") => work = tx.item.before
         /\ At("preflight") => Preflight(tx.item)
         /\ At("project") => \A f \in Files : OldOrNew(tx.item, f)
         /\ At("project") /\ tx.todo = {} => work = tx.item.after
<1>0. FilesQuiet /\ TxQuiet /\ ItemsSound /\ TxSound /\ WorkSound
  BY DEF EditInv, Quiet
<1>1. At("body") => \A i \in Previous : i.request = Requested
  BY <1>0 DEF Previous, Known, OperationId, Requested, ItemsSound, ItemSound, Wanted, Durable
<1>2. At("preflight") \/ At("project") =>
        tx.item \in pending /\ \A f \in Files : OldOrNew(tx.item, f)
  BY <1>0 DEF At, TxSound, FilesQuiet
<1>3. ASSUME At("project"), tx.todo = {} PROVE work = tx.item.after
  <2>1. tx.item.after \in [Files -> Contents] /\ work \in [Files -> Contents]
    BY <1>0, <1>2, <1>3 DEF ItemsSound, ItemSound, Durable, Revisions, WorkSound
  <2>2. \A f \in Files : work[f] = tx.item.after[f]
    BY <1>0, <1>3 DEF TxQuiet
  <2> QED
    BY <2>1, <2>2
<1> QED
  BY <1>0, <1>1, <1>2, <1>3 DEF TxQuiet, Preflight

LEMMA AnswersStep == EditInv /\ [Next]_vars => AnswersAreTrue'
<1> SUFFICES ASSUME EditInv, [Next]_vars, NEW m \in Messages PROVE AnswerTrue(m)'
  BY AnswersEachNext
<1>0. AnswerTrue(m) /\ TxSound /\ ItemsSound /\ ProposalsSound /\ WorkSound
  BY AnswersEach DEF EditInv
<1>1. receipts \subseteq receipts'
  BY DurableStep DEF DurableGrows
<1>2. saves \in Nat /\ faults \in Nat
  BY <1>0 DEF WorkSound
<1>3. (saves' = saves \/ saves' = saves + 1) /\ (faults' = faults \/ faults' = faults + 1)
  BY DEF Next, vars, answers, Observe, Call, Recover, Edit, Materialize, Replace, StartProject,
         CheckFile, projectRest, RenameFile, WriteReceipt, DropPending, Save, Fault
<1>4. (saves > 0 => saves' > 0) /\ (faults > 0 => faults' > 0)
  BY <1>2, <1>3
<1>5. ASSUME answer'[m] = answer[m] PROVE AnswerTrue(m)'
  <2>1. CASE answer[m] = None
    BY <1>5, <2>1, EditAssumption DEF AnswerTrue
  <2>2. CASE answer[m] # None
    <3>1. proposal'[m] = proposal[m]
      BY <1>0, <2>2, ProposalsStay DEF ProposalsSound
    <3> QED
      BY <1>0, <1>1, <1>4, <1>5, <3>1 DEF AnswerTrue
  <2> QED
    BY <2>1, <2>2
<1>6. ASSUME NEW told, tx # None, End(told), tx.caller # m PROVE AnswerTrue(m)'
  <2>1. answer'[m] = answer[m]
    BY <1>0, <1>6 DEF End, ProposalsSound
  <2> QED
    BY <1>5, <2>1
<1>7. ASSUME NEW told, tx # None, End(told), tx.caller = m PROVE answer'[m] = told
  BY <1>0, <1>7 DEF End, ProposalsSound
<1>8. ASSUME tx # None, Fail, saves' > 0 \/ faults' > 0 PROVE AnswerTrue(m)'
  <2>1. PICK told \in {"failed", "projection-failed"} : End(told)
    BY <1>8 DEF Fail
  <2>2. CASE tx.caller = m
    <3>1. answer'[m] = told
      BY <1>7, <1>8, <2>1, <2>2
    <3> QED
      BY <1>8, <3>1 DEF AnswerTrue
  <2> QED
    BY <1>6, <1>8, <2>1, <2>2
<1>9. CASE UNCHANGED answer
  BY <1>5, <1>9
<1>10. CASE Edit
  <2>1. At("body") /\ tx # None /\ tx.caller \in Messages /\ UNCHANGED <<proposal, saves, faults>>
    BY <1>10 DEF Edit, At
  <2>2. tx.caller # Import
    BY <2>1, EditAssumption
  <2>3. Requested = proposal[tx.caller]
    BY <2>2 DEF Requested
  <2>4. CASE \E i \in Previous : i.request # Requested
    <3>1. End("failed")
      BY <1>10, <2>4 DEF Edit
    <3>2. saves > 0
      BY <1>2, <2>1, <2>4, NothingInTheWay
    <3>3. CASE tx.caller = m
      <4>1. answer'[m] = "failed"
        BY <1>7, <2>1, <3>1, <3>3
      <4> QED
        BY <1>4, <3>2, <4>1 DEF AnswerTrue
    <3> QED
      BY <1>6, <2>1, <3>1, <3>3
  <2>5. ASSUME \A i \in Previous : i.request = Requested,
               NEW f \in DOMAIN Requested,
               work[f] # IF Previous = {} THEN Requested[f].expected ELSE Requested[f].content
        PROVE  AnswerTrue(m)'
    <3>1. End("stale")
      BY <1>10, <2>5 DEF Edit
    <3>2. CASE tx.caller = m
      <4>1. answer'[m] = "stale"
        BY <1>7, <2>1, <3>1, <3>2
      <4>2. saves > 0 \/ \E i \in receipts : i.id # m
        <5> SUFFICES ASSUME saves = 0, \A i \in receipts : i.id = m PROVE FALSE
          BY <1>2
        <5>1. \A i \in receipts : i.id = m /\ i.request = Requested
          BY <2>5, <3>2 DEF Previous, Known, OperationId
        <5> QED
          BY <2>1, <2>5, <3>2, <5>1, StaleIsTrue
      <4> QED
        BY <1>1, <1>4, <4>1, <4>2 DEF AnswerTrue
    <3> QED
      BY <1>6, <2>1, <3>1, <3>2
  <2>6. ASSUME End("unchanged"), NEW i \in receipts', i.id = tx.caller, i.request = Requested
        PROVE  AnswerTrue(m)'
    <3>1. CASE tx.caller = m
      <4>1. answer'[m] = "unchanged"
        BY <1>7, <2>1, <2>6, <3>1
      <4> QED
        BY <2>1, <2>3, <2>6, <3>1, <4>1 DEF AnswerTrue
    <3> QED
      BY <1>6, <2>1, <2>6, <3>1
  <2>7. ASSUME \A i \in Previous : i.request = Requested,
               ~\E f \in DOMAIN Requested :
                  work[f] # IF Previous = {} THEN Requested[f].expected ELSE Requested[f].content
        PROVE  AnswerTrue(m)'
    <3>1. CASE Previous # {}
      <4>1. End("unchanged") /\ receipts' = receipts
        BY <1>10, <2>7, <3>1 DEF Edit
      <4>2. PICK i \in Previous : TRUE
        BY <3>1
      <4>3. i \in receipts' /\ i.id = tx.caller /\ i.request = Requested
        BY <2>7, <4>1, <4>2 DEF Previous, Known, OperationId
      <4> QED
        BY <2>6, <4>1, <4>3
    <3>2. CASE Previous = {} /\ Overlay(Requested) = work
      <4>1. PICK i : i = Intent(Requested)
        OBVIOUS
      <4>2. End("unchanged") /\ receipts' = receipts \union {i}
        BY <1>10, <2>7, <3>2, <4>1 DEF Edit
      <4>3. i.id = tx.caller /\ i.request = Requested
        BY <1>0, <2>1, <4>1, IntentSound
      <4> QED
        BY <2>6, <4>2, <4>3
    <3>3. CASE Previous = {} /\ Overlay(Requested) # work
      BY <1>9, <1>10, <2>7, <3>3 DEF Edit
    <3> QED
      BY <3>1, <3>2, <3>3
  <2> QED
    BY <2>4, <2>5, <2>7
<1>11. CASE Replace
  <2>1. At("replace") /\ tx # None /\ saves' = saves
    BY <1>11 DEF Replace, At
  <2>2. CASE work \in {tx.item.before, tx.item.after}
    <3>1. UNCHANGED answer \/ (Fail /\ faults' = faults + 1)
      BY <1>11, <2>2 DEF Replace
    <3> QED
      BY <1>2, <1>8, <1>9, <2>1, <3>1
  <2>3. CASE work \notin {tx.item.before, tx.item.after}
    <3>1. Fail
      BY <1>11, <2>3 DEF Replace
    <3>2. saves > 0
      BY <1>2, <2>1, <2>3, NothingInTheWay
    <3> QED
      BY <1>8, <2>1, <3>1, <3>2
  <2> QED
    BY <2>2, <2>3
<1>12. CASE StartProject
  <2>1. At("preflight") /\ tx # None /\ saves' = saves
    BY <1>12 DEF StartProject, projectRest, At
  <2>2. UNCHANGED answer \/ (Fail /\ ~Preflight(tx.item))
    BY <1>12 DEF StartProject
  <2>3. ~Preflight(tx.item) => saves > 0
    BY <1>2, <2>1, NothingInTheWay
  <2> QED
    BY <1>8, <1>9, <2>1, <2>2, <2>3
<1>13. ASSUME NEW f \in Files, CheckFile(f) PROVE AnswerTrue(m)'
  <2>1. At("project") /\ tx # None /\ saves' = saves
    BY <1>13 DEF CheckFile, projectRest, At
  <2>2. UNCHANGED answer \/ (Fail /\ ~OldOrNew(tx.item, f))
    BY <1>13 DEF CheckFile, OldOrNew
  <2>3. ~OldOrNew(tx.item, f) => saves > 0
    BY <1>2, <2>1, NothingInTheWay
  <2> QED
    BY <1>8, <1>9, <2>1, <2>2, <2>3
<1>14. CASE WriteReceipt
  <2>1. At("project") /\ tx # None /\ saves' = saves /\ tx.todo = {}
    BY <1>14 DEF WriteReceipt, At
  <2>2. UNCHANGED answer \/ (Fail /\ work # tx.item.after)
    BY <1>14 DEF WriteReceipt
  <2>3. work # tx.item.after => saves > 0
    BY <1>2, <2>1, NothingInTheWay
  <2> QED
    BY <1>8, <1>9, <2>1, <2>2, <2>3
<1>15. CASE DropPending
  <2>1. At("drop") /\ tx # None /\ proposal' = proposal /\ receipts' = receipts
    BY <1>15 DEF DropPending, At
  <2>2. UNCHANGED answer \/ (~tx.recovering /\ End("committed"))
    BY <1>15 DEF DropPending
  <2>3. ASSUME ~tx.recovering, End("committed"), tx.caller = m PROVE AnswerTrue(m)'
    <3>1. answer'[m] = "committed"
      BY <1>7, <2>1, <2>3
    <3>2. tx.item \in receipts /\ tx.item.id = m
      BY <1>0, <2>1, <2>3 DEF At, TxSound
    <3>3. m # Import
      BY EditAssumption
    <3>4. tx.item.request = proposal[m]
      BY <1>0, <3>2, <3>3 DEF ItemsSound, ItemSound, Wanted, Durable
    <3> QED
      BY <2>1, <3>1, <3>2, <3>4 DEF AnswerTrue
  <2> QED
    BY <1>6, <1>9, <2>1, <2>2, <2>3
<1>16. CASE Fault
  <2>1. tx # None /\ faults' = faults + 1 /\ (Fail \/ UNCHANGED answer)
    BY <1>16 DEF Fault
  <2>2. faults' > 0
    BY <1>2, <2>1
  <2> QED
    BY <1>8, <1>9, <2>1, <2>2
<1> QED
  BY <1>9, <1>10, <1>11, <1>12, <1>13, <1>14, <1>15, <1>16
     DEF Next, vars, answers, Observe, Call, Recover, Materialize, RenameFile, Save

-----------------------------------------------------------------------------
(***************************************************************************)
(* The theorems.                                                            *)
(***************************************************************************)
LEMMA EditInit == Init => EditInv
<1> SUFFICES ASSUME Init PROVE EditInv
  OBVIOUS
<1>1. WorkSound
  BY EditAssumption DEF Init, WorkSound
<1>2. ItemsSound
  BY DEF Init, ItemsSound, Durable
<1>3. ProposalsSound
  BY DEF Init, ProposalsSound
<1>4. TxSound
  BY DEF Init, TxSound
<1>5. Quiet
  <2>1. work = Initial /\ pending = {} /\ receipts = {} /\ tx = None
        /\ \A m \in Messages : proposal[m] = None
    BY DEF Init
  <2>2. FilesQuiet
    BY <2>1 DEF FilesQuiet
  <2>3. TxQuiet
    BY <2>1 DEF TxQuiet, At
  <2> QED
    BY <2>2, <2>3 DEF Quiet
<1>6. AnswersAreTrue
  <2>1. \A m \in Messages : answer[m] = None
    BY DEF Init
  <2> QED
    BY <2>1, AnswersEach, EditAssumption DEF AnswerTrue
<1> QED
  BY <1>1, <1>2, <1>3, <1>4, <1>5, <1>6 DEF EditInv

\* Every reachable state satisfies the inductive invariant: one durable record for
\* an id, one pending record, what a transaction has in hand at each stage, and what
\* the directory is while no editor has saved.
THEOREM EditInvariant == Spec => []EditInv
<1>1. Init => EditInv
  BY EditInit
<1>2. EditInv /\ [Next]_vars => EditInv'
  BY WorkStep, ItemsStep, ProposalsStep, TxStep, QuietStep, AnswersStep DEF EditInv
<1> QED
  BY <1>1, <1>2, PTL DEF Spec

\* What an agent is told is so, whatever was interrupted, repeated or saved, and
\* whatever message ids other agents use.
THEOREM AnswersHold == Spec => []AnswersAreTrue
<1>1. EditInv => AnswersAreTrue
  BY DEF EditInv
<1> QED
  BY <1>1, EditInvariant, PTL

-----------------------------------------------------------------------------
(***************************************************************************)
(* The refinement of FileEdits.                                             *)
(***************************************************************************)
Directory == [f \in Files |-> Settled(f)]
Done == {i.id : i \in Durable}
Wants == [c \in Callers |-> Wanted(c)]

\* At rest the directory is what it is; with an edit pending that has no receipt, each
\* file that is as before counts as written.
LEMMA SettledAtRest == pending = {} => Directory = [f \in Files |-> work[f]]
BY DEF Directory, Settled

LEMMA SettledPending ==
  ASSUME NEW i \in pending, \A j \in pending : j = i
  PROVE  Directory = [f \in Files |-> IF i \notin receipts /\ work[f] = i.before[f]
                                      THEN i.after[f] ELSE work[f]]
<1>1. pending = {i} /\ (CHOOSE j \in pending : TRUE) = i
  OBVIOUS
<1>2. ASSUME NEW f \in Files
      PROVE  Settled(f) = IF i \notin receipts /\ work[f] = i.before[f]
                          THEN i.after[f] ELSE work[f]
  BY <1>1 DEF Settled, Delta
<1> QED
  BY <1>2 DEF Directory

\* So it is known file by file, in any state and in the next one.
LEMMA DirectoryEach ==
  EditInv =>
    /\ Directory = [f \in Files |-> Directory[f]]
    /\ \A i \in pending, f \in Files :
         Directory[f] = IF i \notin receipts /\ work[f] = i.before[f]
                        THEN i.after[f] ELSE work[f]
    /\ pending = {} => \A f \in Files : Directory[f] = work[f]
    /\ \A f \in Files : Directory[f] \in Contents
<1> SUFFICES ASSUME EditInv
             PROVE  /\ Directory = [f \in Files |-> Directory[f]]
                    /\ \A i \in pending, f \in Files :
                         Directory[f] = IF i \notin receipts /\ work[f] = i.before[f]
                                        THEN i.after[f] ELSE work[f]
                    /\ pending = {} => \A f \in Files : Directory[f] = work[f]
                    /\ \A f \in Files : Directory[f] \in Contents
  OBVIOUS
<1>1. ItemsSound /\ work \in [Files -> Contents]
  BY DEF EditInv, WorkSound, Revisions
<1>2. Directory = [f \in Files |-> Directory[f]]
  BY DEF Directory
<1>3. ASSUME NEW i \in pending, NEW f \in Files
      PROVE  Directory[f] = IF i \notin receipts /\ work[f] = i.before[f]
                            THEN i.after[f] ELSE work[f]
  <2>1. \A j \in pending : j = i
    BY <1>1 DEF ItemsSound
  <2>2. Directory = [g \in Files |-> IF i \notin receipts /\ work[g] = i.before[g]
                                     THEN i.after[g] ELSE work[g]]
    BY <2>1, SettledPending
  <2> QED
    BY <2>2
<1>4. ASSUME pending = {}, NEW f \in Files PROVE Directory[f] = work[f]
  <2>1. Directory = [g \in Files |-> work[g]]
    BY <1>4, SettledAtRest
  <2> QED
    BY <2>1
<1>5. ASSUME NEW f \in Files PROVE Directory[f] \in Contents
  <2>1. ASSUME NEW i \in pending PROVE Directory[f] \in Contents
    <3>1. i.after \in [Files -> Contents]
      BY <1>1 DEF ItemsSound, ItemSound, Durable, Revisions
    <3> QED
      BY <1>1, <1>3, <3>1
  <2> QED
    BY <1>1, <1>4, <2>1
<1> QED
  BY <1>2, <1>3, <1>4, <1>5

LEMMA DirectoryEachNext ==
  EditInv' =>
    /\ Directory' = [f \in Files |-> Directory'[f]]
    /\ \A i \in pending', f \in Files :
         Directory'[f] = IF i \notin receipts' /\ work'[f] = i.before[f]
                         THEN i.after[f] ELSE work'[f]
    /\ pending' = {} => \A f \in Files : Directory'[f] = work'[f]
    /\ \A f \in Files : Directory'[f] \in Contents
<1>1. (EditInv =>
    /\ Directory = [f \in Files |-> Directory[f]]
    /\ \A i \in pending, f \in Files :
         Directory[f] = IF i \notin receipts /\ work[f] = i.before[f]
                        THEN i.after[f] ELSE work[f]
    /\ pending = {} => \A f \in Files : Directory[f] = work[f]
    /\ \A f \in Files : Directory[f] \in Contents)'
  BY DirectoryEach, PTL
<1> QED
  BY <1>1

\* Asking, committing, saving and losing, of what the edits are mapped to.
LEMMA AsksEdits ==
  ASSUME NEW c \in Callers, Wants[c] = None, Wants' = [Wants EXCEPT ![c] = Wants'[c]],
         Directory' = Directory, Done' = Done, UNCHANGED <<saves, lost>>
  PROVE  Edits!Step
<1>1. Edits!Ask(c)
  BY DEF Edits!Ask, Directory, Done, Durable, Wants, Wanted
<1> QED
  BY <1>1 DEF Edits!Step

LEMMA CommitsEdits ==
  ASSUME NEW c \in Callers, Wants[c] # None, c \notin Done, Done' = Done \union {c},
         \A f \in DOMAIN Wants[c] : Directory[f] \in {Wants[c][f].expected, Wants[c][f].content},
         Directory' = [f \in Files |-> IF f \in DOMAIN Wants[c] THEN Wants[c][f].content
                                       ELSE Directory[f]],
         Wants' = Wants, UNCHANGED <<saves, lost>>
  PROVE  Edits!Step
<1>1. Edits!Commit(c)
  BY DEF Edits!Commit, Directory, Done, Durable, Wants, Wanted
<1> QED
  BY <1>1 DEF Edits!Step

LEMMA SavesEdits ==
  ASSUME NEW f \in Files, NEW c \in Contents, Directory' = [Directory EXCEPT ![f] = c],
         Wants' = Wants, Done' = Done,
         \/ saves' = saves + 1 /\ lost' = lost
         \/ saves' = saves /\ lost' = lost \union {f}
  PROVE  Edits!Step
<1>1. Edits!Save(f, c) \/ Edits!Lose(f, c)
  BY DEF Edits!Save, Edits!Lose, Directory, Done, Durable, Wants, Wanted
<1> QED
  BY <1>1 DEF Edits!Step

LEMMA LeavesEdits ==
  ASSUME Directory' = Directory, Wants' = Wants, Done' = Done, UNCHANGED <<saves, lost>>
  PROVE  UNCHANGED Edits!vars
BY DEF Edits!vars, Directory, Done, Durable, Wants, Wanted

\* The first durable record of an edit is its commit: it is a receipt of what is there
\* already, or it is pending and the whole of it counts as written.
LEMMA RecordCommits ==
  ASSUME EditInv, EditInv', NEW i, ItemSound(i), Known(Durable, i.id) = {},
         Durable' = Durable \union {i}, UNCHANGED <<work, proposal, saves, lost>>,
         pending = {}, work \in {i.before, i.after},
         \A f \in DOMAIN i.request : work[f] \in {i.request[f].expected, i.request[f].content},
         \/ pending' = {i} /\ i \notin receipts'
         \/ pending' = {} /\ work = i.after
  PROVE  Edits!Step
<1> DEFINE c == i.id
<1>1. c \in Callers /\ Wants[c] = i.request
  BY DEF ItemSound, Wants
<1>2. Wants[c] # None
  BY <1>1, ImportAssumption DEF ItemSound, Wanted, Callers
<1>3. c \notin Done /\ Done' = Done \union {c}
  BY DEF Done, Known
<1>4. \A f \in Files : Directory[f] = work[f]
  BY DirectoryEach
<1>5. DOMAIN i.request \subseteq Files
  BY RequestFits DEF EditInv, ItemSound
<1>6. \A f \in DOMAIN Wants[c] : Directory[f] \in {Wants[c][f].expected, Wants[c][f].content}
  BY <1>1, <1>4, <1>5
<1>7. Wants' = Wants
  BY DEF Wants, Wanted, ImportChanges
<1>8. ASSUME NEW f \in Files
      PROVE  Directory'[f] = IF f \in DOMAIN i.request THEN i.request[f].content ELSE work[f]
  <2>1. i.after[f] = IF f \in DOMAIN i.request THEN i.request[f].content ELSE i.before[f]
    BY DEF ItemSound
  <2>2. CASE pending' = {i} /\ i \notin receipts'
    <3>1. Directory'[f] = IF work[f] = i.before[f] THEN i.after[f] ELSE work[f]
      BY <2>2, DirectoryEachNext
    <3> QED
      BY <2>1, <3>1
  <2>3. CASE pending' = {} /\ work = i.after
    <3>1. Directory'[f] = work[f]
      BY <2>3, DirectoryEachNext
    <3> QED
      BY <2>1, <2>3, <3>1
  <2> QED
    BY <2>2, <2>3
<1>9. Directory' = [f \in Files |-> Directory'[f]]
  BY DirectoryEachNext
<1>10. Directory' = [f \in Files |-> IF f \in DOMAIN Wants[c] THEN Wants[c][f].content
                                     ELSE Directory[f]]
  BY <1>1, <1>4, <1>8, <1>9
<1> QED
  BY <1>1, <1>2, <1>3, <1>6, <1>7, <1>10, CommitsEdits

LEMMA EditsStep == EditInv /\ EditInv' /\ [Next]_vars => [Edits!Step]_(Edits!vars)
<1> SUFFICES ASSUME EditInv, EditInv', [Next]_vars PROVE Edits!Step \/ UNCHANGED Edits!vars
  OBVIOUS
<1>0. TxSound /\ ItemsSound /\ ProposalsSound /\ WorkSound
  BY DEF EditInv
<1>d. /\ Directory = [f \in Files |-> Directory[f]]
      /\ Directory' = [f \in Files |-> Directory'[f]]
  BY DirectoryEach, DirectoryEachNext
<1>w. proposal' = proposal => Wants' = Wants
  BY DEF Wants, Wanted, ImportChanges
<1>1. CASE UNCHANGED <<work, pending, receipts, proposal, saves, lost>>
  <2>1. Directory' = Directory /\ Done' = Done
    BY <1>1 DEF Directory, Settled, Delta, Done, Durable
  <2> QED
    BY <1>1, <1>w, <2>1, LeavesEdits
<1>2. ASSUME NEW m \in Messages, Observe(m) PROVE Edits!Step
  <2>1. UNCHANGED <<work, pending, receipts, saves, lost>> /\ proposal[m] = None
    BY <1>2 DEF Observe
  <2>2. Directory' = Directory /\ Done' = Done
    BY <2>1 DEF Directory, Settled, Delta, Done, Durable
  <2>3. m \in Callers /\ m # Import
    BY EditAssumption DEF Callers
  <2>4. Wants[m] = None
    BY <2>1, <2>3 DEF Wants, Wanted
  <2>5. \A n \in Messages : n # m => proposal'[n] = proposal[n]
    BY <1>0, <1>2 DEF Observe, ProposalsSound
  <2>6. \A c \in Callers : c # m => Wants'[c] = Wants[c]
    BY <2>5 DEF Wants, Wanted, ImportChanges, Callers
  <2>7. DOMAIN Wants = Callers /\ Wants' = [c \in Callers |-> Wants'[c]]
    BY DEF Wants
  <2>8. Wants' = [Wants EXCEPT ![m] = Wants'[m]]
    BY <2>6, <2>7 DEF Wants
  <2> QED
    BY <2>1, <2>2, <2>3, <2>4, <2>8, AsksEdits
<1>3. CASE Edit
  <2>1. At("body") /\ UNCHANGED <<work, pending, proposal, saves, lost>>
    BY <1>3 DEF Edit
  <2>2. tx # None /\ pending = {}
    BY <1>0, <2>1 DEF At, TxSound
  <2>3. PICK i : i = Intent(Requested)
    OBVIOUS
  <2>4. /\ ItemSound(i) /\ i.id = tx.caller /\ i.request = Requested
        /\ i.before = work /\ i.after = Overlay(Requested)
    BY <1>0, <2>2, <2>3, IntentSound
  <2>5. CASE receipts' = receipts
    BY <1>1, <2>1, <2>5
  <2>6. CASE receipts' # receipts
    <3>1. /\ receipts' = receipts \union {i} /\ work = i.after /\ Previous = {}
          /\ \A f \in DOMAIN i.request : work[f] = i.request[f].expected
      BY <1>3, <2>3, <2>4, <2>6 DEF Edit
    <3>2. Durable' = Durable \union {i} /\ Known(Durable, i.id) = {}
      BY <2>1, <2>2, <2>4, <3>1 DEF Durable, Known, Previous, OperationId
    <3> QED
      BY <2>1, <2>2, <2>4, <3>1, <3>2, RecordCommits
  <2> QED
    BY <2>5, <2>6
<1>4. CASE Replace
  <2>1. At("replace") /\ UNCHANGED <<work, receipts, proposal, saves, lost>>
    BY <1>4 DEF Replace
  <2>2. PICK i : i = tx.item
    OBVIOUS
  <2>3. /\ pending = {} /\ ItemSound(i) /\ Known(receipts, i.id) = {}
        /\ \A f \in DOMAIN i.request : i.before[f] = i.request[f].expected
    BY <1>0, <2>1, <2>2 DEF At, TxSound
  <2>4. CASE pending' = pending
    BY <1>1, <2>1, <2>4
  <2>5. CASE pending' # pending
    <3>1. work \in {i.before, i.after} /\ pending' = {i}
      BY <1>4, <2>2, <2>3, <2>5 DEF Replace
    <3>2. Durable' = Durable \union {i} /\ Known(Durable, i.id) = {} /\ i \notin receipts'
      BY <2>1, <2>3, <3>1 DEF Durable, Known
    <3>3. DOMAIN i.request \subseteq Files
      BY <1>0, <2>3, RequestFits DEF ItemSound
    <3>4. \A f \in DOMAIN i.request : work[f] \in {i.request[f].expected, i.request[f].content}
      BY <2>3, <3>1, <3>3 DEF ItemSound
    <3> QED
      BY <2>1, <2>3, <3>1, <3>2, <3>4, RecordCommits
  <2> QED
    BY <2>4, <2>5
<1>5. CASE RenameFile
  <2>1. At("rename") /\ UNCHANGED <<pending, receipts, proposal, saves>>
    BY <1>5 DEF RenameFile, answers
  <2>2. PICK i : i = tx.item
    OBVIOUS
  <2>3. PICK f : f = tx.file
    OBVIOUS
  <2>4. i \in pending /\ f \in Files
    BY <1>0, <2>1, <2>2, <2>3 DEF TxSound, At
  <2>5. /\ work' = [work EXCEPT ![f] = i.after[f]]
        /\ lost' = IF Overwritten(i, f) THEN lost \union {f} ELSE lost
    BY <1>5, <2>2, <2>3 DEF RenameFile
  <2>6. work \in [Files -> Contents] /\ i.after[f] \in Contents
    BY <1>0, <2>4 DEF WorkSound, Revisions, ItemsSound, ItemSound, Durable
  <2>7. Done' = Done
    BY <2>1 DEF Done, Durable
  <2>8. \A g \in Files : Directory[g] = IF i \notin receipts /\ work[g] = i.before[g]
                                        THEN i.after[g] ELSE work[g]
    BY <2>4, DirectoryEach
  <2>9. \A g \in Files : Directory'[g] = IF i \notin receipts /\ work'[g] = i.before[g]
                                         THEN i.after[g] ELSE work'[g]
    BY <2>1, <2>4, DirectoryEachNext
  <2>10. \A g \in Files : Directory'[g] = IF g = f THEN i.after[f] ELSE Directory[g]
    BY <2>4, <2>5, <2>6, <2>8, <2>9
  <2>11. CASE Overwritten(i, f)
    <3>1. Directory' = [Directory EXCEPT ![f] = i.after[f]]
      BY <1>d, <2>4, <2>10
    <3> QED
      BY <1>w, <2>1, <2>4, <2>5, <2>6, <2>7, <2>11, <3>1, SavesEdits
  <2>12. CASE ~Overwritten(i, f)
    <3>1. Directory[f] = i.after[f]
      BY <2>4, <2>8, <2>12 DEF Overwritten
    <3>2. Directory' = Directory
      BY <1>d, <2>10, <3>1
    <3> QED
      BY <1>w, <2>1, <2>5, <2>7, <2>12, <3>2, LeavesEdits
  <2> QED
    BY <2>11, <2>12
<1>6. CASE WriteReceipt
  <2>1. At("project") /\ UNCHANGED <<work, pending, proposal, saves, lost>>
    BY <1>6 DEF WriteReceipt
  <2>2. PICK i : i = tx.item
    OBVIOUS
  <2>3. i \in pending
    BY <1>0, <2>1, <2>2 DEF TxSound, At
  <2>4. CASE receipts' = receipts
    BY <1>1, <2>1, <2>4
  <2>5. CASE receipts' # receipts
    <3>1. receipts' = receipts \union {i} /\ work = i.after
      BY <1>6, <2>2, <2>5 DEF WriteReceipt
    <3>2. Done' = Done
      BY <2>1, <2>3, <3>1 DEF Done, Durable
    <3>3. \A f \in Files : Directory[f] = work[f]
      BY <2>3, <3>1, DirectoryEach
    <3>4. \A f \in Files : Directory'[f] = work[f]
      BY <2>1, <2>3, <3>1, DirectoryEachNext
    <3>5. Directory' = Directory
      BY <1>d, <3>3, <3>4
    <3> QED
      BY <1>w, <2>1, <3>2, <3>5, LeavesEdits
  <2> QED
    BY <2>4, <2>5
<1>7. CASE DropPending
  <2>1. At("drop") /\ UNCHANGED <<work, receipts, proposal, saves, lost>>
        /\ pending' = pending \ {tx.item}
    BY <1>7 DEF DropPending
  <2>2. PICK i : i = tx.item
    OBVIOUS
  <2>3. i \in pending /\ i \in receipts /\ pending' = {}
    BY <1>0, <2>1, <2>2 DEF TxSound, At, ItemsSound
  <2>4. Done' = Done
    BY <2>1, <2>2, <2>3 DEF Done, Durable
  <2>5. \A f \in Files : Directory[f] = work[f]
    BY <2>3, DirectoryEach
  <2>6. \A f \in Files : Directory'[f] = work[f]
    BY <2>1, <2>3, DirectoryEachNext
  <2>7. Directory' = Directory
    BY <1>d, <2>5, <2>6
  <2> QED
    BY <1>w, <2>1, <2>4, <2>7, LeavesEdits
<1>8. ASSUME NEW f \in Files, NEW c \in Contents, Save(f, c) PROVE Edits!Step
  <2>1. UNCHANGED <<pending, receipts, proposal, lost>> /\ saves' = saves + 1
        /\ work' = [work EXCEPT ![f] = c]
    BY <1>8 DEF Save, answers
  <2>2. work \in [Files -> Contents]
    BY <1>0 DEF WorkSound, Revisions
  <2>3. Done' = Done
    BY <2>1 DEF Done, Durable
  <2>4. \A g \in Files : g # f => Directory'[g] = Directory[g]
    <3> TAKE g \in Files
    <3> HAVE g # f
    <3>1. work'[g] = work[g]
      BY <2>1, <2>2
    <3>2. CASE pending = {}
      BY <2>1, <3>1, <3>2, DirectoryEach, DirectoryEachNext
    <3>3. ASSUME NEW i \in pending PROVE Directory'[g] = Directory[g]
      BY <2>1, <3>1, DirectoryEach, DirectoryEachNext
    <3> QED
      BY <3>2, <3>3
  <2>5. PICK d : d = Directory'[f]
    OBVIOUS
  <2>6. d \in Contents
    BY <2>5, DirectoryEachNext
  <2>7. Directory' = [Directory EXCEPT ![f] = d]
    BY <1>d, <2>4, <2>5
  <2> QED
    BY <1>w, <2>1, <2>3, <2>6, <2>7, SavesEdits
<1> QED
  BY <1>1, <1>2, <1>3, <1>4, <1>5, <1>6, <1>7, <1>8
     DEF Next, vars, answers, Call, Recover, Materialize, StartProject, CheckFile, projectRest,
         Fault

\* File by file, call by call and crash by crash, the directory implements FileEdits:
\* an edit of several files happens once, as a whole, on what its author has seen.
THEOREM EditsAreWhole == Spec => ImplementsEdits
<1>1. Init => Edits!Start
  <2> SUFFICES ASSUME Init PROVE Edits!Start
    OBVIOUS
  <2>1. work = Initial /\ pending = {} /\ receipts = {} /\ saves = 0 /\ lost = {}
    BY DEF Init
  <2>2. \A f \in Files : Settled(f) = Initial[f]
    BY <2>1 DEF Settled
  <2>3. Initial = [f \in Files |-> Initial[f]]
    BY EditAssumption DEF Revisions
  <2>4. [f \in Files |-> Settled(f)] = Initial
    BY <2>2, <2>3
  <2> QED
    BY <2>1, <2>4 DEF Edits!Start
<1>2. EditInv /\ EditInv' /\ [Next]_vars => [Edits!Step]_(Edits!vars)
  BY EditsStep
<1> QED
  BY <1>1, <1>2, EditInvariant, PTL DEF Spec, ImplementsEdits, Edits!Spec
=============================================================================
