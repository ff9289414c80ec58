-------------------------- MODULE SurfaceContentProofs --------------------------
(***************************************************************************)
(* The published heads and authoring files of any number of surfaces, under *)
(* any transactions, edits, errors and deaths between two durable steps.    *)
(***************************************************************************)
EXTENDS SurfaceContent, TLAPS

(***************************************************************************)
(* The inductive invariant.                                                 *)
(***************************************************************************)
\* What run hands to recordBatch: a base and a candidate for every bound surface.
Proposals ==
  {b \in Batches : \A s \in Bound[b.trigger] :
                     b.base[s] \in Revisions /\ b.candidate[s] \in Revisions}

\* An apply of a recorded batch, to one of its surfaces.
Owned(i) == i \in Intents /\ i.run \in Recorded /\ i.surface \in Touches(i.run)

BatchesWhole == \A q \in Recorded : batch[q] \in Proposals

\* No surface is held by two pending runs.
PendingApart ==
  \A p, q \in Pending : p # q => Touches(p) \intersect Touches(q) = {}

\* What the transaction that holds the lock has established at its stage.
TxSound ==
  tx # None =>
    /\ tx.request.op = "record" => tx.request.batch \in Proposals
    /\ tx.request.op = "apply" => Owned(tx.request.intent)
    /\ tx.at = "start" /\ tx.caller # "workspace" => pending = {}
    /\ tx.at = "start" /\ tx.caller = "body" => intents = {}
    /\ tx.at \in {"project", "rename", "receipt", "drop"} => tx.item \in pending
    /\ tx.at \in {"finish", "append", "unlink"} =>
         tx.item \in intents /\ pending = {} /\ tx.caller # "workspace"
    /\ tx.at = "rename" => tx.file \in Files
    /\ tx.at \in {"drop", "append"} => tx.item \in receipts
    /\ tx.at = "append" => ~Applied(tx.item)
    /\ tx.at = "unlink" => Applied(tx.item)

\* There is one interrupted apply at most; until its fact is appended nobody has
\* moved its surface, and its files are finished before the fact is appended.
IntentsSound ==
  /\ \A i, j \in intents : i = j
  /\ pending \subseteq intents
  /\ \A i \in intents :
       /\ Owned(i)
       /\ i \in pending => ~Applied(i)
       /\ ~Applied(i) => /\ HeadAt(i.surface) = BaseOf(i)
                         /\ ~Reserved(i.surface, i.run)
       /\ Applied(i) => HeadAt(i.surface) = CandidateOf(i) /\ i \in receipts
  /\ \A i \in receipts : i \in intents \/ Applied(i)

\* The files that no editor has touched.
Calm(s) == s \notin Edited \/ saves = 0
FilesSound ==
  \A s \in Surfaces : Calm(s) =>
    /\ \A i \in intents : i.surface = s =>
         /\ i \in receipts => work[s] = CandidateOf(i)
         /\ i \in pending => Preflight(i)
         /\ i \notin receipts \union pending => work[s] = BaseOf(i)
    /\ AtStage("receipt") /\ tx.item.surface = s => work[s] = CandidateOf(tx.item)

ContentInv ==
  /\ ChainIntact /\ AuthoringFollowsHead
  /\ BatchesWhole /\ PendingApart
  /\ TxSound /\ IntentsSound /\ FilesSound

-----------------------------------------------------------------------------
(***************************************************************************)
(* What one step may do to the disk.                                        *)
(***************************************************************************)
files == <<work, intents, pending, receipts, saves>>

\* The fact of an apply, at once or as the end of its intent.
Applies(i) ==
  /\ Owned(i) /\ ~Applied(i)
  /\ HeadAt(i.surface) = BaseOf(i) /\ ~Reserved(i.surface, i.run)
  /\ pending = {}
  /\ \/ intents = {} /\ CandidateOf(i) = BaseOf(i)
     \/ intents = {i} /\ i \in receipts
  /\ AppendFact(i.surface, AppliedFact(i))
  /\ UNCHANGED <<ledgerVars, files>>

\* An admission or publication reads the directory as it lies there.
Admits(s) ==
  /\ intents = {} /\ pending = {}
  /\ HeadAt(s) = None
  /\ AppendFact(s, Fact("admitted", None, None, work[s]))
  /\ UNCHANGED <<ledgerVars, files>>

Publishes(s, k) ==
  /\ intents = {} /\ pending = {}
  /\ HeadAt(s) # None /\ ~Knows(s, k) /\ ~Reserved(s, None)
  /\ AppendFact(s, Fact("published", k, HeadAt(s), work[s]))
  /\ UNCHANGED <<ledgerVars, files>>

Records(r, b) ==
  /\ intents = {} /\ pending = {}
  /\ Recordable(r, b) /\ Record(r, b)
  /\ UNCHANGED <<history, files>>

Settles(r) ==
  /\ r \in Pending
  /\ Settle(r) \/ SettleFailed(r)
  /\ UNCHANGED <<history, files>>

Renames(i, f) ==
  /\ i \in pending /\ f \in Files
  /\ work' = [work EXCEPT ![i.surface][f] = CandidateOf(i)[f]]
  /\ UNCHANGED <<ledgerVars, history, intents, pending, receipts, saves>>

Intends(i) ==
  /\ intents = {} /\ pending = {}
  /\ Owned(i) /\ ~Applied(i) /\ Replaceable(i)
  /\ HeadAt(i.surface) = BaseOf(i) /\ ~Reserved(i.surface, i.run)
  /\ intents' = {i}
  /\ UNCHANGED <<ledgerVars, history, work, pending, receipts, saves>>

Projects(i) ==
  /\ i \in intents /\ ~Applied(i) /\ Replaceable(i)
  /\ pending' = pending \union {i}
  /\ UNCHANGED <<ledgerVars, history, work, intents, receipts, saves>>

Receipts(i) ==
  /\ i \in pending /\ AtStage("receipt") /\ tx.item = i
  /\ receipts' = receipts \union {i}
  /\ UNCHANGED <<ledgerVars, history, work, intents, pending, saves>>

Drops(i) ==
  /\ i \in receipts
  /\ pending' = pending \ {i}
  /\ UNCHANGED <<ledgerVars, history, work, intents, receipts, saves>>

Unlinks(i) ==
  /\ i \in intents /\ Applied(i) /\ pending = {}
  /\ intents' = intents \ {i}
  /\ UNCHANGED <<ledgerVars, history, work, pending, receipts, saves>>

ContentStep ==
  \/ \E i \in Intents :
       Applies(i) \/ Intends(i) \/ Projects(i) \/ Receipts(i) \/ Drops(i) \/ Unlinks(i)
  \/ \E i \in Intents, f \in Files : Renames(i, f)
  \/ \E s \in Surfaces : Admits(s) \/ \E k \in Keys : Publishes(s, k)
  \/ \E r \in Runs : Settles(r) \/ \E b \in Proposals : Records(r, b)
  \/ \E s \in Surfaces, f \in Files, c \in Contents : Edit(s, f, c)
  \/ UNCHANGED <<ledgerVars, history, files>>

\* A request that is in progress has its type.
LEMMA RequestTypes ==
  ASSUME TypeOK, tx # None
  PROVE  /\ tx.request \in Requests /\ tx.caller \in Callers /\ tx.at \in Stages
         /\ tx.todo \subseteq Files
         /\ tx.request.op = "head" => tx.request.surface \in Surfaces
         /\ tx.request.op = "record" => /\ tx.request.run \in Runs
                                        /\ tx.request.batch \in Batches
         /\ tx.request.op = "apply" => tx.request.intent \in Intents
         /\ tx.request.op = "publish" => /\ tx.request.key \in Keys
                                         /\ tx.request.surface \in Surfaces
<1>1. tx \in Transactions
  BY DEF TypeOK
<1>2. tx.request \in Requests /\ tx.caller \in Callers /\ tx.at \in Stages
      /\ tx.todo \subseteq Files
  BY <1>1 DEF Transactions
<1> QED
  BY <1>2 DEF Requests

\* Every action of the model is one of these for the durable state.
LEMMA StepsAreContent ==
  ASSUME ContentInv, [Next]_vars
  PROVE  ContentStep
<1> USE DEF ContentInv
<1>0. TypeOK
  BY DEF ChainIntact
<1>1. ASSUME UNCHANGED <<ledgerVars, history, work, intents, pending, receipts, saves>>
      PROVE  ContentStep
  BY <1>1 DEF ContentStep, files
<1>2. ASSUME OnlyTx PROVE ContentStep
  BY <1>1, <1>2 DEF OnlyTx, bounds
<1>3. CASE BeginTransaction
  BY <1>2, <1>3
     DEF BeginTransaction, BeginRecover, BeginHead, BeginRecord, BeginApply,
         BeginPublish, Begin
<1>4. CASE RecoverWorkspace
  BY <1>1, <1>2, <1>4 DEF RecoverWorkspace, Project, Leave, bounds
<1>5. CASE RecoverIntents
  BY <1>2, <1>5 DEF RecoverIntents
<1>6. CASE Finish
  <2> DEFINE i == tx.item
  <2>1. /\ i \in intents /\ i \in Intents
        /\ HeadAt(i.surface) = BaseOf(i) \/ Applied(i)
    BY <1>0, <1>6 DEF Finish, AtStage, TxSound, IntentsSound, TypeOK
  <2>2. CASE ~Applied(i) /\ Replaceable(i) /\ pending' = pending \union {i} /\ ~OnlyTx
    <3>1. Projects(i)
      BY <1>6, <2>1, <2>2 DEF Finish, Project, Projects, Leave, bounds
    <3> QED
      BY <2>1, <3>1 DEF ContentStep
  <2> QED
    BY <1>2, <1>6, <2>2 DEF Finish, Leave
<1>7. ASSUME NEW f \in Files, CheckFile(f) PROVE ContentStep
  BY <1>2, <1>7 DEF CheckFile, Leave
<1>8. CASE RenameFile
  <2>1. tx.item \in pending /\ tx.item \in Intents /\ tx.file \in Files
    BY <1>0, <1>8 DEF RenameFile, AtStage, TxSound, TypeOK
  <2>2. Renames(tx.item, tx.file)
    BY <1>8, <2>1 DEF RenameFile, Renames, bounds
  <2> QED
    BY <2>1, <2>2 DEF ContentStep
<1>9. CASE Verify
  BY <1>2, <1>9 DEF Verify, Leave
<1>10. CASE WriteReceipt
  <2>1. tx.item \in pending /\ tx.item \in Intents
    BY <1>0, <1>10 DEF WriteReceipt, AtStage, TxSound, TypeOK
  <2>2. Receipts(tx.item)
    BY <1>10, <2>1 DEF WriteReceipt, Receipts, bounds
  <2> QED
    BY <2>1, <2>2 DEF ContentStep
<1>11. CASE DropPending
  <2>1. tx.item \in pending /\ tx.item \in Intents /\ tx.item \in receipts
    BY <1>0, <1>11 DEF DropPending, AtStage, TxSound, TypeOK
  <2>2. Drops(tx.item)
    BY <1>11, <2>1 DEF DropPending, Drops, bounds
  <2> QED
    BY <2>1, <2>2 DEF ContentStep
<1>12. CASE AppendApplied
  <2> DEFINE i == tx.item
  <2>1. /\ i \in intents /\ i \in Intents /\ pending = {} /\ i \in receipts
        /\ ~Applied(i)
    BY <1>0, <1>12 DEF AppendApplied, AtStage, TxSound, TypeOK
  <2>2. /\ Owned(i) /\ HeadAt(i.surface) = BaseOf(i) /\ ~Reserved(i.surface, i.run)
        /\ intents = {i}
    BY <2>1 DEF IntentsSound
  <2>3. Applies(i)
    BY <1>12, <2>1, <2>2 DEF AppendApplied, Applies, files, bounds
  <2> QED
    BY <2>1, <2>3 DEF ContentStep
<1>13. CASE UnlinkIntent
  <2>1. tx.item \in intents /\ tx.item \in Intents /\ Applied(tx.item) /\ pending = {}
    BY <1>0, <1>13 DEF UnlinkIntent, AtStage, TxSound, TypeOK
  <2>2. Unlinks(tx.item)
    BY <1>13, <2>1 DEF UnlinkIntent, Unlinks, bounds
  <2> QED
    BY <2>1, <2>2 DEF ContentStep
<1>14. ASSUME NEW op, Requested(op)
       PROVE  /\ tx # None /\ tx.request.op = op
              /\ intents = {} /\ pending = {}
  BY <1>14 DEF Requested, At, TxSound
<1>15. ASSUME NEW s \in Surfaces, Admit(s), intents = {}, pending = {}
       PROVE  ContentStep
  <2>1. Admits(s)
    BY <1>15 DEF Admit, Admits, files, bounds
  <2> QED
    BY <2>1 DEF ContentStep
<1>16. CASE BodyRecover
  BY <1>2, <1>16 DEF BodyRecover, Leave
<1>17. CASE BodyHead
  <2>1. tx # None /\ tx.request.op = "head" /\ intents = {} /\ pending = {}
    BY <1>14, <1>17 DEF BodyHead
  <2>2. tx.request.surface \in Surfaces
    BY <1>0, <2>1, RequestTypes
  <2> QED
    BY <1>2, <1>15, <1>17, <2>1, <2>2 DEF BodyHead, Leave
<1>18. CASE BodyRecord
  <2> DEFINE r == tx.request.run
             b == tx.request.batch
  <2>1. tx # None /\ tx.request.op = "record" /\ intents = {} /\ pending = {}
    BY <1>14, <1>18 DEF BodyRecord
  <2>2. r \in Runs /\ b \in Proposals
    BY <1>0, <2>1, RequestTypes DEF TxSound
  <2>3. CASE OnlyTx
    BY <1>2, <2>3
  <2>4. CASE ~OnlyTx
    <3>1. Records(r, b)
      BY <1>18, <2>1, <2>4 DEF BodyRecord, Records, Leave, files, bounds
    <3> QED
      BY <2>2, <3>1 DEF ContentStep
  <2> QED
    BY <2>3, <2>4
<1>19. CASE BodyApply
  <2> DEFINE i == tx.request.intent
  <2>1. tx # None /\ tx.request.op = "apply" /\ intents = {} /\ pending = {}
    BY <1>14, <1>19 DEF BodyApply
  <2>2. Owned(i) /\ i \in Intents
    BY <2>1 DEF TxSound, Owned
  <2>3. CASE OnlyTx
    BY <1>2, <2>3
  <2>4. CASE ~OnlyTx
    <3>1. Applies(i) \/ Intends(i)
      BY <1>19, <2>1, <2>2, <2>4
         DEF BodyApply, Applies, Intends, Leave, files, bounds
    <3> QED
      BY <2>2, <3>1 DEF ContentStep
  <2> QED
    BY <2>3, <2>4
<1>20. CASE BodyPublish
  <2> DEFINE s == tx.request.surface
             k == tx.request.key
  <2>1. tx # None /\ tx.request.op = "publish" /\ intents = {} /\ pending = {}
    BY <1>14, <1>20 DEF BodyPublish
  <2>2. s \in Surfaces /\ k \in Keys
    BY <1>0, <2>1, RequestTypes
  <2>3. CASE OnlyTx
    BY <1>2, <2>3
  <2>4. CASE Admit(s)
    BY <1>15, <2>1, <2>2, <2>4
  <2>5. CASE ~OnlyTx /\ ~Admit(s)
    <3>1. Publishes(s, k)
      BY <1>20, <2>1, <2>5 DEF BodyPublish, Publishes, Leave, files, bounds
    <3> QED
      BY <2>2, <3>1 DEF ContentStep
  <2> QED
    BY <2>3, <2>4, <2>5
<1>21. ASSUME NEW r \in Runs, SettleRun(r) \/ FailRun(r) PROVE ContentStep
  <2>1. Settles(r)
    BY <1>21 DEF SettleRun, FailRun, Settles, contentVars, files, bounds
  <2> QED
    BY <2>1 DEF ContentStep
<1>22. ASSUME NEW s \in Surfaces, NEW f \in Files, NEW c \in Contents, Edit(s, f, c)
       PROVE  ContentStep
  BY <1>22 DEF ContentStep
<1>23. CASE Abandon
  BY <1>1, <1>23 DEF Abandon
<1>24. CASE UNCHANGED vars
  BY <1>1, <1>24 DEF vars, contentVars, bounds
<1> QED
  BY <1>3, <1>4, <1>5, <1>6, <1>7, <1>8, <1>9, <1>10, <1>11, <1>12, <1>13, <1>16,
     <1>17, <1>18, <1>19, <1>20, <1>21, <1>22, <1>23, <1>24
     DEF Next, Step

-----------------------------------------------------------------------------
(***************************************************************************)
(* Histories.                                                               *)
(***************************************************************************)
\* What the constants are assumed to be, as the proofs use it.
LEMMA ContentConstants ==
  /\ Initial \in [Surfaces -> Revisions] /\ Candidates \subseteq Revisions
  /\ None \notin Revisions /\ None \notin Runs /\ None \notin Keys
  /\ None \notin Batches /\ Runs \intersect Keys = {}
  /\ Bound \in [Triggers -> SUBSET Surfaces]
BY ContentAssumption, BoundAreSurfaces

\* The head is the last revision, and there is one when there is a fact.
LEMMA HeadFacts ==
  ASSUME TypeOK, NEW s \in Surfaces
  PROVE  /\ history[s] \in Seq(Facts)
         /\ HeadAt(s) = None <=> history[s] = <<>>
         /\ HeadAt(s) # None =>
              /\ Len(history[s]) \in DOMAIN history[s]
              /\ HeadAt(s) = history[s][Len(history[s])].revision
              /\ HeadAt(s) \in Revisions
<1>1. history[s] \in Seq(Facts)
  BY DEF TypeOK
<1>2. CASE history[s] = <<>>
  BY <1>1, <1>2 DEF HeadAt, HeadOf
<1>3. CASE history[s] # <<>>
  <2>1. Len(history[s]) \in DOMAIN history[s]
    BY <1>1, <1>3
  <2>2. history[s][Len(history[s])] \in Facts
    BY <1>1, <2>1
  <2>3. history[s][Len(history[s])].revision \in Revisions
    BY <2>2 DEF Facts
  <2> QED
    BY <1>1, <1>3, <2>1, <2>3, ContentConstants DEF HeadAt, HeadOf
<1> QED
  BY <1>2, <1>3

\* A fact that is appended is the new head, and known from then on.
LEMMA AppendedFact ==
  ASSUME TypeOK, NEW s \in Surfaces, NEW fact \in Facts, AppendFact(s, fact)
  PROVE  /\ history' \in [Surfaces -> Seq(Facts)]
         /\ HeadAt(s)' = fact.revision
         /\ DOMAIN history[s] = 1..Len(history[s]) /\ Len(history[s]) \in Nat
         /\ DOMAIN history'[s] = DOMAIN history[s] \union {Len(history[s]) + 1}
         /\ \A n \in DOMAIN history[s] : history'[s][n] = history[s][n]
         /\ history'[s][Len(history[s]) + 1] = fact
         /\ history'[s] # <<>>
         /\ \A x \in Surfaces \ {s} :
              history'[x] = history[x] /\ HeadAt(x)' = HeadAt(x)
         /\ \A x \in Surfaces : \A id :
              Knows(x, id)' <=> Knows(x, id) \/ (x = s /\ id = fact.id)
<1>1. /\ history \in [Surfaces -> Seq(Facts)]
      /\ history' = [history EXCEPT ![s] = Append(@, fact)]
  BY DEF TypeOK, AppendFact
<1>2. /\ history' \in [Surfaces -> Seq(Facts)]
      /\ history'[s] = Append(history[s], fact)
      /\ history[s] \in Seq(Facts)
      /\ \A x \in Surfaces \ {s} : history'[x] = history[x]
  BY <1>1
<1>3. /\ DOMAIN history[s] = 1..Len(history[s]) /\ Len(history[s]) \in Nat
      /\ DOMAIN history'[s] = DOMAIN history[s] \union {Len(history[s]) + 1}
      /\ \A n \in DOMAIN history[s] : history'[s][n] = history[s][n]
      /\ history'[s][Len(history[s]) + 1] = fact
      /\ history'[s] # <<>> /\ Len(history'[s]) = Len(history[s]) + 1
  BY <1>2
<1>4. HeadAt(s)' = fact.revision
  BY <1>3 DEF HeadAt, HeadOf
<1>5. \A x \in Surfaces \ {s} : HeadAt(x)' = HeadAt(x)
  BY <1>2 DEF HeadAt
<1>6. ASSUME NEW x \in Surfaces, NEW id
      PROVE  Knows(x, id)' <=> Knows(x, id) \/ (x = s /\ id = fact.id)
  <2>1. CASE x = s
    <3>1. Len(history[s]) + 1 \in DOMAIN history'[s]
      BY <1>3
    <3> QED
      BY <1>3, <2>1, <3>1 DEF Knows
  <2>2. CASE x # s
    BY <1>2, <2>2 DEF Knows
  <2> QED
    BY <2>1, <2>2
<1> QED
  BY <1>2, <1>3, <1>4, <1>5, <1>6

\* The base and the candidate of an apply are revisions, of a surface.
LEMMA OwnedFacts ==
  ASSUME BatchesWhole, NEW i, Owned(i)
  PROVE  /\ i \in Intents /\ i.run \in Runs /\ i.surface \in Surfaces
         /\ BaseOf(i) \in Revisions /\ CandidateOf(i) \in Revisions
         /\ AppliedFact(i) \in Facts
         /\ AppliedFact(i).revision = CandidateOf(i)
         /\ AppliedFact(i).base = BaseOf(i) /\ AppliedFact(i).id = i.run
         /\ AppliedFact(i).kind = "applied"
<1>1. i \in Intents /\ i.run \in Runs /\ i.surface \in Surfaces
  BY DEF Owned, Intents
<1>2. batch[i.run] \in Proposals /\ i.surface \in Bound[batch[i.run].trigger]
  BY DEF Owned, BatchesWhole, Touches
<1>3. BaseOf(i) \in Revisions /\ CandidateOf(i) \in Revisions
  BY <1>2 DEF Proposals, BaseOf, CandidateOf
<1>4. /\ AppliedFact(i) \in Facts
      /\ AppliedFact(i).revision = CandidateOf(i)
      /\ AppliedFact(i).base = BaseOf(i) /\ AppliedFact(i).id = i.run
      /\ AppliedFact(i).kind = "applied"
  BY <1>1, <1>3 DEF AppliedFact, Fact, Facts, Kinds
<1> QED
  BY <1>1, <1>3, <1>4

\* The two facts that read a directory.
LEMMA ReadFacts ==
  ASSUME TypeOK, NEW s \in Surfaces
  PROVE  /\ work[s] \in Revisions
         /\ Fact("admitted", None, None, work[s]) \in Facts
         /\ Fact("admitted", None, None, work[s]).revision = work[s]
         /\ Fact("admitted", None, None, work[s]).id = None
         /\ \A k \in Keys :
              /\ Fact("published", k, HeadAt(s), work[s]) \in Facts
              /\ Fact("published", k, HeadAt(s), work[s]).revision = work[s]
              /\ Fact("published", k, HeadAt(s), work[s]).id = k
<1>1. work[s] \in Revisions
  BY DEF TypeOK
<1>2. HeadAt(s) \in Revisions \union {None}
  BY HeadFacts
<1> QED
  BY <1>1, <1>2 DEF Fact, Facts, Kinds

\* A step appends to one history, or to none.
LEMMA HistorySteps ==
  ASSUME ContentInv, ContentStep, history' # history
  PROVE  \/ \E i \in Intents : Applies(i)
         \/ \E s \in Surfaces : Admits(s) \/ \E k \in Keys : Publishes(s, k)
BY DEF ContentStep, Intends, Projects, Receipts, Drops, Unlinks, Renames, Settles,
       Records, Edit

\* The chain of bases and the ids of a history after one more fact.
LEMMA ChainGrows ==
  ASSUME ChainIntact, NEW s \in Surfaces, NEW fact \in Facts, AppendFact(s, fact),
         fact.base = HeadAt(s), fact.kind = "admitted" <=> HeadAt(s) = None,
         ~Knows(s, fact.id),
         NEW x \in Surfaces, NEW n \in DOMAIN history'[x]
  PROVE  /\ history'[x][n].base =
              IF n = 1 THEN None ELSE history'[x][n - 1].revision
         /\ history'[x][n].kind = "admitted" <=> n = 1
         /\ \A m \in DOMAIN history'[x] :
              history'[x][m].id = history'[x][n].id => m = n
<1> DEFINE len == Len(history[s])
<1>0. TypeOK
  BY DEF ChainIntact
<1>1. /\ DOMAIN history[s] = 1..len /\ len \in Nat
      /\ DOMAIN history'[s] = DOMAIN history[s] \union {len + 1}
      /\ \A m \in DOMAIN history[s] : history'[s][m] = history[s][m]
      /\ history'[s][len + 1] = fact
      /\ \A y \in Surfaces \ {s} : history'[y] = history[y]
  BY <1>0, AppendedFact
<1>2. ASSUME NEW y \in Surfaces, NEW m \in DOMAIN history[y]
      PROVE  /\ history[y][m].base =
                  IF m = 1 THEN None ELSE history[y][m - 1].revision
             /\ history[y][m].kind = "admitted" <=> m = 1
             /\ \A k \in DOMAIN history[y] :
                  history[y][k].id = history[y][m].id => k = m
  BY DEF ChainIntact
<1>3. CASE x # s
  BY <1>1, <1>2, <1>3
<1>4. CASE x = s /\ n \in DOMAIN history[s]
  <2>1. n = 1 \/ n - 1 \in DOMAIN history[s]
    BY <1>1, <1>4
  <2>2. \A m \in DOMAIN history[s] : history[s][m].id # fact.id
    BY DEF Knows
  <2> QED
    BY <1>1, <1>2, <1>4, <2>1, <2>2
<1>5. CASE x = s /\ n = len + 1
  <2>1. \A m \in DOMAIN history[s] : history[s][m].id # fact.id
    BY DEF Knows
  <2>2. \A m \in DOMAIN history'[s] : history'[s][m].id = fact.id => m = n
    BY <1>1, <1>5, <2>1
  <2>3. CASE HeadAt(s) = None
    <3>1. len = 0
      BY <1>0, <2>3, HeadFacts
    <3> QED
      BY <1>1, <1>5, <2>2, <2>3, <3>1
  <2>4. CASE HeadAt(s) # None
    <3>1. len \in DOMAIN history[s] /\ HeadAt(s) = history[s][len].revision
      BY <1>0, <2>4, HeadFacts
    <3>2. n - 1 = len /\ n # 1
      BY <1>1, <1>5, <3>1
    <3> QED
      BY <1>1, <1>5, <2>2, <2>4, <3>1, <3>2
  <2> QED
    BY <2>3, <2>4
<1> QED
  BY <1>1, <1>3, <1>4, <1>5

\* Every fact is based on the fact before it, and no operation leaves two.
LEMMA ChainStep ==
  ASSUME ContentInv, ContentStep
  PROVE  /\ history' \in [Surfaces -> Seq(Facts)]
         /\ TypeOK' => ChainIntact'
<1>0. TypeOK /\ ChainIntact /\ BatchesWhole
  BY DEF ContentInv, ChainIntact
<1> DEFINE Grows ==
             \E s \in Surfaces, fact \in Facts :
               /\ AppendFact(s, fact) /\ ~Knows(s, fact.id)
               /\ fact.base = HeadAt(s)
               /\ fact.kind = "admitted" <=> HeadAt(s) = None
<1>1. ASSUME Grows
      PROVE  history' \in [Surfaces -> Seq(Facts)] /\ (TypeOK' => ChainIntact')
  <2>1. PICK s \in Surfaces, fact \in Facts :
          /\ AppendFact(s, fact) /\ ~Knows(s, fact.id)
          /\ fact.base = HeadAt(s)
          /\ fact.kind = "admitted" <=> HeadAt(s) = None
    BY <1>1
  <2>2. history' \in [Surfaces -> Seq(Facts)]
    BY <1>0, <2>1, AppendedFact
  <2>3. ASSUME NEW x \in Surfaces, NEW n \in DOMAIN history'[x]
        PROVE  /\ history'[x][n].base =
                    IF n = 1 THEN None ELSE history'[x][n - 1].revision
               /\ history'[x][n].kind = "admitted" <=> n = 1
               /\ \A m \in DOMAIN history'[x] :
                    history'[x][m].id = history'[x][n].id => m = n
    BY <1>0, <2>1, ChainGrows
  <2> QED
    BY <2>2, <2>3 DEF ChainIntact
<1>2. CASE history' = history
  BY <1>0, <1>2 DEF ChainIntact, TypeOK
<1>3. ASSUME NEW i \in Intents, Applies(i) PROVE Grows
  <2>1. /\ i.surface \in Surfaces /\ BaseOf(i) \in Revisions
        /\ AppliedFact(i) \in Facts
        /\ AppliedFact(i).base = BaseOf(i) /\ AppliedFact(i).id = i.run
        /\ AppliedFact(i).kind = "applied"
    BY <1>0, <1>3, OwnedFacts DEF Applies
  <2>2. BaseOf(i) # None
    BY <2>1, ContentConstants
  <2> QED
    BY <1>3, <2>1, <2>2 DEF Applies, Applied
<1>4. ASSUME NEW s \in Surfaces, Admits(s) PROVE Grows
  <2> DEFINE fact == Fact("admitted", None, None, work[s])
  <2>1. fact \in Facts /\ fact.base = None /\ fact.kind = "admitted"
    BY <1>0, ReadFacts DEF Fact
  <2>2. history[s] = <<>> /\ DOMAIN history[s] = {}
    BY <1>0, <1>4, HeadFacts DEF Admits
  <2>3. ~Knows(s, fact.id)
    BY <2>2 DEF Knows
  <2> HIDE DEF fact
  <2>4. AppendFact(s, fact) /\ HeadAt(s) = None
    BY <1>4 DEF Admits, fact
  <2> QED
    BY <2>1, <2>3, <2>4
<1>5. ASSUME NEW s \in Surfaces, NEW k \in Keys, Publishes(s, k) PROVE Grows
  <2> DEFINE fact == Fact("published", k, HeadAt(s), work[s])
  <2>1. /\ fact \in Facts /\ fact.base = HeadAt(s) /\ fact.kind = "published"
        /\ fact.id = k
    BY <1>0, ReadFacts DEF Fact
  <2> HIDE DEF fact
  <2>2. AppendFact(s, fact) /\ HeadAt(s) # None /\ ~Knows(s, k)
    BY <1>5 DEF Publishes, fact
  <2> QED
    BY <2>1, <2>2
<1> QED
  BY <1>1, <1>2, <1>3, <1>4, <1>5, HistorySteps

-----------------------------------------------------------------------------
(***************************************************************************)
(* Ledger, intents and files.                                               *)
(***************************************************************************)
\* A fact that is known stays known.
LEMMA KnownStays ==
  ASSUME ContentInv, ContentStep
  PROVE  \A s \in Surfaces : \A id : Knows(s, id) => Knows(s, id)'
<1>1. TypeOK /\ BatchesWhole
  BY DEF ContentInv, ChainIntact
<1>2. ASSUME NEW s \in Surfaces, NEW fact \in Facts, AppendFact(s, fact)
      PROVE  \A x \in Surfaces : \A id : Knows(x, id) => Knows(x, id)'
  BY <1>1, <1>2, AppendedFact
<1>3. CASE history' = history
  BY <1>3 DEF Knows
<1>4. CASE \E j \in Intents : Applies(j)
  BY <1>1, <1>2, <1>4, OwnedFacts DEF Applies
<1>5. CASE \E s \in Surfaces : Admits(s) \/ \E k \in Keys : Publishes(s, k)
  BY <1>1, <1>2, <1>5, ReadFacts DEF Admits, Publishes
<1> QED
  BY <1>3, <1>4, <1>5, HistorySteps

\* A batch that is recorded stays what it is, and so do its applies.
LEMMA OwnedStays ==
  ASSUME ContentInv, ContentStep
  PROVE  /\ \A q \in Recorded : /\ q \in Recorded' /\ batch'[q] = batch[q]
                              /\ Touches(q)' = Touches(q)
         /\ \A i : Owned(i) =>
              /\ Owned(i)' /\ BaseOf(i)' = BaseOf(i)
              /\ CandidateOf(i)' = CandidateOf(i)
              /\ Applied(i) => Applied(i)'
<1>1. ASSUME NEW q \in Recorded
      PROVE  q \in Recorded' /\ batch'[q] = batch[q] /\ Touches(q)' = Touches(q)
  <2>1. ASSUME NEW r \in Runs, NEW b \in Proposals, Records(r, b)
        PROVE  batch'[q] = batch[q]
    <3>1. batch[r] = None /\ batch' = [batch EXCEPT ![r] = b]
      BY <2>1 DEF Records, Record
    <3> QED
      BY <3>1 DEF Recorded
  <2>2. CASE batch' = batch
    BY <2>2 DEF Recorded, Touches
  <2>3. CASE batch'[q] = batch[q]
    BY <2>3 DEF Recorded, Touches
  <2> QED
    BY <2>1, <2>2, <2>3
       DEF ContentStep, Applies, Intends, Projects, Receipts, Drops, Unlinks,
           Renames, Admits, Publishes, Settles, Settle, SettleFailed, Edit,
           ledgerVars
<1>2. ASSUME NEW i, Owned(i)
      PROVE  /\ Owned(i)' /\ BaseOf(i)' = BaseOf(i)
             /\ CandidateOf(i)' = CandidateOf(i)
             /\ Applied(i) => Applied(i)'
  <2>1. i \in Intents /\ i.run \in Recorded /\ i.surface \in Touches(i.run)
    BY <1>2 DEF Owned
  <2>2. /\ i.run \in Recorded' /\ batch'[i.run] = batch[i.run]
        /\ i.surface \in Touches(i.run)'
    BY <1>1, <2>1
  <2>3. \A s \in Surfaces : \A id : Knows(s, id) => Knows(s, id)'
    BY KnownStays
  <2>4. i.surface \in Surfaces
    BY <2>1 DEF Intents
  <2>5. Applied(i) => Applied(i)'
    BY <2>3, <2>4 DEF Applied
  <2> QED
    BY <2>1, <2>2, <2>5 DEF Owned, BaseOf, CandidateOf
<1> QED
  BY <1>1, <1>2

\* A batch that is new after a step was proposed to it whole.
LEMMA NewBatch ==
  ASSUME ContentInv, NEW r \in Runs, NEW b \in Proposals, Records(r, b)
  PROVE  /\ r \notin Recorded /\ r \notin Pending
         /\ batch' = [batch EXCEPT ![r] = b] /\ batch'[r] = b /\ b # None
         /\ Recorded' = Recorded \union {r}
         /\ Pending' \subseteq Pending \union {r}
         /\ Touches(r)' = Bound[b.trigger] /\ Bound[b.trigger] \subseteq Surfaces
         /\ \A q \in Pending : Touches(q) \intersect Bound[b.trigger] = {}
         /\ b.trigger \in Triggers /\ UNCHANGED <<settled, failed>>
<1>1. /\ batch[r] = None /\ batch' = [batch EXCEPT ![r] = b] /\ CanRecord(b)
      /\ UNCHANGED <<settled, failed>>
  BY DEF Records, Record
<1>2. DOMAIN batch = Runs
  BY DEF ContentInv, ChainIntact, TypeOK
<1>3. b \in Batches /\ b # None /\ b.trigger \in Triggers
  <2>1. b \in Batches
    BY DEF Proposals
  <2> QED
    BY <2>1, ContentConstants DEF Batches
<1>4. Recorded' = Recorded \union {r} /\ r \notin Recorded
  BY <1>1, <1>2, <1>3 DEF Recorded
<1>5. Bound[b.trigger] \subseteq Surfaces
  BY <1>3, ContentConstants
<1> QED
  BY <1>1, <1>2, <1>3, <1>4, <1>5 DEF Pending, Touches, CanRecord

\* record refuses what is not whole and what another pending run holds.
LEMMA LedgerStep ==
  ASSUME ContentInv, ContentStep
  PROVE  BatchesWhole' /\ PendingApart'
<1>1. ASSUME NEW r \in Runs, NEW b \in Proposals, Records(r, b)
      PROVE  BatchesWhole' /\ PendingApart'
  <2>1. \A q \in Recorded : q # r /\ batch'[q] = batch[q] /\ Touches(q)' = Touches(q)
    BY <1>1, NewBatch, OwnedStays
  <2>2. BatchesWhole'
    BY <1>1, <2>1, NewBatch DEF ContentInv, BatchesWhole
  <2>3. \A q \in Pending : q \in Recorded
    BY DEF Pending
  <2>4. PendingApart'
    BY <1>1, <2>1, <2>3, NewBatch DEF ContentInv, PendingApart
  <2> QED
    BY <2>2, <2>4
<1>2. ASSUME batch' = batch, settled \subseteq settled', failed \subseteq failed'
      PROVE  BatchesWhole' /\ PendingApart'
  BY <1>2 DEF ContentInv, BatchesWhole, PendingApart, Recorded, Pending, Touches
<1> QED
  BY <1>1, <1>2
     DEF ContentStep, Applies, Intends, Projects, Receipts, Drops, Unlinks, Renames,
         Admits, Publishes, Settles, Settle, SettleFailed, Edit, ledgerVars

\* Reservations are let go and never taken, but by a new batch.
LEMMA ReservedShrinks ==
  ASSUME ContentInv, batch' = batch, settled \subseteq settled', failed \subseteq failed'
  PROVE  \A s, owner : Reserved(s, owner)' => Reserved(s, owner)
BY DEF Reserved, Pending, Recorded, Touches

\* Nobody moves the surface of an interrupted apply before its fact is there.
LEMMA IntentsStep ==
  ASSUME ContentInv, ContentStep
  PROVE  IntentsSound'
<1>0. TypeOK /\ BatchesWhole /\ IntentsSound
  BY DEF ContentInv, ChainIntact
<1> DEFINE Alone == \A i, j \in intents : i = j
           Sound(i) ==
             /\ Owned(i)
             /\ i \in pending => ~Applied(i)
             /\ ~Applied(i) => /\ HeadAt(i.surface) = BaseOf(i)
                               /\ ~Reserved(i.surface, i.run)
             /\ Applied(i) => HeadAt(i.surface) = CandidateOf(i) /\ i \in receipts
           Used == \A i \in receipts : i \in intents \/ Applied(i)
<1>2. /\ Alone /\ pending \subseteq intents /\ \A i \in intents : Sound(i)
      /\ Used
  BY <1>0 DEF IntentsSound
<1>3. CASE UNCHANGED <<ledgerVars, history, intents, pending, receipts>>
  BY <1>0, <1>3
     DEF IntentsSound, Owned, Recorded, Touches, Applied, HeadAt, Knows, BaseOf,
         CandidateOf, Reserved, Pending, ledgerVars
<1>4. ASSUME NEW r \in Runs, Settles(r) PROVE IntentsSound'
  <2>1. /\ batch' = batch /\ settled \subseteq settled' /\ failed \subseteq failed'
        /\ UNCHANGED <<history, intents, pending, receipts>>
    BY <1>4 DEF Settles, Settle, SettleFailed, files
  <2>2. \A s, owner : Reserved(s, owner)' => Reserved(s, owner)
    BY <2>1, ReservedShrinks
  <2> QED
    BY <1>0, <2>1, <2>2
       DEF IntentsSound, Owned, Recorded, Touches, Applied, HeadAt, Knows, BaseOf,
           CandidateOf
<1>5. ASSUME intents = {}, intents' = {}, pending' = pending, receipts' = receipts
      PROVE  IntentsSound'
  <2>1. \A i \in receipts : Applied(i)
    BY <1>2, <1>5
  <2>2. \A i \in receipts : Applied(i)'
    <3>1. \A i \in receipts : i.surface \in Surfaces
      BY <1>0 DEF TypeOK, Intents
    <3> QED
      BY <2>1, <3>1, KnownStays DEF Applied
  <2> QED
    BY <1>2, <1>5, <2>2 DEF IntentsSound
<1>6. ASSUME NEW i \in Intents, Applies(i), intents = {i} PROVE IntentsSound'
  <2>1. /\ Owned(i) /\ pending = {} /\ i \in receipts
        /\ UNCHANGED <<ledgerVars, intents, pending, receipts>>
        /\ AppendFact(i.surface, AppliedFact(i))
    BY <1>6 DEF Applies, files
  <2>2. /\ HeadAt(i.surface)' = CandidateOf(i)
        /\ \A x \in Surfaces : \A id : Knows(x, id) => Knows(x, id)'
        /\ Knows(i.surface, i.run)'
    BY <1>0, <2>1, OwnedFacts, AppendedFact
  <2>3. Owned(i)' /\ CandidateOf(i)' = CandidateOf(i)
    BY <2>1, OwnedStays
  <2>4. \A j \in receipts : j.surface \in Surfaces
    BY <1>0 DEF TypeOK, Intents
  <2> QED
    BY <1>2, <1>6, <2>1, <2>2, <2>3, <2>4 DEF IntentsSound, Applied
<1>7. ASSUME NEW i \in Intents, Intends(i) PROVE IntentsSound'
  <2>1. /\ intents = {} /\ pending = {} /\ Owned(i) /\ ~Applied(i)
        /\ HeadAt(i.surface) = BaseOf(i) /\ ~Reserved(i.surface, i.run)
        /\ intents' = {i} /\ UNCHANGED <<ledgerVars, history, pending, receipts>>
    BY <1>7 DEF Intends
  <2> QED
    BY <1>2, <2>1
       DEF IntentsSound, Owned, Recorded, Touches, Applied, HeadAt, Knows, BaseOf,
           CandidateOf, Reserved, Pending, ledgerVars
<1>8. ASSUME NEW i \in Intents, Projects(i) \/ Receipts(i) \/ Drops(i)
      PROVE  IntentsSound'
  <2>1. /\ UNCHANGED <<ledgerVars, history, intents>>
        /\ \/ /\ i \in intents /\ ~Applied(i)
              /\ pending' = pending \union {i} /\ receipts' = receipts
           \/ i \in pending /\ pending' = pending /\ receipts' = receipts \union {i}
           \/ pending' = pending \ {i} /\ receipts' = receipts
    BY <1>8 DEF Projects, Receipts, Drops
  <2>2. /\ pending' \subseteq intents'
        /\ \A j \in pending' : j \in pending \/ ~Applied(j)
        /\ receipts \subseteq receipts' /\ receipts' \subseteq receipts \union intents
    BY <1>2, <2>1
  <2> QED
    BY <1>2, <2>1, <2>2
       DEF IntentsSound, Owned, Recorded, Touches, Applied, HeadAt, Knows, BaseOf,
           CandidateOf, Reserved, Pending, ledgerVars
<1>9. ASSUME NEW i \in Intents, Unlinks(i) PROVE IntentsSound'
  <2>1. /\ i \in intents /\ Applied(i) /\ pending = {} /\ intents' = {}
        /\ UNCHANGED <<ledgerVars, history, pending, receipts>>
    BY <1>2, <1>9 DEF Unlinks
  <2> QED
    BY <1>2, <2>1 DEF IntentsSound, Applied, Knows
<1> HIDE DEF Alone, Used, Sound
<1> QED
  BY <1>3, <1>4, <1>5, <1>6, <1>7, <1>8, <1>9
     DEF ContentStep, Applies, Admits, Publishes, Records, Renames, Edit, files

-----------------------------------------------------------------------------
(***************************************************************************)
(* The transaction.                                                         *)
(***************************************************************************)
\* A transaction begins with the locked recoveries, and asks for what was read in
\* earlier ones.
LEMMA BeginStep ==
  ASSUME ContentInv, BeginTransaction
  PROVE  tx' \in Transactions \union {None} /\ TxSound'
<1>0. TypeOK
  BY DEF ContentInv, ChainIntact
<1>1. ASSUME NEW request \in Requests, Begin(request),
             request.op = "record" => request.batch \in Proposals,
             request.op = "apply" => Owned(request.intent)
      PROVE  tx' \in Transactions \union {None} /\ TxSound'
  <2>1. tx' = [request |-> request, caller |-> "workspace", at |-> "start",
               item |-> None, todo |-> {}, file |-> None]
    BY <1>1 DEF Begin
  <2>2. tx' \in Transactions
    BY <2>1 DEF Transactions, Callers, Stages
  <2>3. request.op = "apply" => Owned(request.intent)'
    BY <1>1 DEF Begin, OnlyTx, Owned, Recorded, Touches, ledgerVars
  <2> QED
    BY <1>1, <2>1, <2>2, <2>3 DEF TxSound
<1>2. CASE BeginRecover
  BY <1>1, <1>2 DEF BeginRecover, Requests
<1>3. CASE \E s \in Surfaces : BeginHead(s)
  BY <1>1, <1>3 DEF BeginHead, Requests
<1>4. ASSUME NEW r \in Runs, NEW t \in Triggers, BeginRecord(r, t)
      PROVE  tx' \in Transactions \union {None} /\ TxSound'
  <2> DEFINE total(f, g) == [s \in Surfaces |->
                               IF s \in DOMAIN f THEN f[s]
                               ELSE IF s \in DOMAIN g THEN g[s] ELSE None]
  <2>0. Bound[t] \subseteq Surfaces /\ Candidates \subseteq Revisions
    BY ContentConstants
  <2>1. PICK base \in [Bound[t] -> UNION {Known(s) : s \in Bound[t]}],
             edits \in SUBSET Bound[t] :
          \E candidate \in [edits -> Candidates] :
            Begin([op |-> "record", run |-> r,
                   batch |-> [trigger |-> t, base |-> total(base, base),
                              candidate |-> total(candidate, base)]])
    BY <1>4 DEF BeginRecord
  <2>2. PICK candidate \in [edits -> Candidates] :
          Begin([op |-> "record", run |-> r,
                 batch |-> [trigger |-> t, base |-> total(base, base),
                            candidate |-> total(candidate, base)]])
    BY <2>1
  <2>3. \A s \in Surfaces : Known(s) \subseteq Revisions
    <3>1. \A s \in Surfaces : \A n \in DOMAIN history[s] : history[s][n] \in Facts
      BY <1>0 DEF TypeOK
    <3> QED
      BY <3>1 DEF Known, Facts
  <2>4. \A s \in Bound[t] : base[s] \in Revisions
    BY <2>0, <2>3
  <2>5. /\ total(base, base) \in [Surfaces -> Revisions \union {None}]
        /\ total(candidate, base) \in [Surfaces -> Candidates \union Revisions \union {None}]
        /\ \A s \in Bound[t] : /\ total(base, base)[s] \in Revisions
                              /\ total(candidate, base)[s] \in Revisions
    BY <2>0, <2>4
  <2> HIDE DEF total
  <2> DEFINE b == [trigger |-> t, base |-> total(base, base),
                   candidate |-> total(candidate, base)]
  <2>6. b \in Batches
    BY <2>5 DEF Batches
  <2>7. b \in Proposals
    BY <2>5, <2>6 DEF Proposals
  <2> HIDE DEF b
  <2> DEFINE request == [op |-> "record", run |-> r, batch |-> b]
  <2>8. request \in Requests /\ request.op = "record" /\ request.batch = b
    BY <2>6 DEF Requests
  <2>9. Begin(request)
    BY <2>2 DEF b
  <2> HIDE DEF request
  <2> QED
    BY <1>1, <2>7, <2>8, <2>9
<1>5. ASSUME NEW i \in Intents, BeginApply(i)
      PROVE  tx' \in Transactions \union {None} /\ TxSound'
  <2> DEFINE request == [op |-> "apply", intent |-> i]
  <2>1. request \in Requests /\ request.op = "apply" /\ request.intent = i
    BY DEF Requests
  <2>2. Begin(request) /\ Owned(i)
    BY <1>5 DEF BeginApply, Owned, Pending
  <2> HIDE DEF request
  <2> QED
    BY <1>1, <2>1, <2>2
<1>6. ASSUME NEW k \in Keys, NEW s \in Surfaces, BeginPublish(k, s)
      PROVE  tx' \in Transactions \union {None} /\ TxSound'
  <2>1. PICK expected \in Known(s) \union {None} :
          Begin([op |-> "publish", key |-> k, surface |-> s, expected |-> expected])
    BY <1>6 DEF BeginPublish
  <2>2. expected \in Revisions \union {None}
    <3>1. \A n \in DOMAIN history[s] : history[s][n] \in Facts
      BY <1>0 DEF TypeOK
    <3> QED
      BY <3>1 DEF Known, Facts
  <2>3. [op |-> "publish", key |-> k, surface |-> s, expected |-> expected] \in Requests
    BY <2>2 DEF Requests
  <2> QED
    BY <1>1, <2>1, <2>3
<1> QED
  BY <1>2, <1>3, <1>4, <1>5, <1>6 DEF BeginTransaction

\* The transaction comes to every stage with what the stage relies on.
LEMMA TxStep ==
  ASSUME ContentInv, [Next]_vars
  PROVE  tx' \in Transactions \union {None} /\ TxSound'
<1>0. TypeOK /\ BatchesWhole /\ TxSound /\ IntentsSound
  BY DEF ContentInv, ChainIntact
<1>1. /\ pending \subseteq intents /\ intents \subseteq Intents
      /\ \A i, j \in intents : i = j
      /\ \A i \in pending : ~Applied(i)
  BY <1>0 DEF TypeOK, IntentsSound
<1>2. ContentStep
  BY StepsAreContent
<1> DEFINE Good ==
             tx # None =>
               /\ tx.at = "start" /\ tx.caller # "workspace" => pending = {}
               /\ tx.at = "start" /\ tx.caller = "body" => intents = {}
               /\ tx.at \in {"project", "rename", "receipt", "drop"} => tx.item \in pending
               /\ tx.at \in {"finish", "append", "unlink"} =>
                    tx.item \in intents /\ pending = {} /\ tx.caller # "workspace"
               /\ tx.at = "rename" => tx.file \in Files
               /\ tx.at \in {"drop", "append"} => tx.item \in receipts
               /\ tx.at = "append" => ~Applied(tx.item)
               /\ tx.at = "unlink" => Applied(tx.item)
           Typed == tx \in Transactions \union {None}
<1>3. Good /\ Typed
  BY <1>0 DEF TxSound, TypeOK
<1>4. ASSUME Good', Typed', tx' = None \/ (tx # None /\ tx'.request = tx.request)
      PROVE  tx' \in Transactions \union {None} /\ TxSound'
  <2>1. ASSUME tx # None, tx' # None, tx'.request = tx.request
        PROVE  TxSound'
    <3>1. tx'.request.op = "record" => tx'.request.batch \in Proposals
      BY <1>0, <2>1 DEF TxSound
    <3>2. CASE tx'.request.op = "apply"
      <4>1. PICK i : i = tx'.request.intent
        OBVIOUS
      <4>2. Owned(i)
        BY <1>0, <2>1, <3>2, <4>1 DEF TxSound
      <4>3. Owned(i)'
        BY <1>2, <4>2, OwnedStays
      <4> QED
        BY <1>4, <2>1, <3>1, <4>1, <4>3 DEF TxSound
    <3>3. CASE tx'.request.op # "apply"
      BY <1>4, <2>1, <3>1, <3>3 DEF TxSound
    <3> QED
      BY <3>2, <3>3
  <2> QED
    BY <1>4, <2>1 DEF TxSound
<1>5. ASSUME tx' = None PROVE tx' \in Transactions \union {None} /\ TxSound'
  BY <1>5 DEF TxSound
<1>6. ASSUME tx' = tx, UNCHANGED <<history, intents, pending, receipts>>
      PROVE  tx' \in Transactions \union {None} /\ TxSound'
  <2>1. Good' /\ Typed'
    BY <1>3, <1>6 DEF Applied, Knows
  <2> QED
    BY <1>3, <1>4, <1>5, <1>6, <2>1
<1>7. ASSUME NEW i \in Intents, NEW c \in Callers, tx # None,
             tx' = [tx EXCEPT !.caller = c, !.at = "project", !.item = i,
                              !.todo = Delta(i)],
             pending' = pending \union {i}, receipts' = receipts
      PROVE  tx' \in Transactions \union {None} /\ TxSound'
  <2>1. Delta(i) \subseteq Files
    BY DEF Delta
  <2>2. /\ tx' \in Transactions /\ tx'.request = tx.request
        /\ tx'.at = "project" /\ tx'.item = i
    BY <1>3, <1>7, <2>1 DEF Transactions, Stages
  <2> QED
    BY <1>4, <1>7, <2>2
<1>8. CASE RecoverWorkspace
  <2>1. CASE pending = {} /\ Go("intents", "start") /\ OnlyTx
    <3>1. /\ tx # None /\ tx' \in Transactions /\ tx'.request = tx.request
          /\ tx'.at = "start" /\ tx'.caller = "intents"
      BY <1>3, <1>8, <2>1 DEF RecoverWorkspace, At, Go, Transactions, Stages, Callers
    <3> QED
      BY <1>4, <2>1, <3>1 DEF OnlyTx
  <2>2. CASE \E i \in pending : Project(i, "workspace") /\ UNCHANGED pending
    <3>1. PICK i \in pending : Project(i, "workspace") /\ UNCHANGED pending
      BY <2>2
    <3>2. i \in Intents /\ pending' = pending \union {i}
      BY <1>1, <3>1
    <3> QED
      BY <1>7, <1>8, <3>1, <3>2 DEF RecoverWorkspace, At, Project, Callers
  <2> QED
    BY <1>5, <1>8, <2>1, <2>2 DEF RecoverWorkspace, Leave, End
<1>9. CASE RecoverIntents
  <2>0. tx # None /\ tx.at = "start" /\ tx.caller = "intents" /\ pending = {}
    BY <1>3, <1>9 DEF RecoverIntents, At
  <2>1. CASE intents = {}
    <3>1. /\ tx' \in Transactions /\ tx'.request = tx.request
          /\ tx'.at = "start" /\ tx'.caller = "body"
      BY <1>3, <1>9, <2>0, <2>1 DEF RecoverIntents, Transactions, Callers
    <3> QED
      BY <1>4, <1>9, <2>0, <2>1, <3>1 DEF RecoverIntents, OnlyTx
  <2>2. CASE intents # {}
    <3> DEFINE i == CHOOSE i \in intents : TRUE
    <3>1. i \in intents /\ i \in Intents
      BY <1>1, <2>2
    <3>2. tx' = [tx EXCEPT !.at = "finish", !.item = i]
      BY <1>9, <2>2 DEF RecoverIntents
    <3> HIDE DEF i
    <3>3. /\ tx' \in Transactions /\ tx'.request = tx.request
          /\ tx'.at = "finish" /\ tx'.caller = "intents" /\ tx'.item = i
      BY <1>3, <2>0, <3>1, <3>2 DEF Transactions, Stages
    <3> QED
      BY <1>4, <1>9, <2>0, <3>1, <3>3 DEF RecoverIntents, OnlyTx
  <2> QED
    BY <2>1, <2>2
<1>10. CASE Finish
  <2>1. /\ tx # None /\ tx.item \in intents /\ tx.item \in Intents /\ pending = {}
        /\ tx.caller # "workspace" /\ tx.caller \in Callers
    BY <1>1, <1>3, <1>10 DEF Finish, AtStage, Transactions
  <2>2. PICK i \in intents : i = tx.item
    BY <2>1
  <2>3. /\ tx # None /\ i \in intents /\ i \in Intents /\ pending = {}
        /\ tx.caller # "workspace" /\ tx.caller \in Callers /\ i = tx.item
    BY <2>2, <2>1
  <2>4. CASE Applied(i) /\ GoTo("unlink") /\ OnlyTx
    <3>1. /\ tx' \in Transactions /\ tx'.request = tx.request
          /\ tx'.at = "unlink" /\ tx'.item = i /\ tx'.caller = tx.caller
      BY <1>3, <2>3, <2>4 DEF GoTo, Transactions, Stages
    <3>2. Applied(i)'
      BY <2>4 DEF OnlyTx, Applied, Knows
    <3> QED
      BY <1>4, <2>3, <2>4, <3>1, <3>2 DEF OnlyTx
  <2>5. CASE ~Applied(i) /\ i \in receipts /\ GoTo("append") /\ OnlyTx
    <3>1. /\ tx' \in Transactions /\ tx'.request = tx.request
          /\ tx'.at = "append" /\ tx'.item = i /\ tx'.caller = tx.caller
      BY <1>3, <2>3, <2>5 DEF GoTo, Transactions, Stages
    <3>2. ~Applied(i)'
      BY <2>5 DEF OnlyTx, Applied, Knows
    <3> QED
      BY <1>4, <2>3, <2>5, <3>1, <3>2 DEF OnlyTx
  <2>6. CASE pending' = pending \union {i} /\ Project(i, tx.caller)
    BY <1>7, <2>3, <2>6 DEF Project
  <2> QED
    BY <1>5, <1>10, <2>3, <2>4, <2>5, <2>6 DEF Finish, Leave, End
<1>11. ASSUME NEW f \in Files, CheckFile(f)
       PROVE  tx' \in Transactions \union {None} /\ TxSound'
  <2>0. tx # None /\ tx.at = "project" /\ tx.item \in pending
    BY <1>3, <1>11 DEF CheckFile, AtStage
  <2>1. CASE Leave
    BY <1>5, <2>1 DEF Leave, End
  <2>2. CASE ~Leave
    <3>1. OnlyTx /\ \/ tx' = [tx EXCEPT !.todo = @ \ {f}]
                    \/ tx' = [tx EXCEPT !.todo = @ \ {f}, !.at = "rename", !.file = f]
      BY <1>11, <2>2 DEF CheckFile
    <3>2. /\ tx' \in Transactions /\ tx'.request = tx.request
          /\ tx'.item = tx.item
          /\ tx'.at = "project" \/ (tx'.at = "rename" /\ tx'.file = f)
      BY <1>3, <2>0, <3>1 DEF Transactions, Stages
    <3> QED
      BY <1>4, <2>0, <3>1, <3>2 DEF OnlyTx
  <2> QED
    BY <2>1, <2>2
<1>12. CASE RenameFile
  <2>1. /\ tx # None /\ tx.item \in pending
        /\ tx' \in Transactions /\ tx'.request = tx.request
        /\ tx'.item = tx.item /\ tx'.at = "project"
    BY <1>3, <1>12 DEF RenameFile, AtStage, Transactions, Stages
  <2> QED
    BY <1>4, <1>12, <2>1 DEF RenameFile
<1>13. CASE Verify
  <2>1. CASE Leave
    BY <1>5, <2>1 DEF Leave, End
  <2>2. CASE ~Leave
    <3>1. /\ tx # None /\ tx.item \in pending /\ OnlyTx
          /\ tx' \in Transactions /\ tx'.request = tx.request
          /\ tx'.item = tx.item /\ tx'.at = "receipt"
      BY <1>3, <1>13, <2>2 DEF Verify, AtStage, GoTo, Transactions, Stages
    <3> QED
      BY <1>4, <3>1 DEF OnlyTx
  <2> QED
    BY <2>1, <2>2
<1>14. CASE WriteReceipt
  <2>1. /\ tx # None /\ tx.item \in pending
        /\ tx' \in Transactions /\ tx'.request = tx.request
        /\ tx'.item = tx.item /\ tx'.at = "drop"
    BY <1>3, <1>14 DEF WriteReceipt, AtStage, GoTo, Transactions, Stages
  <2> QED
    BY <1>4, <1>14, <2>1 DEF WriteReceipt
<1>15. CASE DropPending
  <2>0. /\ tx # None /\ tx.item \in pending /\ tx.item \in receipts
        /\ ~Applied(tx.item) /\ tx.item \in intents
        /\ pending' = {} /\ UNCHANGED <<history, intents, receipts>>
    BY <1>1, <1>3, <1>15 DEF DropPending, AtStage
  <2>1. CASE tx.caller = "workspace"
    <3>1. /\ tx' \in Transactions /\ tx'.request = tx.request
          /\ tx'.at = "start" /\ tx'.caller = "workspace"
      BY <1>3, <1>15, <2>0, <2>1 DEF DropPending, Transactions, Stages
    <3> QED
      BY <1>4, <2>0, <3>1
  <2>2. CASE tx.caller # "workspace"
    <3>1. /\ tx' \in Transactions /\ tx'.request = tx.request
          /\ tx'.at = "append" /\ tx'.caller = tx.caller /\ tx'.item = tx.item
      BY <1>3, <1>15, <2>0, <2>2 DEF DropPending, GoTo, Transactions, Stages
    <3>2. ~Applied(tx.item)'
      <4> DEFINE i == tx.item
      <4>1. PICK j \in intents : j = tx.item
        BY <2>0
      <4>2. ~Applied(j)'
        BY <2>0, <4>1 DEF Applied, Knows
      <4>3. tx'.item = j
        BY <3>1, <4>1
      <4> QED
        BY <4>2, <4>3, <4>1, <3>1
    <3> QED
      BY <1>4, <2>0, <2>2, <3>1, <3>2
  <2> QED
    BY <2>1, <2>2
<1>16. CASE AppendApplied
  <2>0. /\ tx # None /\ tx.item \in intents /\ pending = {}
        /\ tx.caller # "workspace" /\ UNCHANGED <<intents, pending, receipts>>
    BY <1>3, <1>16 DEF AppendApplied, AtStage
  <2>1. PICK i \in intents : i = tx.item
    BY <2>0
  <2>2. Applied(i)'
    <3>1. Owned(i) /\ i.surface \in Surfaces /\ AppliedFact(i) \in Facts
          /\ AppliedFact(i).id = i.run
      BY <1>0, OwnedFacts DEF IntentsSound
    <3> QED
      BY <1>0, <1>16, <2>1, <3>1, AppendedFact DEF AppendApplied, Applied
  <2>3. /\ tx' \in Transactions /\ tx'.request = tx.request
        /\ tx'.at = "unlink" /\ tx'.caller = tx.caller /\ tx'.item = i
    BY <1>3, <1>16, <2>0, <2>1 DEF AppendApplied, GoTo, Transactions, Stages
  <2> QED
    BY <1>4, <2>0, <2>2, <2>3
<1>17. CASE UnlinkIntent
  <2>0. /\ tx # None /\ pending = {} /\ pending' = pending /\ tx.caller # "workspace"
    BY <1>3, <1>17 DEF UnlinkIntent, AtStage
  <2>1. CASE tx.caller = "intents"
    <3>1. /\ tx' \in Transactions /\ tx'.request = tx.request
          /\ tx'.at = "start" /\ tx'.caller = "intents"
      BY <1>3, <1>17, <2>0, <2>1 DEF UnlinkIntent, Transactions, Stages
    <3> QED
      BY <1>4, <2>0, <3>1
  <2> QED
    BY <1>5, <1>17, <2>1 DEF UnlinkIntent, End
<1>18. CASE BodyRecover \/ BodyHead \/ BodyRecord \/ BodyPublish
  BY <1>5, <1>18
     DEF BodyRecover, BodyHead, BodyRecord, BodyPublish, Admit, Leave, End
<1>19. CASE BodyApply
  <2> DEFINE i == tx.request.intent
  <2>1. CASE intents' = intents \union {i} /\ tx' = [tx EXCEPT !.at = "finish", !.item = i]
             /\ pending' = pending
    <3>1. /\ tx # None /\ tx.caller = "body" /\ pending = {} /\ i \in Intents
      BY <1>0, <1>19 DEF BodyApply, Requested, At, TxSound, Owned
    <3>2. /\ tx' \in Transactions /\ tx'.request = tx.request
          /\ tx'.at = "finish" /\ tx'.caller = "body" /\ tx'.item = i
      BY <1>3, <2>1, <3>1 DEF Transactions, Stages
    <3> QED
      BY <1>4, <2>1, <3>1, <3>2
  <2> QED
    BY <1>5, <1>19, <2>1 DEF BodyApply, Leave, End
<1>20. ASSUME NEW r \in Runs, SettleRun(r) \/ FailRun(r)
       PROVE  tx' \in Transactions \union {None} /\ TxSound'
  BY <1>6, <1>20 DEF SettleRun, FailRun, contentVars
<1>21. ASSUME NEW s \in Surfaces, NEW f \in Files, NEW c \in Contents, Edit(s, f, c)
       PROVE  tx' \in Transactions \union {None} /\ TxSound'
  BY <1>6, <1>21 DEF Edit
<1>22. CASE Abandon
  BY <1>5, <1>22 DEF Abandon
<1>23. CASE UNCHANGED vars
  BY <1>6, <1>23 DEF vars, contentVars
<1> HIDE DEF Good, Typed
<1> QED
  BY BeginStep, <1>8, <1>9, <1>10, <1>11, <1>12, <1>13, <1>14, <1>15, <1>16, <1>17,
     <1>18, <1>19, <1>20, <1>21, <1>22, <1>23
     DEF Next, Step

-----------------------------------------------------------------------------
(***************************************************************************)
(* Types and files.                                                         *)
(***************************************************************************)
\* The state keeps its form.
LEMMA TypeStep ==
  ASSUME ContentInv, [Next]_vars
  PROVE  TypeOK'
<1>0. TypeOK /\ BatchesWhole /\ IntentsSound
  BY DEF ContentInv, ChainIntact
<1>1. ContentStep
  BY StepsAreContent
<1>2. history' \in [Surfaces -> Seq(Facts)] /\ tx' \in Transactions \union {None}
  BY <1>1, ChainStep, TxStep
<1>3. /\ batch' \in [Runs -> Batches \union {None}]
      /\ settled' \subseteq Runs /\ failed' \subseteq Runs
  <2>1. ASSUME NEW r \in Runs, NEW b \in Proposals, Records(r, b)
        PROVE  /\ batch' \in [Runs -> Batches \union {None}]
               /\ settled' \subseteq Runs /\ failed' \subseteq Runs
    <3>1. b \in Batches
      BY DEF Proposals
    <3> QED
      BY <1>0, <2>1, <3>1 DEF Records, Record, TypeOK
  <2>2. CASE batch' = batch /\ settled' \subseteq Runs /\ failed' \subseteq Runs
    BY <1>0, <2>2 DEF TypeOK
  <2>3. ASSUME NEW r \in Runs, Settles(r)
        PROVE  batch' = batch /\ settled' \subseteq Runs /\ failed' \subseteq Runs
    BY <1>0, <2>3 DEF TypeOK, Settles, Settle, SettleFailed
  <2>4. CASE UNCHANGED ledgerVars
    BY <1>0, <2>4 DEF TypeOK, ledgerVars
  <2> QED
    BY <1>1, <2>1, <2>2, <2>3, <2>4
       DEF ContentStep, Applies, Intends, Projects, Receipts, Drops, Unlinks,
           Renames, Admits, Publishes, Edit
<1>4. work' \in [Surfaces -> Revisions]
  <2>1. ASSUME NEW i \in Intents, NEW f \in Files, Renames(i, f)
        PROVE  work' \in [Surfaces -> Revisions]
    <3>1. i.surface \in Surfaces /\ CandidateOf(i) \in Revisions
      BY <1>0, <2>1, OwnedFacts DEF Renames, IntentsSound
    <3>2. CandidateOf(i)[f] \in Contents
      BY <3>1 DEF Revisions
    <3> QED
      BY <1>0, <2>1, <3>1, <3>2 DEF Renames, TypeOK, Revisions
  <2>2. ASSUME NEW s \in Surfaces, NEW f \in Files, NEW c \in Contents, Edit(s, f, c)
        PROVE  work' \in [Surfaces -> Revisions]
    BY <1>0, <2>2 DEF Edit, TypeOK, Revisions
  <2>3. CASE work' = work
    BY <1>0, <2>3 DEF TypeOK
  <2> QED
    BY <1>1, <2>1, <2>2, <2>3
       DEF ContentStep, Applies, Intends, Projects, Receipts, Drops, Unlinks,
           Admits, Publishes, Records, Settles, files
<1>5. intents' \subseteq Intents /\ pending' \subseteq Intents /\ receipts' \subseteq Intents
  <2>1. intents \subseteq Intents /\ pending \subseteq Intents /\ receipts \subseteq Intents
    BY <1>0 DEF TypeOK
  <2> QED
    BY <1>1, <2>1
       DEF ContentStep, Applies, Intends, Projects, Receipts, Drops, Unlinks, Renames,
           Admits, Publishes, Records, Settles, Edit, files
<1>6. saves' \in 0..MaxSaves
  <2>1. saves \in 0..MaxSaves /\ MaxSaves \in Nat
    BY <1>0, ContentAssumption DEF TypeOK
  <2>2. CASE saves' = saves
    BY <2>1, <2>2
  <2>3. ASSUME NEW s \in Surfaces, NEW f \in Files, NEW c \in Contents, Edit(s, f, c)
        PROVE  saves' \in 0..MaxSaves
    BY <2>1, <2>3 DEF Edit
  <2> QED
    BY <1>1, <2>2, <2>3
       DEF ContentStep, Applies, Intends, Projects, Receipts, Drops, Unlinks, Renames,
           Admits, Publishes, Records, Settles, files
<1>7. faults' \in 0..MaxFaults
  <2>1. faults \in 0..MaxFaults /\ MaxFaults \in Nat
    BY <1>0, ContentAssumption DEF TypeOK
  <2>2. CASE faults' = faults
    BY <2>1, <2>2
  <2>3. CASE Abandon
    BY <2>1, <2>3 DEF Abandon
  <2>4. CASE BeginTransaction
    BY <2>2, <2>4
       DEF BeginTransaction, BeginRecover, BeginHead, BeginRecord, BeginApply,
           BeginPublish, Begin, OnlyTx, bounds
  <2>5. CASE Step
    BY <2>2, <2>5
       DEF Step, RecoverWorkspace, RecoverIntents, Finish, CheckFile, RenameFile,
           Verify, WriteReceipt, DropPending, AppendApplied, UnlinkIntent,
           BodyRecover, BodyHead, BodyRecord, BodyApply, BodyPublish, Admit,
           Project, Leave, OnlyTx, bounds
  <2>6. CASE \E r \in Runs : SettleRun(r) \/ FailRun(r)
    BY <2>2, <2>6 DEF SettleRun, FailRun, contentVars, bounds
  <2>7. CASE \E s \in Surfaces, f \in Files, c \in Contents : Edit(s, f, c)
    BY <2>2, <2>7 DEF Edit
  <2>8. CASE UNCHANGED vars
    BY <2>2, <2>8 DEF vars, contentVars, bounds
  <2> QED
    BY <2>3, <2>4, <2>5, <2>6, <2>7, <2>8 DEF Next
<1> QED
  BY <1>2, <1>3, <1>4, <1>5, <1>6, <1>7 DEF TypeOK

\* A receipt is only written after the whole directory was found to be the
\* candidate.
LEMMA ReceiptStage ==
  ASSUME ContentInv, [Next]_vars, tx' # None, tx'.at = "receipt"
  PROVE  /\ tx # None /\ tx'.item = tx.item /\ tx.item \in pending
         /\ \/ tx.at = "receipt" /\ work' = work
            \/ /\ tx.at = "receipt"
               /\ \E s \in Surfaces, f \in Files, c \in Contents : Edit(s, f, c)
            \/ work' = work /\ work[tx.item.surface] = CandidateOf(tx.item)
<1>0. /\ tx # None => tx \in Transactions
      /\ tx # None /\ tx.at \in {"project", "receipt"} => tx.item \in pending
  BY DEF ContentInv, ChainIntact, TypeOK, TxSound
<1> DEFINE Goal ==
             /\ tx # None /\ tx'.item = tx.item /\ tx.item \in pending
             /\ \/ tx.at = "receipt" /\ work' = work
                \/ /\ tx.at = "receipt"
                   /\ \E s \in Surfaces, f \in Files, c \in Contents : Edit(s, f, c)
                \/ work' = work /\ work[tx.item.surface] = CandidateOf(tx.item)
<1>1. ASSUME tx' = tx, work' = work PROVE Goal
  BY <1>0, <1>1
<1>2. ASSUME NEW s \in Surfaces, NEW f \in Files, NEW c \in Contents, Edit(s, f, c)
      PROVE  Goal
  <2>1. tx' = tx
    BY <1>2 DEF Edit
  <2> QED
    BY <1>0, <1>2, <2>1
<1>3. ASSUME Verify PROVE Goal
  <2>1. /\ tx # None /\ tx.at = "project" /\ work' = work
        /\ work[tx.item.surface] = CandidateOf(tx.item)
        /\ tx' = [tx EXCEPT !.at = "receipt"]
    BY <1>3 DEF Verify, AtStage, GoTo, Leave, End, OnlyTx
  <2>2. tx'.item = tx.item
    BY <1>0, <2>1 DEF Transactions
  <2> QED
    BY <1>0, <2>1, <2>2
<1>4. ASSUME BeginTransaction PROVE FALSE
  <2>1. ASSUME NEW request, Begin(request) PROVE FALSE
    BY <2>1 DEF Begin
  <2> QED
    BY <1>4, <2>1
       DEF BeginTransaction, BeginRecover, BeginHead, BeginRecord, BeginApply,
           BeginPublish
<1>5. ASSUME RecoverWorkspace \/ RecoverIntents PROVE FALSE
  BY <1>0, <1>5
     DEF RecoverWorkspace, RecoverIntents, Project, At, Go, Leave, End, Transactions
<1>6. ASSUME Finish PROVE FALSE
  BY <1>0, <1>6 DEF Finish, Project, AtStage, GoTo, Leave, End, Transactions
<1>7. ASSUME NEW f \in Files, CheckFile(f) PROVE FALSE
  BY <1>0, <1>7 DEF CheckFile, AtStage, Leave, End, Transactions
<1>8. ASSUME RenameFile \/ WriteReceipt \/ DropPending \/ AppendApplied \/ UnlinkIntent
      PROVE FALSE
  BY <1>0, <1>8
     DEF RenameFile, WriteReceipt, DropPending, AppendApplied, UnlinkIntent, AtStage,
         GoTo, End, Transactions
<1>9. ASSUME BodyRecover \/ BodyHead \/ BodyRecord \/ BodyApply \/ BodyPublish
      PROVE FALSE
  BY <1>0, <1>9
     DEF BodyRecover, BodyHead, BodyRecord, BodyApply, BodyPublish, Admit, Requested,
         At, Leave, End, Transactions
<1>10. ASSUME NEW r \in Runs, SettleRun(r) \/ FailRun(r) PROVE Goal
  BY <1>1, <1>10 DEF SettleRun, FailRun, contentVars
<1>11. ASSUME UNCHANGED vars PROVE Goal
  BY <1>1, <1>11 DEF vars, contentVars
<1> HIDE DEF Goal
<1>12. Goal
  BY <1>2, <1>3, <1>4, <1>5, <1>6, <1>7, <1>8, <1>9, <1>10, <1>11
     DEF Next, Step, Abandon
<1> QED
  BY <1>12 DEF Goal

\* The files of one surface, when no editor touches them: they follow the interrupted
\* apply while there is one, and the head otherwise.
FilesAt(s) ==
  /\ \A i \in intents : i.surface = s =>
       /\ i \in receipts => work[s] = CandidateOf(i)
       /\ i \in pending => Preflight(i)
       /\ i \notin receipts \union pending => work[s] = BaseOf(i)
  /\ history[s] # <<>> /\ (\A i \in intents : i.surface # s) => work[s] = HeadAt(s)

\* A rename brings an interrupted apply closer to its candidate, and nothing but the
\* apply itself takes its files elsewhere.
LEMMA FilesAtStep ==
  ASSUME ContentInv, ContentStep, NEW s \in Surfaces, Calm(s)'
  PROVE  FilesAt(s)'
<1>0. TypeOK /\ BatchesWhole /\ IntentsSound
  BY DEF ContentInv, ChainIntact
<1>1. /\ pending \subseteq intents /\ \A i, j \in intents : i = j
      /\ \A i \in intents : Owned(i)
      /\ \A i \in intents : Applied(i) => HeadAt(i.surface) = CandidateOf(i) /\ i \in receipts
      /\ \A i \in receipts : i \in intents \/ Applied(i)
      /\ saves \in Nat
  BY <1>0 DEF IntentsSound, TypeOK
<1>2. Calm(s) => FilesAt(s)
  BY DEF ContentInv, FilesSound, AuthoringFollowsHead, Calm, FilesAt
<1>3. ASSUME saves' = saves PROVE FilesAt(s)
  BY <1>2, <1>3 DEF Calm
<1>4. \A i \in intents : /\ BaseOf(i)' = BaseOf(i) /\ CandidateOf(i)' = CandidateOf(i)
  BY <1>1, OwnedStays
<1>5. ASSUME work'[s] = work[s], history'[s] = history[s], FilesAt(s),
             UNCHANGED <<intents, pending, receipts>>
      PROVE  FilesAt(s)'
  BY <1>1, <1>4, <1>5 DEF FilesAt, HeadAt, Preflight, OldOrNew
<1>6. ASSUME NEW i \in Intents, Applies(i) PROVE FilesAt(s)'
  <2>1. /\ Owned(i) /\ HeadAt(i.surface) = BaseOf(i)
        /\ i.surface \in Surfaces /\ BaseOf(i) \in Revisions
        /\ AppendFact(i.surface, AppliedFact(i)) /\ AppliedFact(i) \in Facts
        /\ AppliedFact(i).revision = CandidateOf(i)
        /\ UNCHANGED <<work, intents, pending, receipts, saves>>
    BY <1>0, <1>6, OwnedFacts DEF Applies, files
  <2>2. CASE i.surface # s
    <3>1. history'[s] = history[s]
      BY <1>0, <2>1, <2>2, AppendedFact
    <3> QED
      BY <1>3, <1>5, <2>1, <3>1
  <2>3. CASE i.surface = s /\ intents = {i}
    BY <1>3, <1>4, <2>1, <2>3 DEF FilesAt, Preflight, OldOrNew
  <2>4. CASE i.surface = s /\ intents = {} /\ CandidateOf(i) = BaseOf(i)
    <3>1. HeadAt(s)' = CandidateOf(i)
      BY <1>0, <2>1, <2>4, AppendedFact
    <3>2. history[s] # <<>>
      BY <1>0, <2>1, <2>4, HeadFacts, ContentConstants
    <3> QED
      BY <1>3, <2>1, <2>4, <3>1, <3>2 DEF FilesAt
  <2> QED
    BY <1>6, <2>2, <2>3, <2>4 DEF Applies
<1>7. ASSUME NEW x \in Surfaces, NEW fact \in Facts, AppendFact(x, fact),
             fact.revision = work[x], intents = {}, UNCHANGED files
      PROVE  FilesAt(s)'
  <2>1. UNCHANGED <<work, intents, pending, receipts, saves>>
    BY <1>7 DEF files
  <2>2. CASE x # s
    <3>1. history'[s] = history[s]
      BY <1>0, <1>7, <2>2, AppendedFact
    <3> QED
      BY <1>3, <1>5, <2>1, <3>1
  <2>3. CASE x = s
    <3>1. HeadAt(s)' = work[s]
      BY <1>0, <1>7, <2>3, AppendedFact
    <3> QED
      BY <1>7, <2>1, <3>1 DEF FilesAt
  <2> QED
    BY <2>2, <2>3
<1>8. ASSUME NEW x \in Surfaces, Admits(x) \/ \E k \in Keys : Publishes(x, k)
      PROVE  FilesAt(s)'
  BY <1>0, <1>7, <1>8, ReadFacts DEF Admits, Publishes
<1>9. ASSUME UNCHANGED <<history, files>> PROVE FilesAt(s)'
  BY <1>3, <1>5, <1>9 DEF files
<1>10. ASSUME NEW i \in Intents, NEW f \in Files, Renames(i, f) PROVE FilesAt(s)'
  <2>1. /\ i \in pending /\ i \in intents /\ intents = {i} /\ i.surface \in Surfaces
        /\ CandidateOf(i) \in Revisions /\ work \in [Surfaces -> Revisions]
        /\ work' = [work EXCEPT ![i.surface][f] = CandidateOf(i)[f]]
        /\ UNCHANGED <<history, intents, pending, receipts, saves>>
    BY <1>0, <1>1, <1>10, OwnedFacts DEF Renames, TypeOK
  <2>2. CASE i.surface # s
    BY <1>3, <1>5, <2>1, <2>2
  <2>3. CASE i.surface = s
    <3>1. /\ work'[s] = [work[s] EXCEPT ![f] = CandidateOf(i)[f]]
          /\ work[s] \in [Files -> Contents] /\ CandidateOf(i) \in [Files -> Contents]
      BY <2>1, <2>3 DEF Revisions
    <3>2. i \in receipts => work'[s] = CandidateOf(i)
      BY <1>3, <2>1, <2>3, <3>1 DEF FilesAt
    <3>3. \A g \in Files : OldOrNew(i, g)'
      <4>1. Preflight(i)
        BY <1>3, <2>1, <2>3 DEF FilesAt
      <4>2. ASSUME NEW g \in Files PROVE work'[s][g] \in {BaseOf(i)[g], CandidateOf(i)[g]}
        BY <2>3, <3>1, <4>1 DEF Preflight, OldOrNew
      <4> QED
        BY <1>4, <2>1, <2>3, <4>2 DEF OldOrNew
    <3> QED
      BY <1>4, <2>1, <2>3, <3>2, <3>3 DEF FilesAt, Preflight
  <2> QED
    BY <2>2, <2>3
<1>11. ASSUME NEW i \in Intents, Intends(i) PROVE FilesAt(s)'
  <2>1. /\ intents = {} /\ pending = {} /\ ~Applied(i) /\ intents' = {i}
        /\ Owned(i) /\ HeadAt(i.surface) = BaseOf(i) /\ i.surface \in Surfaces
        /\ BaseOf(i) \in Revisions
        /\ UNCHANGED <<ledgerVars, history, work, pending, receipts, saves>>
    BY <1>0, <1>11, OwnedFacts DEF Intends
  <2>2. i \notin receipts
    BY <1>1, <2>1
  <2>3. BaseOf(i)' = BaseOf(i)
    BY <2>1, OwnedStays
  <2>4. history[i.surface] # <<>>
    BY <1>0, <2>1, HeadFacts, ContentConstants
  <2>5. FilesAt(s)
    BY <1>3, <2>1
  <2>6. i.surface = s => work[s] = BaseOf(i)
    BY <2>1, <2>4, <2>5 DEF FilesAt
  <2>7. HeadAt(s)' = HeadAt(s)
    BY <2>1 DEF HeadAt
  <2> QED
    BY <2>1, <2>2, <2>3, <2>5, <2>6, <2>7 DEF FilesAt
<1>12. ASSUME NEW i \in Intents, Projects(i) PROVE FilesAt(s)'
  <2>1. /\ i \in intents /\ intents = {i} /\ Replaceable(i) /\ pending' = pending \union {i}
        /\ i.surface \in Surfaces /\ work' = work
        /\ UNCHANGED <<history, intents, receipts, saves>>
    BY <1>1, <1>12 DEF Projects, Intents
  <2>2. FilesAt(s)
    BY <1>3, <2>1
  <2>3. Preflight(i)'
    BY <1>4, <2>1 DEF Replaceable, Preflight, OldOrNew
  <2> QED
    BY <1>4, <2>1, <2>2, <2>3 DEF FilesAt, HeadAt
<1>13. ASSUME NEW i \in Intents, Receipts(i) PROVE FilesAt(s)'
  <2>1. /\ i \in pending /\ intents = {i} /\ receipts' = receipts \union {i}
        /\ AtStage("receipt") /\ tx.item = i /\ work' = work
        /\ UNCHANGED <<history, intents, pending, saves>>
    BY <1>1, <1>13 DEF Receipts
  <2>2. FilesAt(s) /\ Calm(s)
    BY <1>3, <2>1 DEF Calm
  <2>3. i.surface = s => work[s] = CandidateOf(i)
    BY <2>1, <2>2 DEF ContentInv, FilesSound
  <2> QED
    BY <1>4, <2>1, <2>2, <2>3 DEF FilesAt, HeadAt, Preflight, OldOrNew
<1>14. ASSUME NEW i \in Intents, Drops(i) PROVE FilesAt(s)'
  <2>1. /\ i \in receipts /\ pending' = pending \ {i} /\ work' = work
        /\ UNCHANGED <<history, intents, receipts, saves>>
    BY <1>14 DEF Drops
  <2>2. FilesAt(s)
    BY <1>3, <2>1
  <2> QED
    BY <1>4, <2>1, <2>2 DEF FilesAt, HeadAt, Preflight, OldOrNew
<1>15. ASSUME NEW i \in Intents, Unlinks(i) PROVE FilesAt(s)'
  <2>1. /\ intents = {i} /\ intents' = {} /\ Applied(i) /\ work' = work
        /\ HeadAt(i.surface) = CandidateOf(i) /\ i \in receipts
        /\ UNCHANGED <<history, pending, receipts, saves>>
    BY <1>1, <1>15 DEF Unlinks
  <2>2. FilesAt(s)
    BY <1>3, <2>1
  <2>3. i.surface = s => work[s] = HeadAt(s)
    BY <2>1, <2>2 DEF FilesAt
  <2> QED
    BY <2>1, <2>2, <2>3 DEF FilesAt, HeadAt
<1>16. ASSUME NEW x \in Surfaces, NEW f \in Files, NEW c \in Contents, Edit(x, f, c)
       PROVE  FilesAt(s)'
  <2>1. /\ x \in Edited /\ saves' = saves + 1 /\ work' = [work EXCEPT ![x][f] = c]
        /\ UNCHANGED <<history, intents, pending, receipts>>
    BY <1>16 DEF Edit
  <2>2. s \notin Edited
    BY <1>1, <2>1 DEF Calm
  <2>3. FilesAt(s) /\ work'[s] = work[s]
    BY <1>0, <1>2, <2>1, <2>2 DEF Calm, TypeOK
  <2> QED
    BY <1>5, <2>1, <2>3
<1> QED
  BY <1>6, <1>8, <1>9, <1>10, <1>11, <1>12, <1>13, <1>14, <1>15, <1>16
     DEF ContentStep, Records, Settles

\* Files that no editor touches follow the heads and the interrupted apply.
LEMMA FilesStep ==
  ASSUME ContentInv, [Next]_vars
  PROVE  FilesSound' /\ AuthoringFollowsHead'
<1>0. ContentStep
  BY StepsAreContent
<1>1. \A s \in Surfaces : Calm(s)' => FilesAt(s)'
  BY <1>0, FilesAtStep
<1>2. ASSUME NEW s \in Surfaces, Calm(s)', AtStage("receipt")', tx'.item.surface = s
      PROVE  work'[s] = CandidateOf(tx.item)' /\ tx'.item = tx.item
  <2>0. TypeOK /\ IntentsSound
    BY DEF ContentInv, ChainIntact
  <2>1. /\ tx # None /\ tx'.item = tx.item /\ tx.item \in pending
        /\ \/ tx.at = "receipt" /\ work' = work
           \/ /\ tx.at = "receipt"
              /\ \E x \in Surfaces, f \in Files, c \in Contents : Edit(x, f, c)
           \/ work' = work /\ work[tx.item.surface] = CandidateOf(tx.item)
    BY <1>2, ReceiptStage DEF AtStage
  <2>2. PICK i \in pending : i = tx.item
    BY <2>1
  <2>3. CandidateOf(i)' = CandidateOf(i) /\ i.surface = s
    BY <1>0, <1>2, <2>0, <2>1, <2>2, OwnedStays DEF IntentsSound
  <2>4. work'[s] = CandidateOf(i)
    <3>1. CASE work' = work /\ work[s] = CandidateOf(i)
      BY <3>1
    <3>2. CASE tx.at = "receipt" /\ work' = work
      <4>1. Calm(s)
        <5>1. saves' = saves \/ saves' = saves + 1
          BY <1>0
             DEF ContentStep, Applies, Intends, Projects, Receipts, Drops, Unlinks,
                 Renames, Admits, Publishes, Records, Settles, Edit, files
        <5>2. saves \in Nat
          BY <2>0 DEF TypeOK
        <5> QED
          BY <1>2, <5>1, <5>2 DEF Calm
      <4> QED
        BY <2>1, <2>2, <2>3, <3>2, <4>1 DEF ContentInv, FilesSound, AtStage
    <3>3. ASSUME tx.at = "receipt",
                 NEW x \in Surfaces, NEW f \in Files, NEW c \in Contents, Edit(x, f, c)
          PROVE  work'[s] = CandidateOf(i)
      <4>1. s \notin Edited
        BY <1>2, <2>0, <3>3 DEF Calm, Edit, TypeOK
      <4>2. work[s] = CandidateOf(i)
        BY <2>1, <2>2, <2>3, <3>3, <4>1 DEF ContentInv, FilesSound, AtStage, Calm
      <4>3. work'[s] = work[s]
        BY <2>0, <3>3, <4>1 DEF Edit, TypeOK
      <4> QED
        BY <4>2, <4>3
    <3> QED
      BY <2>1, <2>2, <2>3, <3>1, <3>2, <3>3
  <2> QED
    BY <2>1, <2>2, <2>3, <2>4
<1>3. FilesSound'
  BY <1>1, <1>2 DEF FilesSound, FilesAt
<1>4. AuthoringFollowsHead'
  BY <1>1 DEF AuthoringFollowsHead, FilesAt, Calm
<1> QED
  BY <1>3, <1>4

-----------------------------------------------------------------------------
(***************************************************************************)
(* The theorems.                                                            *)
(***************************************************************************)
\* A new installation has no facts, no files in progress and no transaction.
LEMMA ContentInit == Init => ContentInv
<1> SUFFICES ASSUME Init PROVE ContentInv
  OBVIOUS
<1>1. /\ batch = [r \in Runs |-> None] /\ settled = {} /\ failed = {}
      /\ history = [s \in Surfaces |-> <<>>] /\ work = Initial
      /\ intents = {} /\ pending = {} /\ receipts = {} /\ tx = None
      /\ saves = 0 /\ faults = 0
  BY DEF Init, LedgerInit
<1>2. TypeOK
  BY <1>1, ContentAssumption DEF TypeOK
<1>3. \A s \in Surfaces : history[s] = <<>> /\ DOMAIN history[s] = {}
  BY <1>1
<1>4. ChainIntact /\ AuthoringFollowsHead
  BY <1>2, <1>3 DEF ChainIntact, AuthoringFollowsHead
<1>5. Recorded = {} /\ Pending = {}
  BY <1>1 DEF Recorded, Pending
<1>6. BatchesWhole /\ PendingApart
  BY <1>5 DEF BatchesWhole, PendingApart
<1>7. TxSound /\ IntentsSound /\ FilesSound
  BY <1>1 DEF TxSound, IntentsSound, FilesSound, AtStage
<1> QED
  BY <1>4, <1>6, <1>7 DEF ContentInv

\* And no step leads out of the invariant.
LEMMA ContentNext == ContentInv /\ [Next]_vars => ContentInv'
<1> SUFFICES ASSUME ContentInv, [Next]_vars PROVE ContentInv'
  OBVIOUS
<1>1. ContentStep
  BY StepsAreContent
<1>2. ChainIntact'
  BY <1>1, ChainStep, TypeStep
<1>3. BatchesWhole' /\ PendingApart' /\ IntentsSound'
  BY <1>1, LedgerStep, IntentsStep
<1>4. TxSound' /\ FilesSound' /\ AuthoringFollowsHead'
  BY TxStep, FilesStep
<1> QED
  BY <1>2, <1>3, <1>4 DEF ContentInv

\* Every reachable state satisfies the inductive invariant: under the writer lock,
\* whatever step a transaction was left after, the next one finds at most one
\* interrupted apply, on a surface that nobody has moved since.
THEOREM ContentInvariant == Spec => []ContentInv
<1>1. Init => ContentInv
  BY ContentInit
<1>2. ContentInv /\ [Next]_vars => ContentInv'
  BY ContentNext
<1> QED
  BY <1>1, <1>2, PTL DEF Spec

\* recordedHead never finds a history corrupt: each fact is based on the one before,
\* and an operation that is retried after a crash leaves no second fact.
THEOREM ChainsHold == Spec => []ChainIntact
<1>1. ContentInv => ChainIntact
  BY DEF ContentInv
<1> QED
  BY <1>1, ContentInvariant, PTL

\* Without an editor's interference the authoring files are the published head
\* whenever nothing is left to finish, wherever transactions were cut short.
THEOREM FilesFollowHeads == Spec => []AuthoringFollowsHead
<1>1. ContentInv => AuthoringFollowsHead
  BY DEF ContentInv
<1> QED
  BY <1>1, ContentInvariant, PTL

\* What head and publish read as a revision is never a directory in which a
\* projection has replaced some of its files.
THEOREM WholeDirectoriesAreRead == Spec => NoHalfProjectionIsRead
<1>1. ASSUME ContentInv, [Next]_vars, NEW s \in Surfaces, history'[s] # history[s],
             \A r \in Runs : Knows(s, r)' = Knows(s, r)
      PROVE  \A i \in intents \union pending : i.surface # s
  <2>0. TypeOK /\ BatchesWhole
    BY <1>1 DEF ContentInv, ChainIntact
  <2>1. CASE \E x \in Surfaces : Admits(x) \/ \E k \in Keys : Publishes(x, k)
    BY <2>1 DEF Admits, Publishes
  <2>2. ASSUME NEW i \in Intents, Applies(i) PROVE FALSE
    <3>1. /\ i.surface \in Surfaces /\ i.run \in Runs /\ AppliedFact(i) \in Facts
          /\ AppendFact(i.surface, AppliedFact(i)) /\ AppliedFact(i).id = i.run
          /\ ~Knows(i.surface, i.run)
      BY <2>0, <2>2, OwnedFacts DEF Applies, Applied
    <3>2. Knows(i.surface, i.run)'
      BY <2>0, <3>1, AppendedFact
    <3>3. i.surface # s
      BY <1>1, <3>1, <3>2
    <3> QED
      BY <1>1, <2>0, <3>1, <3>3, AppendedFact
  <2> QED
    BY <1>1, <2>1, <2>2, StepsAreContent, HistorySteps
<1>2. ContentInv /\ [Next]_vars =>
        [\A s \in Surfaces :
           history'[s] # history[s] /\ (\A r \in Runs : Knows(s, r)' = Knows(s, r))
             => \A i \in intents \union pending : i.surface # s]_vars
  BY <1>1
<1> QED
  BY <1>2, ContentInvariant, PTL DEF Spec, NoHalfProjectionIsRead

-----------------------------------------------------------------------------
(***************************************************************************)
(* The heads, as SurfaceHeads describes them.                               *)
(***************************************************************************)
Holding(r, s) == [run |-> r, next |-> batch[r].candidate[s]]

HoldersKnown ==
  \A s : /\ \A r \in Pending : s \in Touches(r) => HolderOf(s) = Holding(r, s)
         /\ (\A r \in Pending : s \notin Touches(r)) => HolderOf(s) = None

\* A surface is held by the pending run that touches it, and by no other.
LEMMA HolderFacts == PendingApart => HoldersKnown
<1> SUFFICES ASSUME PendingApart PROVE HoldersKnown
  OBVIOUS
<1>1. ASSUME NEW s, NEW r \in Pending, s \in Touches(r)
      PROVE  HolderOf(s) = Holding(r, s)
  <2> DEFINE q == CHOOSE q \in Pending : s \in Touches(q)
  <2>1. q \in Pending /\ s \in Touches(q)
    BY <1>1
  <2>2. HolderOf(s) = Holding(q, s)
    BY <1>1 DEF HolderOf, Holding
  <2> HIDE DEF q
  <2>3. q = r
    BY <1>1, <2>1 DEF PendingApart
  <2> QED
    BY <2>2, <2>3
<1>2. ASSUME NEW s, \A r \in Pending : s \notin Touches(r) PROVE HolderOf(s) = None
  BY <1>2 DEF HolderOf
<1> QED
  BY <1>1, <1>2 DEF HoldersKnown

\* The same after a step.
LEMMA HolderFactsNext == PendingApart' => HoldersKnown'
BY HolderFacts, PTL

\* Heads move one at a time.
LEMMA HeadsMove ==
  ASSUME TypeOK, NEW s \in Surfaces, NEW fact \in Facts, AppendFact(s, fact)
  PROVE  [x \in Surfaces |-> HeadAt(x)]' =
           [[x \in Surfaces |-> HeadAt(x)] EXCEPT ![s] = fact.revision]
<1>1. HeadAt(s)' = fact.revision /\ \A x \in Surfaces \ {s} : HeadAt(x)' = HeadAt(x)
  BY AppendedFact
<1> QED
  BY <1>1

\* The step of SurfaceHeads that a step of the disk is.
LEMMA HeadsStep ==
  ASSUME ContentInv, ContentInv', ContentStep
  PROVE  [Heads!Next]_(Heads!vars)
<1>0. TypeOK /\ BatchesWhole /\ PendingApart /\ PendingApart'
  BY DEF ContentInv, ChainIntact
<1>h. HoldersKnown /\ HoldersKnown'
  BY <1>0, HolderFacts, HolderFactsNext
<1> DEFINE heads == [x \in Surfaces |-> HeadAt(x)]
           holders == [x \in Surfaces |-> HolderOf(x)]
<1>1. ASSUME UNCHANGED ledgerVars PROVE holders' = holders
  BY <1>1 DEF HolderOf, Pending, Recorded, Touches, ledgerVars
<1>2. ASSUME history' = history PROVE heads' = heads
  BY <1>2 DEF HeadAt
<1>3. ASSUME heads' = heads, holders' = holders PROVE [Heads!Next]_(Heads!vars)
  BY <1>3 DEF Heads!vars
<1>4. ASSUME NEW s \in Surfaces, NEW fact \in Facts, AppendFact(s, fact),
             UNCHANGED ledgerVars, HeadAt(s) # None,
             \A r \in Pending : s \in Touches(r) =>
                                  fact.revision = batch[r].candidate[s]
      PROVE  [Heads!Next]_(Heads!vars)
  <2>1. heads' = [heads EXCEPT ![s] = fact.revision] /\ fact.revision \in Revisions
    BY <1>0, <1>4, HeadsMove DEF Facts
  <2>2. holders[s] # None => fact.revision = holders[s].next
    <3>1. CASE \A r \in Pending : s \notin Touches(r)
      BY <1>h, <3>1 DEF HoldersKnown
    <3>2. ASSUME NEW r \in Pending, s \in Touches(r)
          PROVE  fact.revision = holders[s].next
      BY <1>h, <1>4, <3>2 DEF HoldersKnown, Holding
    <3> QED
      BY <3>1, <3>2
  <2>3. Heads!Move(s, fact.revision)
    BY <1>1, <1>4, <2>1, <2>2 DEF Heads!Move
  <2> QED
    BY <2>1, <2>3 DEF Heads!Next
<1>5. ASSUME NEW i \in Intents, Applies(i) PROVE [Heads!Next]_(Heads!vars)
  <2>1. /\ i.surface \in Surfaces /\ AppliedFact(i) \in Facts
        /\ AppliedFact(i).revision = CandidateOf(i) /\ BaseOf(i) \in Revisions
        /\ AppendFact(i.surface, AppliedFact(i)) /\ UNCHANGED ledgerVars
        /\ HeadAt(i.surface) = BaseOf(i) /\ ~Reserved(i.surface, i.run)
    BY <1>0, <1>5, OwnedFacts DEF Applies
  <2>2. HeadAt(i.surface) # None
    BY <2>1, ContentConstants
  <2>3. \A r \in Pending : i.surface \in Touches(r) =>
                             CandidateOf(i) = batch[r].candidate[i.surface]
    BY <2>1 DEF Reserved, CandidateOf
  <2> QED
    BY <1>4, <2>1, <2>2, <2>3
<1>6. ASSUME NEW s \in Surfaces, Admits(s) PROVE [Heads!Next]_(Heads!vars)
  <2> DEFINE fact == Fact("admitted", None, None, work[s])
  <2>1. fact \in Facts /\ fact.revision = work[s] /\ work[s] \in Revisions
    BY <1>0, ReadFacts
  <2>2. AppendFact(s, fact) /\ UNCHANGED ledgerVars /\ HeadAt(s) = None
    BY <1>6 DEF Admits
  <2> HIDE DEF fact
  <2>3. heads' = [heads EXCEPT ![s] = work[s]]
    BY <1>0, <2>1, <2>2, HeadsMove
  <2>4. Heads!Admit(s, work[s])
    BY <1>1, <2>2, <2>3 DEF Heads!Admit
  <2> QED
    BY <2>1, <2>4 DEF Heads!Next
<1>7. ASSUME NEW s \in Surfaces, NEW k \in Keys, Publishes(s, k)
      PROVE  [Heads!Next]_(Heads!vars)
  <2> DEFINE fact == Fact("published", k, HeadAt(s), work[s])
  <2>1. fact \in Facts
    BY <1>0, ReadFacts
  <2>2. /\ AppendFact(s, fact) /\ UNCHANGED ledgerVars /\ HeadAt(s) # None
        /\ ~Reserved(s, None)
    BY <1>7 DEF Publishes
  <2>3. \A r \in Pending : s \notin Touches(r)
    BY <2>2, ContentConstants DEF Reserved, Pending, Recorded
  <2> HIDE DEF fact
  <2> QED
    BY <1>4, <2>1, <2>2, <2>3
<1>8. ASSUME NEW r \in Runs, NEW b \in Proposals, Records(r, b)
      PROVE  [Heads!Next]_(Heads!vars)
  <2> DEFINE S == Bound[b.trigger]
             next == [s \in S |-> b.candidate[s]]
  <2>1. /\ S \subseteq Surfaces /\ Touches(r)' = S /\ batch'[r] = b
        /\ \A q \in Pending : Touches(q) \intersect S = {}
        /\ r \notin Pending /\ r \in Recorded' /\ Recorded' = Recorded \union {r}
        /\ UNCHANGED <<settled, failed>>
    BY <1>8, NewBatch
  <2>2. \A q \in Pending : /\ q # r /\ q \in Pending'
                         /\ batch'[q] = batch[q] /\ Touches(q)' = Touches(q)
    BY <2>1, OwnedStays DEF Pending
  <2>3. heads' = heads
    BY <1>2, <1>8 DEF Records
  <2>4. ASSUME NEW s \in Surfaces, s \notin S \/ r \notin Pending'
        PROVE  HolderOf(s)' = HolderOf(s)
    <3>1. ASSUME NEW q \in Pending, s \in Touches(q)
          PROVE  HolderOf(s)' = HolderOf(s)
      <4>1. HolderOf(s) = Holding(q, s)
        BY <1>h, <3>1 DEF HoldersKnown
      <4>2. HolderOf(s)' = Holding(q, s)'
        BY <1>h, <2>2, <3>1 DEF HoldersKnown
      <4> QED
        BY <2>2, <4>1, <4>2 DEF Holding
    <3>2. CASE \A q \in Pending : s \notin Touches(q)
      <4>1. \A q \in Pending' : q \in Pending \/ q = r
        BY <2>1 DEF Pending
      <4>2. (\A q \in Pending : s \notin Touches(q))'
        BY <2>1, <2>2, <2>4, <3>2, <4>1
      <4>3. HolderOf(s) = None
        BY <1>h, <3>2 DEF HoldersKnown
      <4>4. HolderOf(s)' = None
        BY <4>2 DEF HolderOf
      <4> QED
        BY <4>3, <4>4
    <3> QED
      BY <3>1, <3>2
  <2>5. CASE r \notin Pending'
    BY <1>3, <2>3, <2>4, <2>5
  <2>6. CASE r \in Pending'
    <3>1. next \in [S -> Revisions]
      BY DEF Proposals
    <3>2. \A s \in S : holders[s] = None /\ heads[s] # None
      <4>1. ASSUME NEW s \in S PROVE HeadAt(s) # None
        BY <1>8, ContentConstants DEF Records, Recordable, Proposals
      <4>2. ASSUME NEW s \in S PROVE HolderOf(s) = None
        BY <1>h, <2>1 DEF HoldersKnown
      <4> QED
        BY <2>1, <4>1, <4>2
    <3>3. \A s \in S : HolderOf(s)' = [run |-> r, next |-> next[s]]
      <4>1. ASSUME NEW s \in S PROVE HolderOf(s)' = Holding(r, s)'
        BY <1>h, <2>1, <2>6 DEF HoldersKnown
      <4> QED
        BY <2>1, <4>1 DEF Holding
    <3>4. holders' = [s \in Surfaces |-> IF s \in S THEN [run |-> r, next |-> next[s]]
                                         ELSE holders[s]]
      BY <2>4, <3>3
    <3>5. Heads!Take(r, next)
      BY <2>3, <3>2, <3>4 DEF Heads!Take
    <3> QED
      BY <2>1, <3>1, <3>5 DEF Heads!Next
  <2> QED
    BY <2>5, <2>6
<1>9. ASSUME NEW r \in Runs, Settles(r) PROVE [Heads!Next]_(Heads!vars)
  <2>1. /\ r \in Pending /\ Pending' = Pending \ {r} /\ batch' = batch
        /\ \A q : Touches(q)' = Touches(q)
    BY <1>9 DEF Settles, Settle, SettleFailed, Pending, Recorded, Touches
  <2>2. ASSUME NEW s \in Surfaces
        PROVE  HolderOf(s)' = IF HolderOf(s) # None /\ HolderOf(s).run = r THEN None
                              ELSE HolderOf(s)
    <3>1. CASE s \in Touches(r)
      <4>1. HolderOf(s) = Holding(r, s)
        BY <1>h, <2>1, <3>1 DEF HoldersKnown
      <4>2. \A q \in Pending' : s \notin Touches(q)'
        BY <1>0, <2>1, <3>1 DEF PendingApart
      <4>3. HolderOf(s)' = None
        BY <4>2 DEF HolderOf
      <4> QED
        BY <4>1, <4>3 DEF Holding
    <3>2. ASSUME NEW q \in Pending, q # r, s \in Touches(q)
          PROVE  HolderOf(s)' = IF HolderOf(s) # None /\ HolderOf(s).run = r THEN None
                                ELSE HolderOf(s)
      <4>1. HolderOf(s) = Holding(q, s)
        BY <1>h, <3>2 DEF HoldersKnown
      <4>2. HolderOf(s)' = Holding(q, s)'
        BY <1>h, <2>1, <3>2 DEF HoldersKnown
      <4>3. Holding(q, s)' = Holding(q, s) /\ Holding(q, s).run = q
        BY <2>1 DEF Holding
      <4> QED
        BY <3>2, <4>1, <4>2, <4>3
    <3>3. CASE \A q \in Pending : s \notin Touches(q)
      <4>1. HolderOf(s) = None
        BY <1>h, <3>3 DEF HoldersKnown
      <4>2. HolderOf(s)' = None
        BY <2>1, <3>3 DEF HolderOf
      <4> QED
        BY <4>1, <4>2
    <3> QED
      BY <3>1, <3>2, <3>3
  <2>3. heads' = heads
    BY <1>2, <1>9 DEF Settles
  <2>4. Heads!LetGo(r)
    BY <2>2, <2>3 DEF Heads!LetGo
  <2> QED
    BY <2>4 DEF Heads!Next
<1>10. ASSUME UNCHANGED <<ledgerVars, history>> PROVE [Heads!Next]_(Heads!vars)
  BY <1>1, <1>2, <1>3, <1>10
<1> QED
  BY <1>5, <1>6, <1>7, <1>8, <1>9, <1>10
     DEF ContentStep, Intends, Projects, Receipts, Drops, Unlinks, Renames, Edit

\* File by file, crash by crash, the runtime implements SurfaceHeads: a recorded batch
\* takes all its surfaces together, and until it lets go of one, that surface moves to
\* the announced revision or not at all.
THEOREM ContentImplementsHeads == Spec => ImplementsHeads
<1>1. Init => Heads!Init
  <2> SUFFICES ASSUME Init PROVE Heads!Init
    OBVIOUS
  <2>1. history = [s \in Surfaces |-> <<>>] /\ batch = [r \in Runs |-> None]
    BY DEF Init, LedgerInit
  <2>2. \A s \in Surfaces : HeadAt(s) = None
    BY <2>1 DEF HeadAt, HeadOf
  <2>3. Pending = {}
    BY <2>1 DEF Pending, Recorded
  <2>4. \A s \in Surfaces : HolderOf(s) = None
    BY <2>3 DEF HolderOf
  <2> QED
    BY <2>2, <2>4 DEF Heads!Init
<1>2. ContentInv /\ ContentInv' /\ [Next]_vars => [Heads!Next]_(Heads!vars)
  BY StepsAreContent, HeadsStep
<1> QED
  BY <1>1, <1>2, ContentInvariant, PTL DEF Spec, ImplementsHeads, Heads!Spec
=============================================================================
