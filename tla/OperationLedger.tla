--------------------------- MODULE OperationLedger ---------------------------
(***************************************************************************)
(* OperationLedgerStore of packages/core/src/orchestrate-ledger-store.ts:   *)
(* the durable record / settle facts of every orchestration run.  A fact is *)
(* a file created once (durableCreate) and never changed, so the ledger is  *)
(* a function from run ids to batches and two growing sets of settlements.  *)
(***************************************************************************)
CONSTANTS
  Runs,       \* run ids, drawn fresh for every run
  Triggers,   \* the accepted inputs a run may be started for
  Surfaces,
  Bound,      \* the surfaces the registration of a trigger is bound to
  None

ASSUME BoundAreSurfaces == Bound \in [Triggers -> SUBSET Surfaces]

VARIABLES
  batch,      \* recorded/<run>.json, None when there is none
  settled,    \* runs with settled/<run>.json
  failed      \* runs with settled/<run>.failed.json

ledgerVars == <<batch, settled, failed>>

Recorded == {r \in Runs : batch[r] # None}
Pending == Recorded \ (settled \union failed)
Touches(r) == Bound[batch[r].trigger]

\* Mutant: reservations are not looked at outside of record.
NothingReserved(s, owner) == FALSE

\* assertUnreserved: another pending run holds s.
Reserved(s, owner) == \E q \in Pending \ {owner} : s \in Touches(q)

LedgerInit ==
  /\ batch = [r \in Runs |-> None]
  /\ settled = {} /\ failed = {}

\* One batch per input, and no surface of it held by a pending run.
CanRecord(b) ==
  /\ \A q \in Recorded : batch[q].trigger # b.trigger
  /\ \A q \in Pending : Touches(q) \intersect Bound[b.trigger] = {}

Record(r, b) ==
  /\ batch[r] = None /\ CanRecord(b)
  /\ batch' = [batch EXCEPT ![r] = b]
  /\ UNCHANGED <<settled, failed>>

Settle(r) ==
  /\ r \in Recorded
  /\ settled' = settled \union {r}
  /\ UNCHANGED <<batch, failed>>

SettleFailed(r) ==
  /\ r \in Recorded \ failed
  /\ failed' = failed \union {r}
  /\ UNCHANGED <<batch, settled>>
=============================================================================
