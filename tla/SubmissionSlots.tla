-------------------------- MODULE SubmissionSlots --------------------------
(***************************************************************************)
(* The slot ledgers of launch_vertex_modeling.py, which bound how many     *)
(* paid jobs an efficiency or verification session can create: a JSON file *)
(* rewritten whole under a lock file, a row reserved before the create     *)
(* request, and brought up to date after it and at the end of the job.     *)
(*                                                                         *)
(* Launchers run side by side and may be killed anywhere.  A lock file     *)
(* that survives its launcher is never removed.  The updates of the        *)
(* efficiency ledger read the rows before they take the lock.              *)
(***************************************************************************)
EXTENDS Integers, Sequences, FiniteSets

CONSTANTS
  Launchers,
  NumSlots,       \* slots of the efficiency session; verification has one
  NoLauncher

ASSUME SlotsAssumption == NumSlots \in Nat \ {0} /\ NoLauncher \notin Launchers

VARIABLES
  session,        \* "efficiency" or "verification": the mode in use
  rows,           \* the ledger: the state of each reserved slot
  ledgerLock,     \* whose lock file exists
  run,            \* per launcher: where it is, its slot, its copy of the rows
  created         \* per slot: the launchers that sent a create request for it

slotVars == <<session, rows, ledgerLock, run, created>>

Slots == 1..(IF session = "efficiency" THEN NumSlots ELSE 1)
AllSlots == 1..NumSlots

\* The states of a row in the order they are reached.
Progress == [reserved |-> 1, create_ambiguous |-> 2, submitted |-> 2, failed |-> 3,
             awaiting_validation |-> 3, validated |-> 4]
RowStates == DOMAIN Progress

\* Slot k is next: its predecessors are all reserved and all validated.
NextSlot(ledger, k) == Len(ledger) = k - 1 /\ \A i \in DOMAIN ledger : ledger[i] = "validated"

\* Only an update of the efficiency ledger reads before it locks.
LocksFirst(l) == run[l].op = "reserved" \/ session = "verification"

RunAt(l, where) == run[l].pc = where
RunTo(l, where) == run' = [run EXCEPT ![l].pc = where]

-----------------------------------------------------------------------------
Preflight(l) ==
  /\ RunAt(l, "off")
  /\ \E k \in Slots :
       run' = [run EXCEPT ![l] = [@ EXCEPT !.pc = IF NextSlot(rows, k) THEN "lock" ELSE "done",
                                           !.slot = k, !.op = "reserved"]]
  /\ UNCHANGED <<session, rows, ledgerLock, created>>

\* Mutant: the lock file is taken over.
LockAnyway(l) ==
  /\ RunAt(l, "lock")
  /\ ledgerLock' = l
  /\ RunTo(l, IF LocksFirst(l) THEN "read" ELSE "write")
  /\ UNCHANGED <<session, rows, created>>

\* os.open(O_CREAT | O_EXCL): another lock file ends the launcher.
LockLedger(l) ==
  /\ RunAt(l, "lock")
  /\ IF ledgerLock = NoLauncher
     THEN /\ ledgerLock' = l
          /\ RunTo(l, IF LocksFirst(l) THEN "read" ELSE "write")
     ELSE RunTo(l, "done") /\ UNCHANGED ledgerLock
  /\ UNCHANGED <<session, rows, created>>

\* Where an update of the ledger goes on from what it read.
AfterRead(l) ==
  CASE run[l].slot \notin DOMAIN rows -> IF LocksFirst(l) THEN "refused" ELSE "done"
    [] run[l].slot \in DOMAIN rows -> IF LocksFirst(l) THEN "write" ELSE "lock"

\* Mutant: a reservation relies on the preflight.
ReserveUnchecked(l) == "write"

\* A reservation checks the sequence again on what it reads under the lock.
Reserve(l) == IF NextSlot(rows, run[l].slot) THEN "write" ELSE "refused"

ReadLedger(l) ==
  /\ RunAt(l, "read")
  /\ LET next == IF run[l].op = "reserved" THEN Reserve(l) ELSE AfterRead(l) IN
       run' = [run EXCEPT ![l] = [@ EXCEPT !.pc = next,
                                           !.copy = IF next = "done" THEN <<>> ELSE rows]]
  /\ UNCHANGED <<session, rows, ledgerLock, created>>

WriteLedger(l) ==
  LET k == run[l].slot IN
  /\ RunAt(l, "write")
  /\ rows' = IF run[l].op = "reserved" THEN Append(run[l].copy, "reserved")
             ELSE [run[l].copy EXCEPT ![k] = run[l].op]
  /\ run' = [run EXCEPT ![l] = [@ EXCEPT !.pc = "unlock", !.copy = <<>>]]
  /\ UNCHANGED <<session, ledgerLock, created>>

\* The lock file is removed, and the launcher goes on where the update belongs.
AfterUnlock(l) ==
  IF RunAt(l, "unlock") /\ run[l].op = "reserved" THEN "create"
  ELSE IF RunAt(l, "unlock") /\ run[l].op = "submitted" THEN "poll"
  ELSE "done"

UnlockLedger(l) ==
  /\ run[l].pc \in {"unlock", "refused"}
  /\ ledgerLock' = NoLauncher
  /\ run' = [run EXCEPT ![l] = [@ EXCEPT !.copy = <<>>, !.pc = AfterUnlock(l)]]
  /\ UNCHANGED <<session, rows, created>>

\* _update_efficiency_slot, _update_verification_slot.
UpdateSlot(l, state) ==
  run' = [run EXCEPT ![l] =
            [@ EXCEPT !.op = state,
                      !.pc = IF session = "efficiency" THEN "read" ELSE "lock"]]

\* One create request without retries.  It may fail although a job is created: the
\* verification ledger records that, the efficiency row stays "reserved".
CreateJob(l) ==
  /\ RunAt(l, "create")
  /\ created' = [created EXCEPT ![run[l].slot] = @ \cup {l}]
  /\ \/ UpdateSlot(l, "submitted")
     \/ session = "verification" /\ UpdateSlot(l, "create_ambiguous")
     \/ session = "efficiency" /\ RunTo(l, "done")
  /\ UNCHANGED <<session, rows, ledgerLock>>

\* The job ended, or its launcher could not follow it to the end.
PollJob(l) ==
  /\ RunAt(l, "poll")
  /\ \/ \E state \in {"awaiting_validation", "failed"} : UpdateSlot(l, state)
     \/ RunTo(l, "done")
  /\ UNCHANGED <<session, rows, ledgerLock, created>>

KillLauncher(l) ==
  /\ run[l].pc \notin {"off", "done"}
  /\ run' = [run EXCEPT ![l] = [@ EXCEPT !.pc = "done", !.copy = <<>>]]
  /\ UNCHANGED <<session, rows, ledgerLock, created>>

\* Outside: the evidence of a slot passes its independent validator.
ValidateSlot(k) ==
  /\ k \in DOMAIN rows
  /\ rows[k] = "awaiting_validation"
  /\ rows' = [rows EXCEPT ![k] = "validated"]
  /\ UNCHANGED <<session, ledgerLock, run, created>>

SlotsInit ==
  /\ session \in {"efficiency", "verification"}
  /\ rows = <<>>
  /\ ledgerLock = NoLauncher
  /\ run = [l \in Launchers |-> [pc |-> "off", slot |-> 1, op |-> "reserved", copy |-> <<>>]]
  /\ created = [k \in AllSlots |-> {}]

SlotsNext ==
  \/ \E l \in Launchers :
       \/ Preflight(l) \/ LockLedger(l) \/ ReadLedger(l) \/ WriteLedger(l)
       \/ UnlockLedger(l) \/ CreateJob(l) \/ PollJob(l) \/ KillLauncher(l)
  \/ \E k \in AllSlots : ValidateSlot(k)

SlotsSpec == SlotsInit /\ [][SlotsNext]_slotVars

-----------------------------------------------------------------------------
SlotsTypeOK ==
  /\ session \in {"efficiency", "verification"}
  /\ rows \in Seq(RowStates)
  /\ ledgerLock \in Launchers \cup {NoLauncher}
  /\ run \in [Launchers -> [pc : {"off", "lock", "read", "refused", "write", "unlock",
                                  "create", "poll", "done"},
                            slot : AllSlots, op : RowStates, copy : Seq(RowStates)]]
  /\ created \in [AllSlots -> SUBSET Launchers]

\* A slot pays for one job at most, and only after every slot before it has been
\* validated, however many launchers race for it and wherever they are killed
\* (launch_vertex_modeling.py:478-525, 575-607).
OneCreatePerSlot ==
  \A k \in AllSlots :
    /\ Cardinality(created[k]) <= 1
    /\ created[k] # {} => k \in DOMAIN rows /\ \A i \in 1..(k - 1) : rows[i] = "validated"

\* No rewrite of the ledger loses a reservation or takes a slot back, though an
\* efficiency update writes rows it read before it had the lock
\* (launch_vertex_modeling.py:528-533).
RowsOnlyAdvance ==
  [][\A k \in DOMAIN rows :
       k \in DOMAIN rows' /\ Progress[rows[k]] <= Progress[rows'[k]]]_slotVars
=============================================================================
