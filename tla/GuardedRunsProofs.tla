-------------------------- MODULE GuardedRunsProofs --------------------------
(***************************************************************************)
(* Proofs about RunGuard and about the pipeline behind it, GuardedRuns,    *)
(* for any runs, hosts, scenes, configurations and faults, when every host *)
(* runs the pipeline under one account and the client's delete names the   *)
(* generation it read (GuardAssumptions).                                  *)
(***************************************************************************)
EXTENDS GuardedRuns, WellFoundedInduction, TLAPS

(* The guard.                                                              *)

\* The owner a run has read, and the owner of the object, have been started: an
\* owner found dead stays dead.
OwnersHaveStarted ==
  /\ lock # NoRun => pc[lock] # "idle"
  /\ \A r \in Runs : pc[r] \in {"probe", "delete"} =>
       seen[r] \in Runs /\ pc[seen[r]] # "idle"

\* A run that reclaims does it on its own host.
ReclaimersAreLocal == \A r \in Runs : pc[r] = "delete" => Host[seen[r]] = Host[r]

GuardInv ==
  /\ TypeOK
  /\ OwnersHaveStarted
  /\ ReclaimersAreLocal
  /\ WorkerOwnsLock
  /\ ReclaimsAbsentOwnerOnly

\* No run has started: the invariant holds.
LEMMA GuardStarts == Init => GuardInv
  BY NoRunAssumption
     DEF Init, GuardInv, TypeOK, Active, Stopped, OwnersHaveStarted, ReclaimersAreLocal, WorkerOwnsLock,
         ReclaimsAbsentOwnerOnly

\* Every action keeps the invariant.
LEMMA GuardKeeps == GuardAssumptions /\ GuardInv /\ [Next]_vars => GuardInv'
<1> SUFFICES ASSUME GuardAssumptions, GuardInv, [Next]_vars PROVE GuardInv'
  OBVIOUS
<1> USE NoRunAssumption
    DEF GuardInv, TypeOK, Active, Stopped, OwnersHaveStarted, ReclaimersAreLocal, WorkerOwnsLock,
        ReclaimsAbsentOwnerOnly, Live, Goto, OnlyMoves
<1>1. ASSUME NEW r \in Runs, NEW p \in Pids, Start(r, p) PROVE GuardInv'
  BY <1>1 DEF Start
<1>2. ASSUME NEW r \in Runs, CheckExists(r) PROVE GuardInv'
  BY <1>2 DEF CheckExists
<1>3. ASSUME NEW r \in Runs, ReadRecord(r) PROVE GuardInv'
  BY <1>3 DEF ReadRecord
<1>4. ASSUME NEW r \in Runs, Probe(r) PROVE GuardInv'
  <2>1. CASE Host[seen[r]] = Host[r] /\ ~SignalSucceeds(r, seen[r])
    <3>1. seen[r] \in Runs /\ User[seen[r]] = User[r]
      BY <1>4, <2>1 DEF Probe, GuardAssumptions, OneUserPerHost
    <3>2. ~Live(seen[r])
      BY <2>1, <3>1 DEF SignalSucceeds
    <3>3. pc' = [pc EXCEPT ![r] = "delete"] /\ pc[r] = "probe" /\ UNCHANGED <<lock, pid, seen>>
      BY <1>4, <2>1 DEF Probe
    <3>4. QED
      BY <2>1, <3>1, <3>2, <3>3
  <2>2. CASE ~(Host[seen[r]] = Host[r] /\ ~SignalSucceeds(r, seen[r]))
    <3>1. pc' = [pc EXCEPT ![r] = "refused"] /\ pc[r] = "probe" /\ UNCHANGED <<lock, pid, seen>>
      BY <1>4, <2>2 DEF Probe
    <3>2. QED
      BY <3>1
  <2>3. QED
    BY <2>1, <2>2
<1>5. ASSUME NEW r \in Runs, DeleteStale(r) PROVE GuardInv'
  <2>1. CASE lock = seen[r] /\ lock # NoRun
    <3>1. lock' = NoRun /\ pc' = [pc EXCEPT ![r] = "create"] /\ pc[r] = "delete" /\ UNCHANGED <<pid, seen>>
      BY <1>5, <2>1 DEF DeleteStale
    <3>2. QED
      BY <2>1, <3>1
  <2>2. CASE ~(lock = seen[r] /\ lock # NoRun)
    <3>1. lock' = lock /\ pc' = [pc EXCEPT ![r] = "failed"] /\ pc[r] = "delete" /\ UNCHANGED <<pid, seen>>
      BY <1>5, <2>2 DEF DeleteStale, GuardAssumptions
    <3>2. QED
      BY <3>1
  <2>3. QED
    BY <2>1, <2>2
<1>6. ASSUME NEW r \in Runs, CreateLock(r) PROVE GuardInv'
  <2>1. CASE lock = NoRun
    <3>1. lock' = r /\ pc' = [pc EXCEPT ![r] = "running"] /\ pc[r] = "create" /\ UNCHANGED <<pid, seen>>
      BY <1>6, <2>1 DEF CreateLock
    <3>2. QED
      BY <2>1, <3>1
  <2>2. CASE lock # NoRun
    <3>1. lock' = lock /\ pc' = [pc EXCEPT ![r] = "refused"] /\ pc[r] = "create" /\ UNCHANGED <<pid, seen>>
      BY <1>6, <2>2 DEF CreateLock
    <3>2. QED
      BY <3>1
  <2>3. QED
    BY <2>1, <2>2
<1>7. ASSUME NEW r \in Runs, CreateLate(r) PROVE GuardInv'
  BY <1>7 DEF CreateLate
<1>8. ASSUME NEW r \in Runs, FinishWork(r) \/ ReleaseFails(r) \/ StepRaises(r) \/ Kill(r) PROVE GuardInv'
  BY <1>8 DEF FinishWork, ReleaseFails, StepRaises, Kill
<1>9. ASSUME NEW r \in Runs, ReleaseLock(r) PROVE GuardInv'
  BY <1>9 DEF ReleaseLock
<1>10. CASE OperatorRemoves
  BY <1>10 DEF OperatorRemoves
<1>11. CASE UNCHANGED vars
  BY <1>11 DEF vars
<1>12. QED
  BY <1>1, <1>2, <1>3, <1>4, <1>5, <1>6, <1>7, <1>8, <1>9, <1>10, <1>11 DEF Next, Step

\* GuardInv holds in every reachable state.
LEMMA GuardInvariance == ASSUME GuardAssumptions PROVE Spec => []GuardInv
  BY GuardStarts, GuardKeeps, PTL DEF Spec

\* At most one guarded run works at a time: the one whose lock object exists.
THEOREM GuardExcludes == ASSUME GuardAssumptions PROVE Spec => []WorkerOwnsLock
<1>1. GuardInv => WorkerOwnsLock
  BY DEF GuardInv
<1>2. QED
  BY GuardInvariance, <1>1, PTL

\* Only a run that found the owner's process gone is about to reclaim its lock.
THEOREM ReclaimIsSafe == ASSUME GuardAssumptions PROVE Spec => []ReclaimsAbsentOwnerOnly
<1>1. GuardInv => ReclaimsAbsentOwnerOnly
  BY DEF GuardInv
<1>2. QED
  BY GuardInvariance, <1>1, PTL

\* A lock of another host is never deleted by a reclaiming run.
THEOREM ForeignLocksAreKept == ASSUME GuardAssumptions PROVE Spec => ReclaimsOwnHostOnly
<1> DEFINE Local == \A r \in Runs : pc[r] = "delete" /\ pc'[r] = "create" => Host[lock] = Host[r]
<1>1. ASSUME GuardInv, [Next]_vars PROVE Local
  <2> SUFFICES ASSUME NEW r \in Runs, pc[r] = "delete", pc'[r] = "create"
               PROVE  Host[lock] = Host[r]
    OBVIOUS
  <2>1. DeleteStale(r)
    BY <1>1 DEF GuardInv, TypeOK, Next, Step, Goto, OnlyMoves, vars, Start, CheckExists, ReadRecord, Probe,
                DeleteStale, CreateLock, CreateLate, FinishWork, ReleaseLock, ReleaseFails, StepRaises,
                Kill, OperatorRemoves
  <2>2. lock = seen[r]
    BY <1>1, <2>1 DEF DeleteStale, GuardAssumptions, Goto, GuardInv, TypeOK
  <2>3. QED
    BY <1>1, <2>2 DEF GuardInv, ReclaimersAreLocal
<1>2. QED
  BY GuardInvariance, <1>1, PTL DEF Spec, ReclaimsOwnHostOnly


-----------------------------------------------------------------------------
(* The pipeline behind the guard.                                          *)

InWork(r) == at[r] \in {"claim", "row", "failed"} \cup Names
Loaded(r) == at[r] = "item" \/ InWork(r)

\* Only a running run is in a call or has a result, and what it works on is left to do.
CallPart(r) ==
  /\ at[r] \notin {"off", "over"} \/ status[r] # "none" => pc[r] = "running"
  /\ status[r] # "none" => at[r] = "over"
  /\ InWork(r) => todo[r] # {}

\* Its copy of the ledger is the stored one, but for a row whose write has failed; the
\* row of the product it replaces is in neither done.
LedgerPart(r) ==
  /\ Loaded(r) /\ at[r] # "failed" => table[r] = rows
  /\ at[r] = "failed" => \A i \in Items \ {Item(r)} : table[r][i] = rows[i]
  /\ at[r] \in Names \cup {"row"} => rows[Item(r)].status = "exporting"

\* The artifacts before the one it is about to replace are those of its configuration.
WrittenPart(r) ==
  /\ \A n \in 1..4 : at[r] = Artifacts[n] =>
       \A m \in 1..4 : m < n => stored[Item(r)][Artifacts[m]] = FingerprintOf(r, Item(r))
  /\ at[r] = "row" => \A n \in Names : stored[Item(r)][n] = FingerprintOf(r, Item(r))

\* What it was asked for and has left behind is delivered, unless an item failed.
Delivered(r, i) ==
  /\ rows[i] = Row("done", FingerprintOf(r, i))
  /\ stored[i].cog = FingerprintOf(r, i) /\ stored[i].complete = FingerprintOf(r, i)

ScopePart(r) ==
  /\ Loaded(r) /\ r \notin failed =>
       \A i \in WorkList(setup[r].scope) \ todo[r] : Delivered(r, i)
  /\ status[r] = "zero" => DeliversAll(r)

CallInv(r) == CallPart(r) /\ LedgerPart(r) /\ WrittenPart(r) /\ ScopePart(r)

GuardedInv ==
  /\ GuardInv
  /\ DynamicTypeOK
  /\ DoneRowsNameTheirArtifacts
  /\ \A r \in Invocations : CallInv(r)

\* Among numbers there is a first.
LEMMA LeastNumber ==
  ASSUME NEW S, S \subseteq Nat, S # {}
  PROVE  \E n \in S : \A m \in S : n <= m
  <1> DEFINE R == OpToRel(<, Nat)
  <1>1. IsWellFoundedOn(R, Nat)
    BY NatLessThanWellFounded, Zenon
  <1>2. \A x, y \in Nat : <<y, x>> \in R <=> y < x
    BY DEF OpToRel
  <1> HIDE DEF R
  <1>3. PICK x \in S : \A y \in S : ~(<<y, x>> \in R)
    BY <1>1, WFMin
  <1>4. \A y \in S : ~(y < x)
    BY <1>2, <1>3
  <1>5. x \in Nat /\ \A y \in S : y \in Nat
    OBVIOUS
  <1> QED
    BY <1>4, <1>5

\* The parts of an item.
LEMMA ItemType ==
  ASSUME NEW i \in Items
  PROVE  i[1] \in Scenes /\ i[2] \in Sources /\ Turn(i) \in Nat /\ i \in ItemsOf(i[1])
  <1>1. PICK s \in Scenes : i \in ItemsOf(s)
    BY DEF Items, WorkList
  <1>2. PICK source \in Sources : i = <<s, source>> /\ source \in IF s \in Dark THEN {"era5_land"} ELSE Sources
    BY <1>1 DEF ItemsOf, Sources, Stage
  <1>3. i[1] = s /\ i[2] = source
    BY <1>2
  <1>4. Stage[source] \in Nat
    BY DEF Stage, Sources
  <1>5. s \in Nat
    BY DynamicAssumption DEF DynamicAssumption, Scenes
  <1> QED
    BY <1>1, <1>3, <1>4, <1>5 DEF Turn

\* The item a call works on is one it has still to do.
LEMMA ItemIsLeft ==
  ASSUME DynamicTypeOK, NEW r \in Invocations, todo[r] # {}
  PROVE  Item(r) \in todo[r] /\ Item(r) \in Items
  <1> DEFINE S == {Turn(i) : i \in todo[r]}
  <1>1. todo[r] \subseteq Items
    BY DEF DynamicTypeOK
  <1>2. S \subseteq Nat /\ S # {}
    BY <1>1, ItemType
  <1>3. PICK n \in S : \A m \in S : n <= m
    BY <1>2, LeastNumber
  <1>4. PICK i \in todo[r] : Turn(i) = n
    BY <1>3
  <1>5. \A j \in todo[r] : Turn(i) <= Turn(j)
    BY <1>3, <1>4
  <1>6. Item(r) \in todo[r]
    BY <1>5 DEF Item
  <1> QED
    BY <1>1, <1>6

\* A hash of the run's configuration is one of the hashes and not the absent one.
LEMMA FingerprintType ==
  ASSUME DynamicTypeOK, NEW r \in Invocations, NEW i \in Items
  PROVE  FingerprintOf(r, i) \in Hashes /\ FingerprintOf(r, i) # None
  <1>1. setup[r].config \in Configs /\ i[2] \in Sources
    BY ItemType DEF DynamicTypeOK
  <1> QED
    BY <1>1, DynamicAssumption DEF FingerprintOf, Hashes, DynamicAssumption

\* The rows a call writes.
LEMMA RowType ==
  /\ \A h \in Hashes : Row("done", h) \in {Row("done", g) : g \in Hashes}
  /\ \A st \in {"none", "exporting", "failed"} :
       Row(st, None) \in {Row(s, h) : s \in {"none", "exporting", "failed"}, h \in {None}}
  /\ \A st, h : Row(st, h).status = st /\ Row(st, h).hash = h
  BY DEF Row

\* A work list that has not changed has the same first item.
LEMMA ItemStays ==
  ASSUME UNCHANGED todo
  PROVE  \A r \in Invocations : Item(r)' = Item(r)
  BY DEF Item

\* A step of one call: the others are not in one.
LEMMA OneCallMoves ==
  ASSUME GuardedInv, NEW r \in Invocations, pc[r] = "running", UNCHANGED vars,
         \A q \in Invocations \ {r} : at'[q] = at[q] /\ status'[q] = status[q],
         DynamicTypeOK', DoneRowsNameTheirArtifacts', CallInv(r)'
  PROVE  GuardedInv'
  <1>1. GuardInv' /\ pc' = pc
    BY DEF GuardedInv, vars, GuardInv, TypeOK, OwnersHaveStarted, ReclaimersAreLocal,
           WorkerOwnsLock, ReclaimsAbsentOwnerOnly, Live
  <1>2. ASSUME NEW q \in Invocations \ {r}
        PROVE  CallInv(q)'
    <2>1. pc[q] # "running"
      BY GuardedAssumption DEF GuardedAssumption, GuardedInv, GuardInv, WorkerOwnsLock
    <2>2. at'[q] \in {"off", "over"} /\ status'[q] = "none"
      BY <2>1 DEF GuardedInv, CallInv, CallPart
    <2>3. at'[q] \notin {"item", "claim", "row", "failed"} \cup Names
      BY <2>2 DEF Names, Artifacts
    <2> QED
      BY <2>2, <2>3 DEF CallInv, CallPart, LedgerPart, WrittenPart, ScopePart, Loaded, InWork, Names
  <1> QED
    BY <1>1, <1>2 DEF GuardedInv

\* An upsert changes one row of the run's copy.
LEMMA UpsertMoves ==
  ASSUME DynamicTypeOK, NEW r \in Invocations, Item(r) \in Items, NEW st, NEW h,
         \/ st \in {"exporting", "failed"} /\ h = None
         \/ st = "done" /\ h \in Hashes,
         Upsert(r, st, h)
  PROVE  /\ table' \in [Invocations -> Ledger] /\ table'[r] \in Ledger
         /\ table'[r][Item(r)].status = st /\ table'[r][Item(r)].hash = h
         /\ table'[r][Item(r)] = Row(st, h)
         /\ \A i \in Items \ {Item(r)} : table'[r][i] = table[r][i]
  <1> DEFINE T == {Row(s, g) : s \in {"none", "exporting", "failed"}, g \in {None}}
                  \cup {Row("done", g) : g \in Hashes}
             x == Row(st, h)
  <1>1. x \in T /\ x.status = st /\ x.hash = h
    BY RowType
  <1>2. table \in [Invocations -> [Items -> T]]
    BY DEF DynamicTypeOK, Ledger
  <1>3. table' = [table EXCEPT ![r][Item(r)] = x]
    BY DEF Upsert
  <1> HIDE DEF T, x
  <1>4. /\ table' \in [Invocations -> [Items -> T]] /\ table'[r] \in [Items -> T]
        /\ table'[r][Item(r)] = x /\ \A i \in Items \ {Item(r)} : table'[r][i] = table[r][i]
    BY <1>1, <1>2, <1>3
  <1> QED
    BY <1>1, <1>4 DEF T, x, Ledger

\* The ledger on disk is whole after a row was written back or its write has raised.
LEMMA PersistMoves ==
  ASSUME DynamicTypeOK, NEW r \in Invocations, table'[r] \in Ledger,
         (Persist(r) /\ UNCHANGED faults) \/ PersistRaises(r)
  PROVE  rows' \in Ledger /\ faults' \in 0..MaxFaults /\ rows' \in {rows, table'[r]}
  BY DynamicAssumption DEF DynamicTypeOK, Persist, PersistRaises, Fault, DynamicAssumption

\* A call that ends before the audit.
LEMMA CallEnds ==
  ASSUME GuardedInv, NEW r \in Invocations, pc[r] = "running", UNCHANGED vars,
         NEW how \in {"one", "raised"}, Ends(r, how),
         rows' \in Ledger, table' \in [Invocations -> Ledger], faults' \in 0..MaxFaults,
         DoneRowsNameTheirArtifacts', UNCHANGED <<stored, setup, todo, failed, losses>>
  PROVE  GuardedInv'
  <1>1. /\ at' = [at EXCEPT ![r] = "over"] /\ status' = [status EXCEPT ![r] = how]
        /\ DynamicTypeOK
    BY DEF Ends, To, GuardedInv
  <1>2. DynamicTypeOK' /\ at'[r] = "over" /\ status'[r] = how
    BY <1>1 DEF DynamicTypeOK
  <1>3. CallInv(r)'
    BY <1>2 DEF CallInv, CallPart, LedgerPart, WrittenPart, ScopePart, Loaded, InWork, Names,
                Artifacts, vars
  <1>4. \A q \in Invocations \ {r} : at'[q] = at[q] /\ status'[q] = status[q]
    BY <1>1 DEF DynamicTypeOK
  <1> QED
    BY <1>2, <1>3, <1>4, OneCallMoves

\* A call that goes on.
LEMMA CallGoesOn ==
  ASSUME GuardedInv, NEW r \in Invocations, pc[r] = "running", UNCHANGED <<vars, status, losses>>,
         at[r] # "over", NEW step \in Unfinished, To(r, step), DoneRowsNameTheirArtifacts',
         rows' \in Ledger, table' \in [Invocations -> Ledger],
         stored' \in [Items -> [Names -> Hashes \cup {None}]],
         setup' \in [Invocations -> [config : Configs, scope : SUBSET Scenes]],
         todo' \in [Invocations -> SUBSET Items], failed' \subseteq Invocations,
         faults' \in 0..MaxFaults,
         InWork(r)' => todo'[r] # {}, LedgerPart(r)', WrittenPart(r)',
         Loaded(r)' /\ r \notin failed' =>
           \A i \in WorkList(setup'[r].scope) \ todo'[r] : Delivered(r, i)'
  PROVE  GuardedInv'
  <1>1. at' = [at EXCEPT ![r] = step] /\ DynamicTypeOK /\ CallPart(r)
    BY DEF To, GuardedInv, CallInv
  <1>2. DynamicTypeOK' /\ at'[r] = step
    BY <1>1 DEF DynamicTypeOK
  <1>3. status'[r] = "none"
    BY <1>1 DEF CallPart
  <1>4. CallInv(r)'
    BY <1>2, <1>3 DEF CallInv, CallPart, ScopePart, vars
  <1>5. \A q \in Invocations \ {r} : at'[q] = at[q] /\ status'[q] = status[q]
    BY <1>1 DEF DynamicTypeOK
  <1> QED
    BY <1>2, <1>4, <1>5, OneCallMoves

\* The steps of a call outside its items.
LEMMA CallOpens ==
  ASSUME GuardedInv, NEW r \in Invocations, pc[r] = "running", UNCHANGED vars,
         Call(r) \/ PreflightFails(r) \/ OpenLedger(r) \/ Audit(r) \/ ReportRaises(r)
  PROVE  GuardedInv'
  <1>1. /\ DynamicTypeOK /\ CallInv(r) /\ DoneRowsNameTheirArtifacts
        /\ rows \in Ledger /\ table \in [Invocations -> Ledger]
        /\ stored \in [Items -> [Names -> Hashes \cup {None}]]
        /\ setup \in [Invocations -> [config : Configs, scope : SUBSET Scenes]]
        /\ todo \in [Invocations -> SUBSET Items] /\ failed \subseteq Invocations
        /\ at \in [Invocations -> Unfinished \cup {"off", "over"}]
        /\ faults \in 0..MaxFaults
    BY DEF GuardedInv, DynamicTypeOK
  <1>2. Fault => faults' \in 0..MaxFaults
    BY <1>1, DynamicAssumption DEF Fault, DynamicAssumption
  <1>3. UNCHANGED <<rows, stored>> => DoneRowsNameTheirArtifacts'
    BY <1>1 DEF DoneRowsNameTheirArtifacts
  <1>4. CASE Call(r)
    <2>1. /\ at[r] = "off" /\ To(r, "open")
          /\ UNCHANGED <<rows, table, stored, todo, failed, status, faults, losses>>
      BY <1>4 DEF Call
    <2>2. PICK c \in Configs, sc \in SUBSET Scenes :
            setup' = [setup EXCEPT ![r] = [config |-> c, scope |-> sc]]
      BY <1>4 DEF Call
    <2>3. setup' \in [Invocations -> [config : Configs, scope : SUBSET Scenes]]
      BY <1>1, <2>2
    <2>4. at'[r] = "open"
      BY <1>1, <2>1 DEF To
    <2>5. ~Loaded(r)' /\ ~InWork(r)' /\ LedgerPart(r)' /\ WrittenPart(r)'
      BY <2>4 DEF Loaded, InWork, LedgerPart, WrittenPart, Names, Artifacts
    <2>6. "open" \in Unfinished
      BY DEF Unfinished
    <2> QED
      BY <1>1, <1>3, <2>1, <2>3, <2>5, <2>6, CallGoesOn
  <1>5. CASE PreflightFails(r)
    <2>1. PICK how \in {"one", "raised"} : Ends(r, how)
      BY <1>5 DEF PreflightFails
    <2>2. Fault /\ UNCHANGED <<rows, table, stored, setup, todo, failed, losses>>
      BY <1>5 DEF PreflightFails
    <2> QED
      BY <1>1, <1>2, <1>3, <2>1, <2>2, CallEnds
  <1>6. CASE OpenLedger(r)
    <2>1. /\ at[r] = "open" /\ To(r, "item") /\ table' = [table EXCEPT ![r] = rows]
          /\ todo' = [todo EXCEPT ![r] = WorkList(setup[r].scope)]
          /\ UNCHANGED <<rows, stored, setup, failed, status, faults, losses>>
      BY <1>6 DEF OpenLedger
    <2>2. WorkList(setup[r].scope) \subseteq Items
      BY <1>1 DEF Items, WorkList
    <2>3. /\ table' \in [Invocations -> Ledger] /\ table'[r] = rows
          /\ todo' \in [Invocations -> SUBSET Items] /\ todo'[r] = WorkList(setup'[r].scope)
      BY <1>1, <2>1, <2>2
    <2>4. at'[r] = "item"
      BY <1>1, <2>1 DEF To
    <2>5. ~InWork(r)' /\ LedgerPart(r)' /\ WrittenPart(r)'
      BY <2>1, <2>3, <2>4 DEF InWork, LedgerPart, WrittenPart, Names, Artifacts
    <2>6. "item" \in Unfinished /\ at[r] # "over"
      BY <2>1 DEF Unfinished
    <2> QED
      BY <1>1, <1>3, <2>1, <2>3, <2>5, <2>6, CallGoesOn
  <1>7. CASE Audit(r)
    <2>1. /\ at[r] = "item" /\ todo[r] = {}
          /\ UNCHANGED <<rows, table, stored, setup, todo, failed, faults, losses>>
      BY <1>7 DEF Audit
    <2>2. CASE Ends(r, "one")
      BY <1>1, <1>3, <2>1, <2>2, CallEnds
    <2>3. CASE FailedRows(r) = {} /\ r \notin failed /\ Ends(r, "zero")
      <3>1. /\ at' = [at EXCEPT ![r] = "over"] /\ status' = [status EXCEPT ![r] = "zero"]
        BY <2>3 DEF Ends, To
      <3>2. DynamicTypeOK' /\ at'[r] = "over" /\ status'[r] = "zero"
        BY <1>1, <2>1, <3>1 DEF DynamicTypeOK
      <3>3. table[r] = rows /\ \A i \in WorkList(setup[r].scope) : Delivered(r, i)
        BY <1>1, <2>1, <2>3 DEF CallInv, LedgerPart, ScopePart, Loaded
      <3>4. \A i \in Items : i[1] \in setup[r].scope => i \in WorkList(setup[r].scope)
        BY ItemType DEF WorkList
      <3>5. \A i \in Items : rows[i].status \notin {"failed", "exporting"}
        BY <2>3, <3>3 DEF FailedRows
      <3>6. DeliversAll(r)'
        BY <2>1, <3>3, <3>4, <3>5 DEF DeliversAll, Delivered, FingerprintOf
      <3>7. CallInv(r)'
        BY <3>2, <3>6 DEF CallInv, CallPart, LedgerPart, WrittenPart, ScopePart, Loaded, InWork,
                          Names, Artifacts, vars
      <3>8. \A q \in Invocations \ {r} : at'[q] = at[q] /\ status'[q] = status[q]
        BY <1>1, <3>1 DEF DynamicTypeOK
      <3> QED
        BY <1>3, <2>1, <3>2, <3>7, <3>8, OneCallMoves
    <2> QED
      BY <1>7, <2>2, <2>3 DEF Audit
  <1>8. CASE ReportRaises(r)
    <2>1. Fault /\ Ends(r, "raised") /\ UNCHANGED <<rows, table, stored, setup, todo, failed, losses>>
      BY <1>8 DEF ReportRaises
    <2> QED
      BY <1>1, <1>2, <1>3, <2>1, CallEnds
  <1> QED
    BY <1>4, <1>5, <1>6, <1>7, <1>8

\* What every step on an item starts from.
LEMMA BeforeItem ==
  ASSUME GuardedInv, NEW r \in Invocations
  PROVE  /\ DynamicTypeOK /\ CallInv(r) /\ DoneRowsNameTheirArtifacts
         /\ rows \in Ledger /\ table \in [Invocations -> Ledger]
         /\ stored \in [Items -> [Names -> Hashes \cup {None}]]
         /\ setup \in [Invocations -> [config : Configs, scope : SUBSET Scenes]]
         /\ todo \in [Invocations -> SUBSET Items] /\ failed \subseteq Invocations
         /\ at \in [Invocations -> Unfinished \cup {"off", "over"}]
         /\ faults \in 0..MaxFaults
         /\ Fault => faults' \in 0..MaxFaults
         /\ UNCHANGED <<rows, stored>> => DoneRowsNameTheirArtifacts'
         /\ UNCHANGED todo => Item(r)' = Item(r)
  <1>1. DynamicTypeOK /\ CallInv(r) /\ DoneRowsNameTheirArtifacts
    BY DEF GuardedInv
  <1>2. Fault => faults' \in 0..MaxFaults
    BY <1>1, DynamicAssumption DEF Fault, DynamicAssumption, DynamicTypeOK
  <1>3. UNCHANGED <<rows, stored>> => DoneRowsNameTheirArtifacts'
    BY <1>1 DEF DoneRowsNameTheirArtifacts
  <1>4. UNCHANGED todo => Item(r)' = Item(r)
    BY ItemStays
  <1> QED
    BY <1>1, <1>2, <1>3, <1>4 DEF DynamicTypeOK

\* reconcile: an item that is up to date is passed over.
LEMMA ReconcileKeeps ==
  ASSUME GuardedInv, NEW r \in Invocations, pc[r] = "running", UNCHANGED vars, Reconcile(r)
  PROVE  GuardedInv'
  <1> USE BeforeItem
  <1>1. /\ at[r] = "item" /\ todo[r] # {}
        /\ UNCHANGED <<rows, table, stored, setup, failed, status, faults, losses>>
    BY DEF Reconcile
  <1>2. Item(r) \in todo[r] /\ Item(r) \in Items
    BY <1>1, ItemIsLeft
  <1>3. /\ table[r] = rows
        /\ r \notin failed => \A i \in WorkList(setup[r].scope) \ todo[r] : Delivered(r, i)
    BY <1>1 DEF CallInv, LedgerPart, ScopePart, Loaded
  <1>4. {"item", "claim"} \subseteq Unfinished /\ at[r] # "over"
    BY <1>1 DEF Unfinished
  <1>5. CASE UpToDate(r, Item(r))
    <2>1. todo' = [todo EXCEPT ![r] = @ \ {Item(r)}] /\ UNCHANGED at
      BY <1>5 DEF Reconcile
    <2>2. To(r, "item")
      BY <1>1, <2>1 DEF To
    <2>3. todo' \in [Invocations -> SUBSET Items] /\ todo'[r] = todo[r] \ {Item(r)}
      BY <2>1
    <2>4. ~InWork(r)' /\ LedgerPart(r)' /\ WrittenPart(r)'
      BY <1>1, <1>3, <2>1 DEF InWork, LedgerPart, WrittenPart, Names, Artifacts
    <2>5. rows[Item(r)] = Row("done", FingerprintOf(r, Item(r)))
      BY <1>3, <1>5 DEF UpToDate
    <2>6. {"cog", "complete"} \subseteq Names
      BY DEF Names, Artifacts
    <2>7. Delivered(r, Item(r))
      BY <1>2, <1>5, <2>5, <2>6, RowType DEF Delivered, UpToDate, DoneRowsNameTheirArtifacts
    <2>8. r \notin failed => \A i \in WorkList(setup[r].scope) \ todo'[r] : Delivered(r, i)
      BY <1>3, <2>3, <2>7
    <2>9. r \notin failed' =>
            \A i \in WorkList(setup'[r].scope) \ todo'[r] : Delivered(r, i)'
      BY <1>1, <2>8 DEF Delivered, FingerprintOf
    <2> QED
      BY <1>1, <1>4, <2>2, <2>3, <2>4, <2>9, CallGoesOn
  <1>6. CASE ~UpToDate(r, Item(r))
    <2>1. To(r, "claim") /\ UNCHANGED todo
      BY <1>6 DEF Reconcile
    <2>2. at'[r] = "claim"
      BY <2>1 DEF To
    <2>3. LedgerPart(r)' /\ WrittenPart(r)'
      BY <1>1, <1>3, <2>2 DEF LedgerPart, WrittenPart, Names, Artifacts
    <2>4. r \notin failed' =>
            \A i \in WorkList(setup'[r].scope) \ todo'[r] : Delivered(r, i)'
      BY <1>1, <1>3, <2>1 DEF Delivered, FingerprintOf
    <2> QED
      BY <1>1, <1>4, <2>1, <2>3, <2>4, CallGoesOn
  <1> QED
    BY <1>5, <1>6

\* A row that is not done says nothing of the artifacts of its item.
LEMMA DoneRowsStay ==
  ASSUME DoneRowsNameTheirArtifacts, NEW i \in Items,
         \A j \in Items \ {i} : rows'[j] = rows[j] /\ stored'[j] = stored[j],
         \/ rows'[i] = rows[i] /\ stored'[i] = stored[i]
         \/ rows'[i].status # "done"
         \/ \A n \in Names : stored'[i][n] = rows'[i].hash
  PROVE  DoneRowsNameTheirArtifacts'
  BY DEF DoneRowsNameTheirArtifacts

\* The exporting row is written before the product is touched.
LEMMA ClaimKeeps ==
  ASSUME GuardedInv, NEW r \in Invocations, pc[r] = "running", UNCHANGED vars,
         Claim(r) \/ ClaimRaises(r)
  PROVE  GuardedInv'
  <1> USE BeforeItem
  <1>1. /\ at[r] = "claim" /\ Upsert(r, "exporting", None)
        /\ (Persist(r) /\ UNCHANGED faults) \/ PersistRaises(r)
        /\ UNCHANGED <<stored, setup, todo, failed, losses>>
    BY DEF Claim, ClaimRaises
  <1>2. todo[r] # {} /\ table[r] = rows
    BY <1>1 DEF CallInv, CallPart, InWork, LedgerPart, Loaded
  <1>3. Item(r) \in todo[r] /\ Item(r) \in Items
    BY <1>2, ItemIsLeft
  <1>4. /\ table' \in [Invocations -> Ledger] /\ table'[r] \in Ledger
        /\ table'[r][Item(r)].status = "exporting"
        /\ \A i \in Items \ {Item(r)} : table'[r][i] = table[r][i]
    BY <1>1, <1>3, UpsertMoves
  <1>5. rows' \in Ledger /\ faults' \in 0..MaxFaults /\ rows' \in {rows, table'[r]}
    BY <1>1, <1>4, PersistMoves
  <1>6. DoneRowsNameTheirArtifacts'
    BY <1>1, <1>2, <1>3, <1>4, <1>5, DoneRowsStay
  <1>7. CASE ClaimRaises(r)
    <2>1. Ends(r, "raised")
      BY <1>7 DEF ClaimRaises
    <2> QED
      BY <1>1, <1>4, <1>5, <1>6, <2>1, CallEnds
  <1>8. CASE Claim(r)
    <2>1. To(r, "cog") /\ rows' = table'[r] /\ UNCHANGED status
      BY <1>8 DEF Claim, Persist
    <2>2. at'[r] = "cog" /\ "cog" \in Unfinished /\ at[r] # "over"
      BY <1>1, <2>1 DEF To, Unfinished, Names, Artifacts
    <2>3. LedgerPart(r)'
      BY <1>1, <1>4, <2>1, <2>2 DEF LedgerPart
    <2>4. WrittenPart(r)'
      BY <2>2 DEF WrittenPart, Artifacts
    <2>5. r \notin failed => \A i \in WorkList(setup[r].scope) \ todo[r] : Delivered(r, i)
      BY <1>1 DEF CallInv, ScopePart, Loaded, InWork
    <2>6. WorkList(setup[r].scope) \subseteq Items
      BY DEF Items, WorkList
    <2>7. r \notin failed' =>
            \A i \in WorkList(setup'[r].scope) \ todo'[r] : Delivered(r, i)'
      BY <1>1, <1>2, <1>3, <1>4, <2>1, <2>5, <2>6 DEF Delivered, FingerprintOf
    <2> QED
      BY <1>1, <1>2, <1>4, <1>5, <1>6, <2>1, <2>2, <2>3, <2>4, <2>7, CallGoesOn
  <1> QED
    BY <1>7, <1>8

\* One artifact of the item is replaced, or its replacement raises.
LEMMA WriteKeeps ==
  ASSUME GuardedInv, NEW r \in Invocations, pc[r] = "running", UNCHANGED vars,
         NEW n \in 1..4, Write(r, n) \/ WriteRaises(r, n)
  PROVE  GuardedInv'
  <1> USE BeforeItem
  <1> DEFINE h == FingerprintOf(r, Item(r))
  <1>1. /\ at[r] = Artifacts[n] /\ Artifacts[n] \in Names
        /\ UNCHANGED <<rows, table, setup, todo, failed, status, losses>>
        /\ faults' \in 0..MaxFaults
    BY DEF Write, WriteRaises, Names
  <1>2. InWork(r) /\ Loaded(r) /\ at[r] \notin {"failed", "over"}
    BY <1>1 DEF InWork, Loaded, Names, Artifacts
  <1>3. /\ todo[r] # {} /\ table[r] = rows /\ rows[Item(r)].status = "exporting"
        /\ r \notin failed => \A i \in WorkList(setup[r].scope) \ todo[r] : Delivered(r, i)
    BY <1>1, <1>2 DEF CallInv, CallPart, LedgerPart, ScopePart
  <1>4. Item(r) \in todo[r] /\ Item(r) \in Items /\ h \in Hashes
    BY <1>3, ItemIsLeft, FingerprintType
  <1>5. /\ UNCHANGED stored \/ stored' = [stored EXCEPT ![Item(r)][Artifacts[n]] = h]
        /\ Write(r, n) => stored' = [stored EXCEPT ![Item(r)][Artifacts[n]] = h]
    BY DEF Write, WriteRaises
  <1>6. /\ stored' \in [Items -> [Names -> Hashes \cup {None}]]
        /\ \A i \in Items \ {Item(r)} : stored'[i] = stored[i]
        /\ \A m \in Names \ {Artifacts[n]} : stored'[Item(r)][m] = stored[Item(r)][m]
        /\ Write(r, n) => stored'[Item(r)][Artifacts[n]] = h
    <2> DEFINE N == Artifacts[n]
               T == Hashes \cup {None}
    <2>1. N \in Names /\ h \in T /\ stored \in [Items -> [Names -> T]]
      BY <1>1, <1>4
    <2>2. CASE stored' = [stored EXCEPT ![Item(r)][N] = h]
      <3> HIDE DEF N, T, h
      <3> QED
        BY <1>4, <2>1, <2>2 DEF N, T
    <2>3. CASE UNCHANGED stored /\ ~Write(r, n)
      BY <2>1, <2>3
    <2> QED
      BY <1>5, <2>2, <2>3
  <1>7. DoneRowsNameTheirArtifacts'
    BY <1>1, <1>3, <1>4, <1>6, DoneRowsStay
  <1>8. WorkList(setup[r].scope) \subseteq Items
    BY DEF Items, WorkList
  <1>9. r \notin failed' =>
          \A i \in WorkList(setup'[r].scope) \ todo'[r] : Delivered(r, i)'
    <2> SUFFICES ASSUME r \notin failed, NEW i \in WorkList(setup[r].scope) \ todo[r]
                 PROVE  Delivered(r, i)'
      BY <1>1
    <2>1. Delivered(r, i) /\ rows'[i] = rows[i] /\ stored'[i] = stored[i]
      BY <1>1, <1>3, <1>4, <1>6, <1>8
    <2>2. FingerprintOf(r, i)' = FingerprintOf(r, i)
      BY <1>1 DEF FingerprintOf
    <2> QED
      BY <2>1, <2>2 DEF Delivered
  <1>10. CASE WriteRaises(r, n)
    <2>1. To(r, "failed") /\ at'[r] = "failed"
      BY <1>10 DEF WriteRaises, To
    <2>2. LedgerPart(r)' /\ WrittenPart(r)' /\ "failed" \in Unfinished
      BY <1>1, <1>3, <2>1 DEF LedgerPart, WrittenPart, Names, Artifacts, Unfinished
    <2> QED
      BY <1>1, <1>2, <1>3, <1>6, <1>7, <1>9, <2>1, <2>2, CallGoesOn
  <1>11. CASE Write(r, n)
    <2> DEFINE next == IF n = 4 THEN "row" ELSE Artifacts[n + 1]
    <2>1. To(r, next) /\ at'[r] = next
      BY <1>11 DEF Write, To
    <2>2. next \in Unfinished /\ next \in Names \cup {"row"} /\ next # "failed"
      BY DEF Unfinished, Names, Artifacts
    <2>3. LedgerPart(r)'
      BY <1>1, <1>3, <2>1, <2>2 DEF LedgerPart
    <2>4. \A m \in 1..4 : m < n => stored[Item(r)][Artifacts[m]] = h
      BY <1>1 DEF CallInv, WrittenPart
    <2>5. \A m \in 1..4 : m <= n => stored'[Item(r)][Artifacts[m]] = h
      <3> SUFFICES ASSUME NEW m \in 1..4, m <= n
                   PROVE  stored'[Item(r)][Artifacts[m]] = h
        OBVIOUS
      <3>1. CASE m = n
        BY <1>6, <1>11, <3>1
      <3>2. CASE m < n
        <4>1. Artifacts[m] \in Names \ {Artifacts[n]}
          BY <3>2 DEF Names, Artifacts
        <4> QED
          BY <1>6, <2>4, <3>2, <4>1
      <3> QED
        BY <3>1, <3>2
    <2>6. WrittenPart(r)'
      <3>1. FingerprintOf(r, Item(r))' = h
        BY <1>1 DEF FingerprintOf
      <3>2. ASSUME NEW k \in 1..4, next = Artifacts[k], NEW m \in 1..4, m < k
            PROVE  m <= n
        BY <3>2 DEF Artifacts
      <3>3. ASSUME next = "row", NEW name \in Names
            PROVE  \E m \in 1..4 : m <= n /\ name = Artifacts[m]
        BY <3>3 DEF Names, Artifacts
      <3> HIDE DEF h, next
      <3> QED
        BY <1>1, <2>1, <2>5, <3>1, <3>2, <3>3 DEF WrittenPart
    <2> QED
      BY <1>1, <1>2, <1>3, <1>6, <1>7, <1>9, <2>1, <2>2, <2>3, <2>6, CallGoesOn
  <1> QED
    BY <1>10, <1>11

\* The done row names what has just been written.
LEMMA RecordDoneKeeps ==
  ASSUME GuardedInv, NEW r \in Invocations, pc[r] = "running", UNCHANGED vars,
         RecordDone(r) \/ RecordDoneRaises(r)
  PROVE  GuardedInv'
  <1> USE BeforeItem
  <1> DEFINE h == FingerprintOf(r, Item(r))
  <1>1. /\ at[r] = "row" /\ Upsert(r, "done", h)
        /\ (Persist(r) /\ UNCHANGED faults) \/ PersistRaises(r)
        /\ UNCHANGED <<stored, setup, failed, status, losses>>
    BY DEF RecordDone, RecordDoneRaises
  <1>2. /\ todo[r] # {} /\ table[r] = rows /\ \A n \in Names : stored[Item(r)][n] = h
        /\ r \notin failed => \A i \in WorkList(setup[r].scope) \ todo[r] : Delivered(r, i)
    BY <1>1 DEF CallInv, CallPart, InWork, LedgerPart, Loaded, ScopePart, WrittenPart
  <1>3. Item(r) \in todo[r] /\ Item(r) \in Items /\ h \in Hashes
    BY <1>2, ItemIsLeft, FingerprintType
  <1>4. /\ table' \in [Invocations -> Ledger] /\ table'[r] \in Ledger
        /\ table'[r][Item(r)].hash = h /\ table'[r][Item(r)] = Row("done", h)
        /\ \A i \in Items \ {Item(r)} : table'[r][i] = table[r][i]
    BY <1>1, <1>3, UpsertMoves
  <1>5. rows' \in Ledger /\ faults' \in 0..MaxFaults /\ rows' \in {rows, table'[r]}
    BY <1>1, <1>4, PersistMoves
  <1>6. DoneRowsNameTheirArtifacts'
    BY <1>1, <1>2, <1>3, <1>4, <1>5, DoneRowsStay
  <1>7. WorkList(setup[r].scope) \subseteq Items
    BY DEF Items, WorkList
  <1>8. {"item", "failed"} \subseteq Unfinished /\ at[r] # "over"
    BY <1>1 DEF Unfinished
  <1>9. CASE RecordDone(r)
    <2>1. /\ To(r, "item") /\ rows' = table'[r] /\ at'[r] = "item"
          /\ todo' = [todo EXCEPT ![r] = @ \ {Item(r)}]
      BY <1>9 DEF RecordDone, Persist, To
    <2>2. todo' \in [Invocations -> SUBSET Items] /\ todo'[r] = todo[r] \ {Item(r)}
      BY <2>1
    <2>3. LedgerPart(r)' /\ WrittenPart(r)' /\ ~InWork(r)'
      BY <1>1, <2>1 DEF LedgerPart, WrittenPart, InWork, Names, Artifacts
    <2>4. {"cog", "complete"} \subseteq Names
      BY DEF Names, Artifacts
    <2>5. \A i \in Items : FingerprintOf(r, i)' = FingerprintOf(r, i)
      BY <1>1 DEF FingerprintOf
    <2>6. ASSUME NEW i \in WorkList(setup'[r].scope) \ todo'[r], r \notin failed'
          PROVE  Delivered(r, i)'
      <3>1. CASE i = Item(r)
        BY <1>1, <1>2, <1>4, <2>1, <1>3, <2>4, <2>5, <3>1 DEF Delivered
      <3>2. CASE i # Item(r)
        BY <1>1, <1>2, <1>4, <1>7, <2>1, <2>2, <2>5, <2>6, <3>2 DEF Delivered
      <3> QED
        BY <3>1, <3>2
    <2> QED
      BY <1>1, <1>4, <1>5, <1>6, <1>8, <2>1, <2>2, <2>3, <2>6, CallGoesOn
  <1>10. CASE RecordDoneRaises(r)
    <2>1. To(r, "failed") /\ at'[r] = "failed" /\ UNCHANGED todo
      BY <1>10 DEF RecordDoneRaises, To
    <2>2. Item(r)' = Item(r) /\ \A i \in Items : FingerprintOf(r, i)' = FingerprintOf(r, i)
      BY <1>1, <2>1 DEF FingerprintOf
    <2>3. \A i \in Items \ {Item(r)} : table'[r][i] = rows[i] /\ rows'[i] = rows[i]
      <3>1. \A i \in Items \ {Item(r)} : table'[r][i] = rows[i]
        BY <1>2, <1>4
      <3> QED
        BY <1>5, <3>1
    <2>4. LedgerPart(r)' /\ WrittenPart(r)'
      BY <2>1, <2>2, <2>3 DEF LedgerPart, WrittenPart, Names, Artifacts
    <2>5. r \notin failed' =>
            \A i \in WorkList(setup'[r].scope) \ todo'[r] : Delivered(r, i)'
      BY <1>1, <1>2, <1>3, <1>7, <2>1, <2>2, <2>3 DEF Delivered
    <2> QED
      BY <1>1, <1>2, <1>4, <1>5, <1>6, <1>8, <2>1, <2>4, <2>5, CallGoesOn
  <1> QED
    BY <1>9, <1>10

\* The failed row is written, and what depends on the item is dropped.
LEMMA RecordFailedKeeps ==
  ASSUME GuardedInv, NEW r \in Invocations, pc[r] = "running", UNCHANGED vars,
         RecordFailed(r) \/ RecordFailedRaises(r)
  PROVE  GuardedInv'
  <1> USE BeforeItem
  <1>1. /\ at[r] = "failed" /\ Upsert(r, "failed", None)
        /\ (Persist(r) /\ UNCHANGED faults) \/ PersistRaises(r)
        /\ UNCHANGED <<stored, setup, losses>>
    BY DEF RecordFailed, RecordFailedRaises
  <1>2. todo[r] # {} /\ \A i \in Items \ {Item(r)} : table[r][i] = rows[i]
    BY <1>1 DEF CallInv, CallPart, InWork, LedgerPart
  <1>3. Item(r) \in todo[r] /\ Item(r) \in Items
    BY <1>2, ItemIsLeft
  <1>4. /\ table' \in [Invocations -> Ledger] /\ table'[r] \in Ledger
        /\ table'[r][Item(r)].status = "failed"
        /\ \A i \in Items \ {Item(r)} : table'[r][i] = table[r][i]
    BY <1>1, <1>3, UpsertMoves
  <1>5. rows' \in Ledger /\ faults' \in 0..MaxFaults /\ rows' \in {rows, table'[r]}
    BY <1>1, <1>4, PersistMoves
  <1>6. DoneRowsNameTheirArtifacts'
    BY <1>1, <1>2, <1>3, <1>4, <1>5, DoneRowsStay
  <1>7. CASE RecordFailedRaises(r)
    <2>1. Ends(r, "raised") /\ UNCHANGED <<todo, failed>>
      BY <1>7 DEF RecordFailedRaises
    <2> QED
      BY <1>1, <1>4, <1>5, <1>6, <2>1, CallEnds
  <1>8. CASE RecordFailed(r)
    <2>1. /\ To(r, "item") /\ rows' = table'[r] /\ at'[r] = "item"
          /\ todo' = [todo EXCEPT ![r] = @ \ Dropped(Item(r))]
          /\ failed' = failed \cup {r} /\ UNCHANGED status
      BY <1>8 DEF RecordFailed, Persist, To
    <2>2. todo' \in [Invocations -> SUBSET Items] /\ failed' \subseteq Invocations /\ r \in failed'
      BY <2>1
    <2>3. LedgerPart(r)' /\ WrittenPart(r)' /\ ~InWork(r)'
      BY <2>1 DEF LedgerPart, WrittenPart, InWork, Names, Artifacts
    <2>4. "item" \in Unfinished /\ at[r] # "over"
      BY <1>1 DEF Unfinished
    <2> QED
      BY <1>1, <1>4, <1>5, <1>6, <2>1, <2>2, <2>3, <2>4, CallGoesOn
  <1> QED
    BY <1>7, <1>8

\* Every step of a call keeps the invariant.
LEMMA PipelineKeeps ==
  ASSUME GuardedInv, NEW r \in Invocations, PipelineStep(r)
  PROVE  GuardedInv'
  <1>1. pc[r] = "running" /\ UNCHANGED vars /\ DynamicStep(r)
    BY DEF PipelineStep
  <1> QED
    BY <1>1, CallOpens, ReconcileKeeps, ClaimKeeps, WriteKeeps, RecordDoneKeeps, RecordFailedKeeps
       DEF DynamicStep

\* What is known of a run that is not in a call.
LEMMA OutsideCall ==
  ASSUME NEW r \in Invocations, at[r] \in {"off", "over"}, status[r] = "none"
  PROVE  CallInv(r)
  BY DEF CallInv, CallPart, LedgerPart, WrittenPart, ScopePart, Loaded, InWork, Names, Artifacts

\* A step of the guard ends at most the call of the run that leaves.
LEMMA GuardStepKeeps ==
  ASSUME GuardAssumptions, GuardedInv, GuardStep
  PROVE  GuardedInv'
  <1>1. GuardInv' /\ GuardInv
    BY GuardKeeps DEF GuardStep, GuardedInv
  <1>2. CASE /\ \A r \in Invocations : ~Leaves(r)
             /\ UNCHANGED dynamicVars
    <2>1. UNCHANGED <<rows, table, stored, setup, todo, at, failed, status, faults, losses>>
      BY <1>2 DEF dynamicVars
    <2>2. DynamicTypeOK' /\ DoneRowsNameTheirArtifacts'
      BY <2>1 DEF GuardedInv, DynamicTypeOK, DoneRowsNameTheirArtifacts
    <2>3. ASSUME NEW r \in Invocations
          PROVE  CallInv(r)'
      <3>1. Item(r)' = Item(r) /\ \A i : FingerprintOf(r, i)' = FingerprintOf(r, i)
        BY <2>1, ItemStays DEF FingerprintOf
      <3>2. pc[r] = "running" => pc'[r] = "running"
        BY <1>2 DEF Leaves
      <3>3. CallInv(r)
        BY DEF GuardedInv
      <3>4. CallPart(r)'
        BY <2>1, <3>2, <3>3 DEF CallInv, CallPart, InWork
      <3>5. LedgerPart(r)'
        BY <2>1, <3>1, <3>3 DEF CallInv, LedgerPart, Loaded, InWork
      <3>6. WrittenPart(r)'
        BY <2>1, <3>1, <3>3 DEF CallInv, WrittenPart
      <3>7. DeliversAll(r)' = DeliversAll(r)
        BY <2>1, <3>1 DEF DeliversAll
      <3>8. \A i : Delivered(r, i)' = Delivered(r, i)
        BY <2>1, <3>1 DEF Delivered
      <3>9. ScopePart(r)'
        BY <2>1, <3>3, <3>7, <3>8 DEF CallInv, ScopePart, Loaded, InWork
      <3> QED
        BY <3>4, <3>5, <3>6, <3>9 DEF CallInv
    <2> QED
      BY <1>1, <2>2, <2>3 DEF GuardedInv
  <1>3. ASSUME NEW r \in Invocations, Leaves(r), ForgetCall(r)
        PROVE  GuardedInv'
    <2>1. /\ table' = [table EXCEPT ![r] = [i \in Items |-> NoRow]]
          /\ todo' = [todo EXCEPT ![r] = {}] /\ setup' = [setup EXCEPT ![r] = NoSetup]
          /\ failed' = failed \ {r} /\ status' = [status EXCEPT ![r] = "none"]
          /\ at' = [at EXCEPT ![r] = "over"] /\ UNCHANGED <<rows, stored, faults, losses>>
      BY <1>3 DEF ForgetCall, To
    <2>2. DynamicTypeOK
      BY DEF GuardedInv
    <2>3. [i \in Items |-> NoRow] \in Ledger
      BY RowType DEF Ledger, NoRow, Row
    <2>4. NoSetup \in [config : Configs, scope : SUBSET Scenes]
      BY DynamicAssumption DEF NoSetup, DynamicAssumption
    <2>5. DynamicTypeOK'
      BY <2>1, <2>2, <2>3, <2>4 DEF DynamicTypeOK
    <2>6. DoneRowsNameTheirArtifacts'
      BY <2>1 DEF GuardedInv, DoneRowsNameTheirArtifacts
    <2>7. ASSUME NEW q \in Invocations
          PROVE  at'[q] \in {"off", "over"} /\ status'[q] = "none"
      <3>1. CASE q = r
        BY <2>1, <2>2, <3>1 DEF DynamicTypeOK
      <3>2. CASE q # r
        <4>1. pc[q] # "running"
          BY <1>1, <1>3, <3>2, GuardedAssumption
             DEF GuardedAssumption, Leaves, GuardInv, WorkerOwnsLock
        <4>2. at[q] \in {"off", "over"} /\ status[q] = "none"
          BY <4>1 DEF GuardedInv, CallInv, CallPart
        <4> QED
          BY <2>1, <2>2, <3>2, <4>2 DEF DynamicTypeOK
      <3> QED
        BY <3>1, <3>2
    <2>8. \A q \in Invocations : CallInv(q)'
      BY <2>7 DEF CallInv, CallPart, LedgerPart, WrittenPart, ScopePart, Loaded, InWork, Names,
                  Artifacts
    <2> QED
      BY <1>1, <2>5, <2>6, <2>8 DEF GuardedInv
  <1> QED
    BY <1>2, <1>3 DEF GuardStep

\* An object is removed while no run is live: nobody is in a call.
LEMMA RemovalKeeps ==
  ASSUME GuardedInv, NEW i \in Items, NEW n \in Names, Removal(i, n)
  PROVE  GuardedInv'
  <1>1. /\ \A r \in Runs : ~Live(r)
        /\ losses < MaxLosses /\ losses' = losses + 1
        /\ stored' = [stored EXCEPT ![i][n] = None]
        /\ UNCHANGED <<rows, table, setup, todo, at, failed, status, faults>>
        /\ UNCHANGED vars
    BY DEF Removal, LoseObject
  <1>2. GuardInv'
    BY <1>1 DEF GuardedInv, vars, GuardInv, TypeOK, OwnersHaveStarted, ReclaimersAreLocal,
           WorkerOwnsLock, ReclaimsAbsentOwnerOnly, Live
  <1>3. DynamicTypeOK
    BY DEF GuardedInv
  <1>4. /\ stored' \in [Items -> [Names -> Hashes \cup {None}]]
        /\ \A j \in Items, m \in Names : stored'[j][m] \in {stored[j][m], None}
    BY <1>1, <1>3 DEF DynamicTypeOK
  <1>5. DynamicTypeOK'
    BY <1>1, <1>3, <1>4, DynamicAssumption DEF DynamicTypeOK, DynamicAssumption
  <1>6. DoneRowsNameTheirArtifacts'
    BY <1>1, <1>4 DEF GuardedInv, DoneRowsNameTheirArtifacts
  <1>7. ASSUME NEW r \in Invocations
        PROVE  at[r] \in {"off", "over"} /\ status[r] = "none"
    <2>1. pc[r] # "running"
      BY <1>1, GuardedAssumption DEF GuardedAssumption, Live, Active
    <2> QED
      BY <2>1 DEF GuardedInv, CallInv, CallPart
  <1>8. \A r \in Invocations : at'[r] \in {"off", "over"} /\ status'[r] = "none"
    BY <1>1, <1>7
  <1>9. \A r \in Invocations : CallInv(r)'
    BY <1>8 DEF CallInv, CallPart, LedgerPart, WrittenPart, ScopePart, Loaded, InWork, Names,
                Artifacts
  <1> QED
    BY <1>2, <1>5, <1>6, <1>9 DEF GuardedInv

\* No run has started and nothing is stored.
LEMMA GuardedStarts ==
  ASSUME GuardedInit
  PROVE  GuardedInv
  <1>1. GuardInv
    BY GuardStarts DEF GuardedInit
  <1>2. rows \in Ledger /\ table \in [Invocations -> Ledger]
    BY RowType DEF GuardedInit, DynamicInit, Ledger, NoRow, Row
  <1>3. NoSetup \in [config : Configs, scope : SUBSET Scenes]
    BY DynamicAssumption DEF NoSetup, DynamicAssumption
  <1>4. 0 \in 0..MaxFaults /\ 0 \in 0..MaxLosses
    BY DynamicAssumption DEF DynamicAssumption
  <1>5. DynamicTypeOK
    BY <1>2, <1>3, <1>4 DEF GuardedInit, DynamicInit, DynamicTypeOK
  <1>6. DoneRowsNameTheirArtifacts
    BY DEF GuardedInit, DynamicInit, DoneRowsNameTheirArtifacts, NoRow
  <1>7. \A r \in Invocations : CallInv(r)
    BY OutsideCall DEF GuardedInit, DynamicInit
  <1> QED
    BY <1>1, <1>5, <1>6, <1>7 DEF GuardedInv

\* The guard and the pipeline behind it keep their invariant together.
THEOREM GuardedInvariant == ASSUME GuardAssumptions PROVE GuardedSpec => []GuardedInv
  <1>1. ASSUME GuardedInv, UNCHANGED <<vars, dynamicVars>>
        PROVE  GuardedInv'
    <2>1. UNCHANGED vars /\ UNCHANGED <<rows, table, stored, setup, todo, at, failed, status, faults, losses>>
      BY <1>1 DEF dynamicVars
    <2>2. GuardInv'
      BY <2>1, <1>1, GuardKeeps DEF GuardedInv
    <2>3. DynamicTypeOK' /\ DoneRowsNameTheirArtifacts'
      BY <1>1, <2>1 DEF GuardedInv, DynamicTypeOK, DoneRowsNameTheirArtifacts
    <2>4. \A r \in Invocations : CallInv(r)'
      BY <1>1, <2>1, ItemStays
         DEF GuardedInv, CallInv, CallPart, LedgerPart, WrittenPart, ScopePart, Loaded, InWork,
             Delivered, DeliversAll, FingerprintOf, vars
    <2> QED
      BY <2>2, <2>3, <2>4 DEF GuardedInv
  <1>2. ASSUME GuardedInv, GuardedNext
        PROVE  GuardedInv'
    BY <1>2, GuardStepKeeps, PipelineKeeps, RemovalKeeps DEF GuardedNext
  <1> QED
    BY <1>1, <1>2, GuardedStarts, PTL DEF GuardedSpec

\* Whatever was killed, failed, lost or rebuilt with another configuration, a done row
\* of the ledger is of the product that lies there (data/dynamic/pipeline.py:208-437).
THEOREM DoneRowsAreTruthful ==
  ASSUME GuardAssumptions PROVE GuardedSpec => []DoneRowsNameTheirArtifacts
  <1>1. GuardedInv => DoneRowsNameTheirArtifacts
    BY DEF GuardedInv
  <1> QED
    BY <1>1, GuardedInvariant, PTL

\* A run that holds the guard and has returned 0 has delivered everything it was asked
\* for (data/dynamic/pipeline.py:460-495).
THEOREM ZeroIsTruthful ==
  ASSUME GuardAssumptions PROVE GuardedSpec => []ZeroReturnIsComplete
  <1>1. GuardedInv => ZeroReturnIsComplete
    BY DEF GuardedInv, CallInv, ScopePart, ZeroReturnIsComplete
  <1> QED
    BY <1>1, GuardedInvariant, PTL

=============================================================================
