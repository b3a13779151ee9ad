--------------------------- MODULE RecoveryProofs ---------------------------
(***************************************************************************)
(* What survives a stop of the process at any step.  A restart loads the   *)
(* committed tables as if they were the first ones, and forgets that a row *)
(* was collected from, so nothing that compares a row with InitEnergy is   *)
(* an invariant here (the status EMPTY says nothing any more).  Access to  *)
(* the rows, the counters and the order in which the tables move on are.   *)
(***************************************************************************)
EXTENDS Recovery, WriteBackProofs

\* The energy of the rows when the tables were made.
RowEnergy == Cardinality(Units(InitEnergy))

\* A restart can only give out the same rows once more.
LivesInv == \A u \in Users : Reach(u) <= InitTotal[u] + (restarts + 1) * RowEnergy

RecoveryInv ==
    /\ AccessInv /\ CounterInv /\ FlushTypeInv /\ FlushInv
    /\ restarts \in 0 .. MaxRestarts
    /\ LivesInv
    /\ HandlingInv /\ TotalsInv /\ RowsInv

\* One life more is one more time the energy of the rows.
LEMMA OneLifeMore ==
    ASSUME NEW r \in Nat
    PROVE  /\ RowEnergy \in Nat
           /\ (r + 1) * RowEnergy \in Nat
           /\ (r + 1 + 1) * RowEnergy = (r + 1) * RowEnergy + RowEnergy
           /\ r <= MaxRestarts => (r + 1) * RowEnergy <= (MaxRestarts + 1) * RowEnergy
  <1>1. RowEnergy \in Nat
    BY LoadedType DEF RowEnergy
  <1>. DEFINE e == RowEnergy
  <1>. HIDE DEF e
  <1>2. e \in Nat
    BY <1>1 DEF e
  <1>3. /\ (r + 1) * e \in Nat
        /\ (r + 1 + 1) * e = (r + 1) * e + e
    BY <1>2
  <1>4. r <= MaxRestarts => (r + 1) * e <= (MaxRestarts + 1) * e
    BY <1>2, RestartsAssumption, Z3T(20)
  <1>. QED
    BY <1>1, <1>3, <1>4 DEF e

\* What anybody can come to own fits an int, in every life.
LEMMA LivesFit ==
    ASSUME AccessInv, LivesInv, restarts \in 0 .. MaxRestarts, NEW u \in Users
    PROVE  2 * Reach(u) < Word /\ Reach(u) < Word
  <1>1. InitTotal[u] \in Nat /\ Reach(u) \in Nat
    BY SumType, AmountAssumption
  <1>2. /\ Reach(u) <= InitTotal[u] + (restarts + 1) * RowEnergy
        /\ (restarts + 1) * RowEnergy \in Nat
        /\ (restarts + 1) * RowEnergy <= (MaxRestarts + 1) * RowEnergy
    BY OneLifeMore, RestartsAssumption DEF LivesInv
  <1>3. /\ 2 * (InitTotal[u] + (MaxRestarts + 1) * RowEnergy) < Word
        /\ (MaxRestarts + 1) * RowEnergy \in Nat
    BY LivesAssumption, OneLifeMore, RestartsAssumption DEF RowEnergy
  <1>. DEFINE a == (restarts + 1) * RowEnergy
              b == (MaxRestarts + 1) * RowEnergy
  <1>. HIDE DEF a, b
  <1>4. a \in Nat /\ b \in Nat /\ a <= b /\ Reach(u) <= InitTotal[u] + a
        /\ 2 * (InitTotal[u] + b) < Word
    BY <1>2, <1>3 DEF a, b
  <1>. QED
    BY <1>1, <1>4, AmountAssumption

\* What the lemmas of WriteBackProofs start from holds in every life.
LEMMA EveryLife == RecoveryInv => LifeInv
  BY LivesFit DEF RecoveryInv, LifeInv

-----------------------------------------------------------------------------
\* What load_in_mem reads back is what was committed.
LEMMA LoadsCommitted ==
    ASSUME RecoveryInv, Restart
    PROVE  /\ \A i \in Rows : /\ to_collect_energy_'[i] = dbRows[i].energy
                              /\ dbRows[i].energy \in 0 .. InitEnergy[i]
           /\ \A u \in Users : memTotalEnergyMap'[u] =
                                  IF u \in Accounts THEN dbTotal[u] ELSE 0
           /\ \A u \in Accounts : dbTotal[u] \in 0 .. memTotalEnergyMap[u]
           /\ to_collect_energy_' \in [Rows -> 0 .. Word - 1]
           /\ memTotalEnergyMap' \in [Users -> 0 .. Word - 1]
  <1>. USE DEF RecoveryInv, FlushTypeInv, WriteBackTypeOK
  <1>1. TypeOK
    BY DEF AccessInv
  <1>2. ASSUME NEW i \in Rows
        PROVE  dbRows[i].energy \in 0 .. InitEnergy[i] /\ dbRows[i].energy \in 0 .. Word - 1
    <2>1. /\ to_collect_energy_[i] \in Nat /\ txnRows[i].energy \in Int
          /\ dbRows[i].energy \in Int /\ InitEnergy[i] \in 0 .. Word - 1
      BY <1>1, AmountAssumption DEF TypeOK
    <2>. QED
      BY <2>1, AmountAssumption DEF FlushInv
  <1>3. ASSUME NEW u \in Accounts
        PROVE  dbTotal[u] \in 0 .. memTotalEnergyMap[u] /\ dbTotal[u] \in 0 .. Word - 1
    <2>1. /\ memTotalEnergyMap[u] \in 0 .. Word - 1
          /\ txnTotal[u] \in Int /\ dbTotal[u] \in Int
      BY <1>1, AmountAssumption, AccountsAssumption DEF TypeOK
    <2>. QED
      BY <2>1, AmountAssumption DEF FlushInv
  <1>4. ASSUME NEW n \in 0 .. Word - 1
        PROVE  ToWord(n) = n
    <2>1. Word \in Nat \ {0}
      BY AmountAssumption
    <2>. QED
      BY <2>1, Z3T(20) DEF ToWord
  <1>5. \A i \in Rows : to_collect_energy_'[i] = dbRows[i].energy
    BY <1>2, <1>4 DEF Restart, RestartWith, LoadedEnergy
  <1>6. \A u \in Users : memTotalEnergyMap'[u] = IF u \in Accounts THEN dbTotal[u] ELSE 0
    BY <1>3, <1>4 DEF Restart, RestartWith
  <1>7. /\ to_collect_energy_' = [i \in Rows |-> ToWord(dbRows[i].energy)]
        /\ memTotalEnergyMap' = [u \in Users |-> IF u \in Accounts THEN ToWord(dbTotal[u]) ELSE 0]
    BY DEF Restart, RestartWith, LoadedEnergy
  <1>8. to_collect_energy_' \in [Rows -> 0 .. Word - 1]
    BY <1>2, <1>4, <1>7
  <1>9. memTotalEnergyMap' \in [Users -> 0 .. Word - 1]
    BY <1>3, <1>4, <1>7, AmountAssumption
  <1>. QED
    BY <1>2, <1>3, <1>5, <1>6, <1>8, <1>9

\* The tables move on by commits only, and a commit moves them the way memory moved.
LEMMA CommitsMoveOn ==
    ASSUME FlushTypeInv, FlushInv, [ServerNext]_serverVars
    PROVE  /\ \A i \in Rows : dbRows'[i].energy <= dbRows[i].energy
           /\ \A u \in Accounts : dbTotal'[u] >= dbTotal[u]
  <1>1. \/ UNCHANGED dbRows
        \/ dbRows' = txnRows
    BY ServerParts
    DEF ToCollectStep, TotalStep, SkipRow, ReadStatus, UpdateRow, WriteRow, CommitRows, UpdateTotal,
        CommitTotals, CommitTotalsNow, Spawn, StartWriteBack, StartToCollect, StartTotal,
        writeBackVars, collectFlushVars, totalFlushVars
  <1>2. \/ UNCHANGED dbTotal
        \/ dbTotal' = txnTotal
    BY ServerParts
    DEF ToCollectStep, TotalStep, SkipRow, ReadStatus, UpdateRow, WriteRow, CommitRows, UpdateTotal,
        CommitTotals, CommitTotalsNow, Spawn, StartWriteBack, StartToCollect, StartTotal,
        writeBackVars, collectFlushVars, totalFlushVars
  <1>3. /\ \A i \in Rows : dbRows[i].energy \in Int /\ txnRows[i].energy \in Int
        /\ \A u \in Accounts : dbTotal[u] \in Int /\ txnTotal[u] \in Int
    BY AmountAssumption DEF FlushTypeInv, WriteBackTypeOK
  <1>. QED
    BY <1>1, <1>2, <1>3 DEF FlushInv

-----------------------------------------------------------------------------
\* Nobody is anywhere in handle_request or func_http after a restart.
LEMMA RestartState ==
    ASSUME RecoveryInv, Restart
    PROVE  AccessInv' /\ FlushTypeInv' /\ FlushInv'
  <1>1. /\ to_collect_energy_' \in [Rows -> 0 .. Word - 1]
        /\ memTotalEnergyMap' \in [Users -> 0 .. Word - 1]
    BY LoadsCommitted
  <1>2. /\ status_' = [i \in Rows |-> EMPTY] /\ modified_' = [i \in Rows |-> FALSE]
        /\ mutex' = [i \in Rows |-> Free] /\ pc' = [t \in Threads |-> "idle"]
        /\ req' = [t \in Threads |-> NoRequest] /\ count' = [t \in Threads |-> 0]
    BY DEF Restart, RestartWith
  <1>3. TypeOK'
    BY <1>1, <1>2, AmountAssumption DEF TypeOK, Statuses, Locations
  <1>4. RequestInv' /\ LockInv' /\ GainInv' /\ MarkInv'
    BY <1>2 DEF RequestInv, LockInv, GainInv, MarkInv, InCritical, EnergyPending
  <1>5. FlushTypeInv'
    <2>1. 1 \in 1 .. Total + 1
      BY TotalAssumption
    <2>2. /\ txnRows' = dbRows /\ txnTotal' = dbTotal /\ UNCHANGED <<dbRows, dbTotal>>
          /\ collectFlush' = [pc |-> "off", id |-> 1, status |-> "unwritten", quiet |-> FALSE]
          /\ totalFlush' = [pc |-> "off", todo |-> {}, quiet |-> FALSE]
      BY DEF Restart, RestartWith
    <2>. QED
      BY <2>1, <2>2 DEF RecoveryInv, FlushTypeInv, WriteBackTypeOK, RowStatuses
  <1>6. FlushInv'
    <2>1. txnRows' = dbRows /\ txnTotal' = dbTotal /\ UNCHANGED <<dbRows, dbTotal>>
      BY DEF Restart, RestartWith
    <2>2. /\ \A i \in Rows : /\ to_collect_energy_'[i] = dbRows[i].energy
                             /\ dbRows[i].energy \in 0 .. InitEnergy[i]
                             /\ InitEnergy[i] \in Nat
          /\ \A u \in Accounts : /\ memTotalEnergyMap'[u] = dbTotal[u]
                                 /\ memTotalEnergyMap[u] \in Nat
                                 /\ dbTotal[u] \in 0 .. memTotalEnergyMap[u]
      BY LoadsCommitted, SmallEnergy, SumType, AccountsAssumption DEF RecoveryInv
    <2>. QED
      BY <2>1, <2>2 DEF FlushInv
  <1>. QED
    BY <1>3, <1>4, <1>5, <1>6 DEF AccessInv

\* A restart adds to what a user can come to own what the rows held at first, at most.
LEMMA RestartReach ==
    ASSUME RecoveryInv, Restart, NEW u \in Users
    PROVE  Reach(u)' \in 0 .. Reach(u) + RowEnergy
  <1>1. SettledEnergy' = to_collect_energy_'
    <2>1. mutex' = [i \in Rows |-> Free]
      BY DEF Restart, RestartWith
    <2>2. to_collect_energy_' = [i \in Rows |-> to_collect_energy_'[i]]
      BY LoadsCommitted
    <2>. QED
      BY <2>1, <2>2 DEF SettledEnergy
  <1>2. Left' <= RowEnergy /\ Left' \in Nat
    <2>. DEFINE f == to_collect_energy_'
    <2>1. f \in [Rows -> Nat] /\ InitEnergy \in [Rows -> Nat]
      BY LoadsCommitted, AmountAssumption
    <2>2. \A i \in Rows : f[i] <= InitEnergy[i]
      BY LoadsCommitted, <2>1
    <2>. HIDE DEF f
    <2>3. Cardinality(Units(f)) <= Cardinality(Units(InitEnergy))
      BY <2>1, <2>2, UnitsMonotone, FiniteAssumption
    <2>4. Cardinality(Units(f)) \in Nat
      BY <2>1, UnitsFinite, FiniteAssumption
    <2>. QED
      BY <1>1, <2>3, <2>4 DEF f, Left, RowEnergy
  <1>3. memTotalEnergyMap'[u] <= memTotalEnergyMap[u] /\ memTotalEnergyMap'[u] \in Nat
    <2>1. memTotalEnergyMap[u] \in Nat
      BY SumType DEF RecoveryInv
    <2>2. memTotalEnergyMap'[u] = IF u \in Accounts THEN dbTotal[u] ELSE 0
      BY LoadsCommitted
    <2>3. u \in Accounts => dbTotal[u] \in 0 .. memTotalEnergyMap[u]
      BY LoadsCommitted
    <2>. QED
      BY <2>1, <2>2, <2>3
  <1>4. memTotalEnergyMap[u] \in Nat /\ Left \in Nat /\ RowEnergy \in Nat
    BY SumType, LoadedType DEF RecoveryInv, RowEnergy
  <1>5. Reach(u) = memTotalEnergyMap[u] + Left /\ Reach(u)' = memTotalEnergyMap'[u] + Left'
    BY DEF Reach
  <1>. QED
    BY <1>2, <1>3, <1>4, <1>5

\* A restart uses up one of the lives the columns have room for.
LEMMA RestartLives ==
    ASSUME RecoveryInv, Restart
    PROVE  LivesInv' /\ restarts' \in 0 .. MaxRestarts
  <1>1. restarts < MaxRestarts /\ restarts' = restarts + 1 /\ restarts \in Nat
    BY RestartsAssumption DEF Restart, RestartWith, RecoveryInv
  <1>2. ASSUME NEW u \in Users
        PROVE  Reach(u)' <= InitTotal[u] + (restarts' + 1) * RowEnergy
    <2>. DEFINE a == (restarts + 1) * RowEnergy
                b == (restarts' + 1) * RowEnergy
    <2>1. a \in Nat /\ RowEnergy \in Nat /\ b = a + RowEnergy
      BY <1>1, OneLifeMore
    <2>2. Reach(u) <= InitTotal[u] + a
      BY DEF RecoveryInv, LivesInv
    <2>3. Reach(u)' \in 0 .. Reach(u) + RowEnergy
      BY RestartReach
    <2>4. Reach(u) \in Nat /\ InitTotal[u] \in Nat
      BY SumType, AmountAssumption DEF RecoveryInv
    <2>. HIDE DEF a, b
    <2>. QED
      BY <2>1, <2>2, <2>3, <2>4 DEF b
  <1>. QED
    BY <1>1, <1>2, RestartsAssumption DEF LivesInv, RowEnergy

\* The first state of a new life satisfies the invariant, wherever the last one ended.
LEMMA RestartInv ==
    ASSUME RecoveryInv, Restart
    PROVE  RecoveryInv'
  <1>1. HttpInit'
    BY DEF Restart, RestartWith, HttpInit
  <1>2. CounterInv'
    BY <1>1, HttpInitCounterInv, PTL
  <1>3. HandlingInv' /\ TotalsInv'
    BY DEF Restart, RestartWith, HandlingInv, TotalsInv
  <1>4. RowsInv'
    <2>1. /\ collectFlush'.pc = "off" /\ collectFlush'.id = 1
          /\ txnRows' = dbRows /\ dbRows' = dbRows
      BY DEF Restart, RestartWith
    <2>2. \A i \in Rows : to_collect_energy_'[i] = dbRows[i].energy
      BY LoadsCommitted
    <2>. QED
      BY <2>1, <2>2 DEF RowsInv, RowsOnce
  <1>. QED
    BY <1>2, <1>3, <1>4, RestartState, RestartLives DEF RecoveryInv

\* A step of the server keeps the invariant in any life.
LEMMA RunInv ==
    ASSUME RecoveryInv, [ServerNext]_serverVars, UNCHANGED restarts
    PROVE  RecoveryInv'
  <1>1. \A u \in Users : 2 * Reach(u) < Word /\ Reach(u) < Word
    BY LivesFit DEF RecoveryInv
  <1>2. AccessInv' /\ FlushTypeInv' /\ FlushInv' /\ CounterInv'
    BY <1>1, NextAccessInv, NextFlushTypeInv, NextFlushInv, NextCounterInv, ServerStep
    DEF RecoveryInv, AccessInv
  <1>3. ASSUME NEW u \in Users
        PROVE  Reach(u)' <= InitTotal[u] + (restarts' + 1) * RowEnergy
    <2>. DEFINE a == (restarts + 1) * RowEnergy
    <2>1. Reach(u)' \in 0 .. Reach(u)
      BY <1>1, ReachFalls, ServerStep DEF RecoveryInv
    <2>2. Reach(u) \in Nat /\ InitTotal[u] \in Nat /\ a \in Nat
      BY SumType, AmountAssumption, OneLifeMore, RestartsAssumption DEF RecoveryInv
    <2>3. Reach(u) <= InitTotal[u] + a
      BY DEF RecoveryInv, LivesInv
    <2>4. (restarts' + 1) * RowEnergy = a
      OBVIOUS
    <2>. HIDE DEF a
    <2>. QED
      BY <2>1, <2>2, <2>3, <2>4
  <1>4. HandlingInv' /\ TotalsInv' /\ RowsInv'
    BY EveryLife, NextHandlingInv, NextTotalsInv, NextRowsInv
    DEF RecoveryInv, AccessInv, CounterInv
  <1>. QED
    BY <1>2, <1>3, <1>4 DEF RecoveryInv, LivesInv, RowEnergy

\* The invariant holds over all lives.
LEMMA RecoveryInvHolds == RecoverySpec => []RecoveryInv
  <1>1. RecoveryInit => RecoveryInv
    <2>. SUFFICES ASSUME RecoveryInit PROVE RecoveryInv
      OBVIOUS
    <2>1. ServerInit /\ Init /\ WriteBackInit /\ restarts = 0
      BY DEF RecoveryInit, ServerInit
    <2>2. AccessInv /\ CounterInv /\ FlushTypeInv /\ FlushInv
      BY <2>1, InitIInv, InitCounterInv, InitFlushTypeInv, InitFlushInv DEF IInv
    <2>3. LivesInv
      <3>1. ReachInv
        BY <2>1, InitReachInv
      <3>2. (restarts + 1) * RowEnergy = RowEnergy
        BY <2>1, OneLifeMore
      <3>. QED
        BY <3>1, <3>2 DEF ReachInv, LivesInv, RowEnergy
    <2>4. HandlingInv /\ TotalsInv /\ RowsInv
      BY <2>1 DEF ServerInit, Init, WriteBackInit, HandlingInv, TotalsInv, RowsInv, RowsOnce
    <2>. QED
      BY <2>1, <2>2, <2>3, <2>4, RestartsAssumption DEF RecoveryInv
  <1>2. RecoveryInv /\ [RecoveryNext]_recoveryVars => RecoveryInv'
    <2>. SUFFICES ASSUME RecoveryInv, [RecoveryNext]_recoveryVars PROVE RecoveryInv'
      OBVIOUS
    <2>1. CASE Restart
      BY <2>1, RestartInv
    <2>2. CASE Run \/ UNCHANGED recoveryVars
      BY <2>2, RunInv DEF Run, recoveryVars
    <2>. QED
      BY <2>1, <2>2 DEF RecoveryNext
  <1>. QED
    BY <1>1, <1>2, PTL DEF RecoverySpec

\* A stop at any step and a load of what was committed leave every variable in its type.
THEOREM RecoveryTypes == RecoverySpec => []RecoveryTypeOK
  <1>1. RecoveryInv => RecoveryTypeOK
    BY DEF RecoveryInv, AccessInv, FlushTypeInv, CounterInv, ServerTypeOK, RecoveryTypeOK
  <1>. QED
    BY <1>1, RecoveryInvHolds, PTL

\* The database only moves on: over any number of lives, wherever each of them ends, no
\* commit gives a row energy back or takes it from a user.
THEOREM DatabaseOnlyMovesOn == RecoverySpec => DatabaseMovesOn
  <1>1. RecoveryInv /\ [RecoveryNext]_recoveryVars =>
           [/\ \A i \in Rows : dbRows'[i].energy <= dbRows[i].energy
            /\ \A u \in Accounts : dbTotal'[u] >= dbTotal[u]]_recoveryVars
    <2>. SUFFICES ASSUME RecoveryInv, RecoveryNext
                  PROVE  /\ \A i \in Rows : dbRows'[i].energy <= dbRows[i].energy
                         /\ \A u \in Accounts : dbTotal'[u] >= dbTotal[u]
      OBVIOUS
    <2>1. CASE Restart
      <3>1. UNCHANGED <<dbRows, dbTotal>>
        BY <2>1 DEF Restart, RestartWith
      <3>2. /\ \A i \in Rows : dbRows[i].energy \in Int
            /\ \A u \in Accounts : dbTotal[u] \in Int
        BY AmountAssumption DEF RecoveryInv, FlushTypeInv, WriteBackTypeOK
      <3>. QED
        BY <3>1, <3>2
    <2>2. CASE Run
      BY <2>2, CommitsMoveOn DEF Run, RecoveryInv
    <2>. QED
      BY <2>1, <2>2 DEF RecoveryNext
  <1>. QED
    BY <1>1, RecoveryInvHolds, PTL DEF RecoverySpec, DatabaseMovesOn

-----------------------------------------------------------------------------
\* After two complete and quiet write-backs memory differs from the tables in one row
\* at most, the one the last request names.
LEMMA QuietMemory ==
    ASSUME RecoveryInv, WrittenInQuiet
    PROVE  /\ \A u \in Accounts : dbTotal[u] = memTotalEnergyMap[u]
           /\ \E j \in Rows : \A i \in Rows \ {j} : dbRows[i].energy = to_collect_energy_[i]
  <1>1. \A u \in Accounts : dbTotal[u] = memTotalEnergyMap[u]
    BY DEF RecoveryInv, TotalsInv, WrittenInQuiet
  <1>2. /\ collectFlush.id = Total + 1 /\ dbRows = txnRows
        /\ LastToCome \/ LastHasCome
    BY TotalAssumption DEF RecoveryInv, RowsInv, RowsOnce, WrittenInQuiet
  <1>3. \A i \in Rows : InStep(i) => dbRows[i].energy = to_collect_energy_[i]
    BY <1>2, TotalAssumption DEF InStep
  <1>4. 1 \in Rows
    BY TotalAssumption
  <1>5. CASE LastToCome
    <2>1. \A i \in Rows \ {1} : dbRows[i].energy = to_collect_energy_[i]
      BY <1>3, <1>5 DEF LastToCome
    <2>. QED
      BY <1>1, <1>4, <2>1
  <1>6. CASE LastHasCome
    <2>1. PICK j \in Ids : \A i \in Rows \ {j} : InStep(i)
      BY <1>6 DEF LastHasCome
    <2>2. \A i \in Rows \ {j} : dbRows[i].energy = to_collect_energy_[i]
      BY <1>3, <2>1
    <2>3. CASE j \in Rows
      BY <1>1, <2>2, <2>3
    <2>4. CASE j \notin Rows
      BY <1>1, <1>4, <2>2, <2>4
    <2>. QED
      BY <2>3, <2>4
  <1>. QED
    BY <1>1, <1>2, <1>5, <1>6

\* A restart after both write-backs are over, whatever came in between and in whatever
\* life, loses no energy and brings back no more than one row held.
THEOREM RestartsKeepEnergy == RecoverySpec => RestartKeepsEnergy
  <1>1. ASSUME RecoveryInv, Restart, WrittenInQuiet
        PROVE  \E i \in Rows : Held' - Held \in 0 .. InitEnergy[i]
    <2>. DEFINE owned == [u \in Accounts |-> memTotalEnergyMap[u]]
                left  == to_collect_energy_
    <2>1. PICK j \in Rows : \A i \in Rows \ {j} : dbRows[i].energy = left[i]
      BY <1>1, QuietMemory
    <2>2. owned' = owned
      BY <1>1, QuietMemory, LoadsCommitted, AccountsAssumption
    <2>3. left \in [Rows -> Nat] /\ left' \in [Rows -> Nat]
      BY <1>1, LoadsCommitted, AmountAssumption DEF RecoveryInv, AccessInv, TypeOK
    <2>4. left' = [left EXCEPT ![j] = left'[j]]
      <3>1. \A i \in Rows : i # j => left'[i] = left[i]
        BY <1>1, <2>1, LoadsCommitted
      <3>. HIDE DEF left
      <3>. QED
        BY <2>3, <3>1
    <2>5. left'[j] - left[j] \in 0 .. InitEnergy[j]
      <3>1. left'[j] = dbRows[j].energy /\ dbRows[j].energy \in 0 .. InitEnergy[j]
        BY <1>1, LoadsCommitted
      <3>2. /\ left[j] <= txnRows[j].energy /\ txnRows[j].energy <= dbRows[j].energy
            /\ txnRows[j].energy \in Int /\ left[j] \in Nat /\ InitEnergy[j] \in Nat
        BY <1>1, <2>3, AmountAssumption DEF RecoveryInv, FlushInv, FlushTypeInv, WriteBackTypeOK
      <3>. QED
        BY <3>1, <3>2
    <2>6. /\ Held = Cardinality(Units(left)) + Cardinality(Units(owned))
          /\ Held' = Cardinality(Units(left')) + Cardinality(Units(owned))
      BY <2>2 DEF Held
    <2>7. Cardinality(Units(left')) = Cardinality(Units(left)) - left[j] + left'[j]
      <3>. HIDE DEF left
      <3>. QED
        BY <2>3, <2>4, UnitsExcept, FiniteAssumption
    <2>8. Cardinality(Units(left)) \in Nat /\ Cardinality(Units(owned)) \in Nat
      <3>1. IsFiniteSet(Accounts)
        BY FiniteAssumption, AccountsAssumption, FS_Subset
      <3>2. owned \in [Accounts -> Nat]
        BY <1>1, SumType, AccountsAssumption DEF RecoveryInv
      <3>. HIDE DEF owned, left
      <3>. QED
        BY <2>3, <3>1, <3>2, UnitsFinite, FiniteAssumption
    <2>9. left[j] \in Nat /\ left'[j] \in Nat
      BY <2>3
    <2>. HIDE DEF owned, left
    <2>. QED
      BY <2>5, <2>6, <2>7, <2>8, <2>9
  <1>2. RecoveryInv /\ [RecoveryNext]_recoveryVars =>
           [restarts' > restarts /\ WrittenInQuiet =>
               \E i \in Rows : Held' - Held \in 0 .. InitEnergy[i]]_recoveryVars
    BY <1>1, RestartsAssumption DEF RecoveryNext, Run, RecoveryInv
  <1>. QED
    BY <1>2, RecoveryInvHolds, PTL DEF RecoverySpec, RestartKeepsEnergy

=============================================================================
