--------------------------- MODULE WriteBackProofs ---------------------------
(***************************************************************************)
(* The two write-backs take no mutex and nothing orders their reads, the   *)
(* requests that are still being handled, and the commits.  What the       *)
(* tables show all the same: an earlier state of memory, always; and the   *)
(* state of memory itself, but for one row, if the requests received       *)
(* before were done when the write-back began.                             *)
(***************************************************************************)
EXTENDS CountersProofs, ConservationProofs

\* A step of the server either leaves the write-backs alone, or is one of theirs and
\* leaves the rest alone, or starts one.
LEMMA ServerParts ==
    ASSUME [ServerNext]_serverVars
    PROVE  \/ UNCHANGED writeBackVars
           \/ (ToCollectStep \/ TotalStep) /\ UNCHANGED <<vars, httpVars>>
           \/ \E t \in Threads : Spawn(t) /\ UNCHANGED vars
  BY DEF ServerNext, ThreadStep, Send, Disconnect, Loop, LoopUpTo, Recv, RecvAs, RecvEnd, Respond,
         Handle, HandleOther, Handling, Spawn, StartWriteBack, Count, CountBy, ToCollect, Totals,
         Terminating, serverVars

\* The fields of the tables memory was loaded from fit the type of their columns.
LEMMA SmallEnergy ==
    ASSUME NEW i \in Rows
    PROVE  InitEnergy[i] \in Nat /\ 2 * InitEnergy[i] < Word
  <1>1. InitEnergy \in [Rows -> Nat]
    BY AmountAssumption
  <1>2. InitEnergy[i] <= Cardinality(Units(InitEnergy))
    BY <1>1, EntryBound, FiniteAssumption
  <1>3. Owner[i] \in Users /\ InitTotal[Owner[i]] \in Nat
    BY RowsAssumption, AmountAssumption
  <1>. QED
    BY <1>1, <1>2, <1>3, LoadedType, IntAssumption, AmountAssumption

\* An amount that fits an int is written as it is.
LEMMA ToIntSmall ==
    ASSUME NEW n \in Nat, 2 * n < Word
    PROVE  ToInt(n) = n
  BY AmountAssumption DEF ToInt

\* A word written to a column of type int is a number of that column.
LEMMA ToIntType ==
    ASSUME NEW n \in 0 .. Word - 1
    PROVE  ToInt(n) \in -Word .. Word
  BY AmountAssumption DEF ToInt

-----------------------------------------------------------------------------
\* A row that is about to be written exists.
FlushTypeInv ==
    /\ WriteBackTypeOK
    /\ collectFlush.pc = "energy" => collectFlush.id <= Total

\* The tables as they were made have their types.
LEMMA InitFlushTypeInv == WriteBackInit => FlushTypeInv
  <1>. SUFFICES ASSUME WriteBackInit PROVE FlushTypeInv
    OBVIOUS
  <1>1. \A i \in Rows : InitEnergy[i] \in -Word .. Word
    BY AmountAssumption
  <1>2. \A u \in Accounts : ToInt(InitTotal[u]) \in -Word .. Word
    BY AmountAssumption, AccountsAssumption, ToIntType
  <1>. QED
    BY <1>1, <1>2, TotalAssumption
    DEF WriteBackInit, FlushTypeInv, WriteBackTypeOK, RowStatuses

\* What a step of either flush leaves of its own state.
LEMMA FlushState ==
    ASSUME FlushTypeInv, NEW p \in {"row", "energy", "done"}, NEW r \in RowStatuses,
           NEW q \in BOOLEAN
    PROVE  LET State == [pc : {"off", "row", "energy", "done"}, id : 1 .. Total + 1,
                         status : RowStatuses, quiet : BOOLEAN]
           IN  /\ [collectFlush EXCEPT !.pc = p, !.status = r] \in State
               /\ [collectFlush EXCEPT !.pc = p, !.quiet = q] \in State
               /\ [collectFlush EXCEPT !.pc = p] \in State
               /\ collectFlush.id <= Total =>
                      /\ [collectFlush EXCEPT !.id = collectFlush.id + 1] \in State
                      /\ [collectFlush EXCEPT !.pc = p, !.id = collectFlush.id + 1,
                                              !.status = r] \in State
  <1>. USE DEF FlushTypeInv, WriteBackTypeOK
  <1>1. collectFlush.id \in 1 .. Total + 1
    OBVIOUS
  <1>2. collectFlush.id <= Total => collectFlush.id + 1 \in 1 .. Total + 1
    BY <1>1, TotalAssumption
  <1>. HIDE DEF RowStatuses
  <1>3. collectFlush.id <= Total =>
           [collectFlush EXCEPT !.pc = p, !.id = collectFlush.id + 1, !.status = r] \in
              [pc : {"off", "row", "energy", "done"}, id : 1 .. Total + 1,
               status : RowStatuses, quiet : BOOLEAN]
    BY <1>2
  <1>4. collectFlush.id <= Total =>
           [collectFlush EXCEPT !.id = collectFlush.id + 1] \in
              [pc : {"off", "row", "energy", "done"}, id : 1 .. Total + 1,
               status : RowStatuses, quiet : BOOLEAN]
    BY <1>2
  <1>. QED
    BY <1>3, <1>4

\* No step of a flush leaves the types, and none writes a row that does not exist.
LEMMA NextFlushTypeInv ==
    ASSUME TypeOK, FlushTypeInv, [ServerNext]_serverVars
    PROVE  FlushTypeInv'
  <1>. USE DEF FlushTypeInv, WriteBackTypeOK
  <1>1. CASE UNCHANGED writeBackVars
    BY <1>1 DEF writeBackVars, collectFlushVars, totalFlushVars
  <1>2. CASE SkipRow
    <2>1. collectFlush'.pc # "energy"
      BY <1>2 DEF SkipRow
    <2>. QED
      BY <1>2, <2>1, FlushState DEF SkipRow, totalFlushVars, RowStatuses
  <1>3. CASE ReadStatus
    <2>1. PICK r \in RowStatuses :
             collectFlush' = [collectFlush EXCEPT !.pc = "energy", !.status = r]
      BY <1>3 DEF ReadStatus, RowStatuses
    <2>2. collectFlush'.id = collectFlush.id
      BY <2>1
    <2>3. collectFlush' \in [pc : {"off", "row", "energy", "done"}, id : 1 .. Total + 1,
                             status : RowStatuses, quiet : BOOLEAN]
      BY <2>1, FlushState
    <2>4. collectFlush.id <= Total /\ UNCHANGED <<dbRows, txnRows, dbTotal, txnTotal, totalFlush>>
      BY <1>3 DEF ReadStatus, totalFlushVars
    <2>. QED
      BY <2>2, <2>3, <2>4
  <1>4. CASE UpdateRow
    <2>1. collectFlush.id \in Rows
      BY <1>4, TotalAssumption DEF UpdateRow, WriteRow
    <2>2. ToInt(to_collect_energy_[collectFlush.id]) \in -Word .. Word
      BY <2>1, ToIntType DEF TypeOK
    <2>3. collectFlush' \in [pc : {"off", "row", "energy", "done"}, id : 1 .. Total + 1,
                             status : RowStatuses, quiet : BOOLEAN]
          /\ collectFlush'.pc = "row"
      <3>1. collectFlush.id <= Total
        BY <1>4 DEF UpdateRow, WriteRow
      <3>2. collectFlush' = [collectFlush EXCEPT !.pc = "row", !.id = collectFlush.id + 1,
                                                !.status = "unwritten"]
        BY <1>4 DEF UpdateRow, WriteRow
      <3>3. "unwritten" \in RowStatuses
        BY DEF RowStatuses
      <3>4. collectFlush'.pc = "row"
        BY <3>2
      <3>. QED
        BY <3>1, <3>2, <3>3, <3>4, FlushState, Zenon
    <2>. QED
      BY <1>4, <2>1, <2>2, <2>3
      DEF UpdateRow, WriteRow, toCollectEnergy_update, totalFlushVars
  <1>5. CASE CommitRows
    BY <1>5 DEF CommitRows, totalFlushVars
  <1>6. ASSUME NEW u \in Users, UpdateTotal(u)
        PROVE  FlushTypeInv'
    <2>1. ToInt(memTotalEnergyMap[u]) \in -Word .. Word
      BY ToIntType DEF TypeOK
    <2>. QED
      BY <1>6, <2>1 DEF UpdateTotal, totalEnergy_update, collectFlushVars
  <1>7. CASE CommitTotals
    BY <1>7 DEF CommitTotals, CommitTotalsNow, collectFlushVars
  <1>8. ASSUME NEW t \in Threads, Spawn(t)
        PROVE  FlushTypeInv'
    <2>1. PICK q \in BOOLEAN : StartToCollect(q) \/ StartTotal(q)
      BY <1>8 DEF Spawn, StartWriteBack
    <2>2. CASE StartToCollect(q)
      <3>1. collectFlush'.pc # "energy"
        BY <2>2 DEF StartToCollect
      <3>. QED
        BY <2>2, <3>1, FlushState DEF StartToCollect, totalFlushVars, RowStatuses
    <2>3. CASE StartTotal(q)
      BY <2>3 DEF StartTotal, collectFlushVars
    <2>. QED
      BY <2>1, <2>2, <2>3
  <1>. QED
    BY <1>1, <1>2, <1>3, <1>4, <1>5, <1>6, <1>7, <1>8, ServerParts DEF ToCollectStep, TotalStep

\* All variables of the server keep their types, the counters their bound.
THEOREM ServerTypes == ServerSpec => []ServerTypeOK
  <1>1. ServerInit => FlushTypeInv
    BY InitFlushTypeInv DEF ServerInit
  <1>2. IInv /\ FlushTypeInv /\ [ServerNext]_serverVars => FlushTypeInv'
    BY NextFlushTypeInv DEF IInv, AccessInv
  <1>3. IInv /\ FlushTypeInv /\ CounterInv => ServerTypeOK
    BY DEF IInv, AccessInv, FlushTypeInv, CounterInv, ServerTypeOK
  <1>. QED
    BY <1>1, <1>2, <1>3, InitCounterInv, NextCounterInv, ServerInvariant, PTL DEF ServerSpec

-----------------------------------------------------------------------------
\* What each flush reads of memory has by then been taken out of the rows and given to
\* the users: rows only fall, and totals rise while none can come to fill a word.
LEMMA NextFlushInv ==
    ASSUME AccessInv, FlushTypeInv, FlushInv, \A u \in Users : 2 * Reach(u) < Word,
           [ServerNext]_serverVars
    PROVE  FlushInv'
  <1>. DEFINE RowsBehind == \A i \in Rows :
                  /\ to_collect_energy_[i] <= txnRows[i].energy
                  /\ txnRows[i].energy <= dbRows[i].energy
                  /\ dbRows[i].energy <= InitEnergy[i]
              TotalsBehind == \A u \in Accounts :
                  /\ 0 <= dbTotal[u]
                  /\ dbTotal[u] <= txnTotal[u]
                  /\ txnTotal[u] <= memTotalEnergyMap[u]
  <1>1. RowsBehind /\ TotalsBehind
    BY DEF FlushInv
  <1>2. /\ \A i \in Rows : /\ to_collect_energy_[i] \in Nat /\ to_collect_energy_'[i] \in Nat
                           /\ txnRows[i].energy \in Int /\ dbRows[i].energy \in Int
                           /\ InitEnergy[i] \in Nat
        /\ \A u \in Accounts : /\ memTotalEnergyMap[u] \in Nat /\ memTotalEnergyMap'[u] \in Nat
                               /\ txnTotal[u] \in Int /\ dbTotal[u] \in Int
    <2>1. TypeOK /\ TypeOK' /\ WriteBackTypeOK
      BY NextAccessInv, ServerStep DEF AccessInv, FlushTypeInv
    <2>. QED
      BY <2>1, SmallEnergy, AmountAssumption, AccountsAssumption DEF TypeOK, WriteBackTypeOK
  <1>. SUFFICES RowsBehind' /\ TotalsBehind'
    BY DEF FlushInv
  <1>3. /\ \A i \in Rows : to_collect_energy_'[i] <= to_collect_energy_[i]
        /\ \A u \in Accounts : memTotalEnergyMap'[u] >= memTotalEnergyMap[u]
    <2>1. \A u \in Users : Reach(u) < Word
      BY SumType, AmountAssumption
    <2>. QED
      BY <2>1, EnergyFalls, ReachFalls, ServerStep, AccountsAssumption
  <1>4. ASSUME UNCHANGED <<dbRows, txnRows>> PROVE RowsBehind'
    BY <1>1, <1>2, <1>3, <1>4
  <1>5. ASSUME UNCHANGED <<dbTotal, txnTotal>> PROVE TotalsBehind'
    BY <1>1, <1>2, <1>3, <1>5
  <1>6. CASE UNCHANGED writeBackVars \/ SkipRow \/ ReadStatus
    BY <1>4, <1>5, <1>6
    DEF SkipRow, ReadStatus, writeBackVars, collectFlushVars, totalFlushVars
  <1>7. CASE UpdateRow /\ UNCHANGED vars
    <2>. DEFINE i == collectFlush.id
    <2>1. i \in Rows
      BY <1>7, TotalAssumption DEF UpdateRow, WriteRow, FlushTypeInv, WriteBackTypeOK
    <2>2. 2 * to_collect_energy_[i] < Word
      BY <1>1, <1>2, <2>1, SmallEnergy, AmountAssumption
    <2>3. /\ txnRows'[i].energy = to_collect_energy_[i]
          /\ \A j \in Rows \ {i} : txnRows'[j] = txnRows[j]
      <3>1. ToInt(to_collect_energy_[i]) = to_collect_energy_[i]
        BY <1>2, <2>1, <2>2, ToIntSmall
      <3>. QED
        BY <1>7, <2>1, <3>1
        DEF UpdateRow, WriteRow, toCollectEnergy_update, FlushTypeInv, WriteBackTypeOK
    <2>4. UNCHANGED <<dbRows, dbTotal, txnTotal, to_collect_energy_>>
      BY <1>7 DEF UpdateRow, WriteRow, totalFlushVars, vars, memVars
    <2>5. RowsBehind'
      BY <1>1, <1>2, <2>1, <2>3, <2>4
    <2>. QED
      BY <1>5, <2>4, <2>5
  <1>8. CASE CommitRows
    <2>1. dbRows' = txnRows /\ UNCHANGED <<txnRows, dbTotal, txnTotal>>
      BY <1>8 DEF CommitRows, totalFlushVars
    <2>. QED
      BY <1>1, <1>2, <1>3, <1>5, <2>1
  <1>9. ASSUME NEW u \in Users, UpdateTotal(u), UNCHANGED vars
        PROVE  RowsBehind' /\ TotalsBehind'
    <2>1. ToInt(memTotalEnergyMap[u]) = memTotalEnergyMap[u]
      <3>1. memTotalEnergyMap[u] \in Nat /\ 2 * memTotalEnergyMap[u] < Word
        BY SumType, AmountAssumption DEF Reach
      <3>. QED
        BY <3>1, ToIntSmall
    <2>2. \A v \in Accounts : txnTotal'[v] = IF v = u THEN memTotalEnergyMap[u] ELSE txnTotal[v]
      BY <1>9, <2>1 DEF UpdateTotal, totalEnergy_update, FlushTypeInv, WriteBackTypeOK
    <2>3. UNCHANGED <<dbRows, txnRows, dbTotal, memTotalEnergyMap>>
      BY <1>9 DEF UpdateTotal, collectFlushVars, vars, memVars
    <2>4. TotalsBehind'
      BY <1>1, <1>2, <2>2, <2>3
    <2>. QED
      BY <1>4, <2>3, <2>4
  <1>10. CASE CommitTotals
    <2>1. dbTotal' = txnTotal /\ UNCHANGED <<txnTotal, dbRows, txnRows>>
      BY <1>10 DEF CommitTotals, CommitTotalsNow, collectFlushVars
    <2>. QED
      BY <1>1, <1>2, <1>3, <1>4, <2>1
  <1>11. ASSUME NEW t \in Threads, Spawn(t)
         PROVE  RowsBehind' /\ TotalsBehind'
    <2>1. /\ UNCHANGED <<dbRows, dbTotal>>
          /\ txnRows' \in {dbRows, txnRows} /\ txnTotal' \in {dbTotal, txnTotal}
      BY <1>11
      DEF Spawn, StartWriteBack, StartToCollect, StartTotal, collectFlushVars, totalFlushVars
    <2>. QED
      BY <1>1, <1>2, <1>3, <2>1
  <1>. QED
    BY <1>6, <1>7, <1>8, <1>9, <1>10, <1>11, ServerParts DEF ToCollectStep, TotalStep

\* At the start tables and memory are the same.
LEMMA InitFlushInv == ServerInit => FlushInv
  <1>. SUFFICES ASSUME ServerInit PROVE FlushInv
    OBVIOUS
  <1>1. \A i \in Rows : InitEnergy[i] \in Nat
    BY SmallEnergy
  <1>2. ASSUME NEW u \in Accounts
        PROVE  InitTotal[u] \in Nat /\ ToInt(InitTotal[u]) = InitTotal[u]
    <2>1. InitTotal[u] \in Nat /\ u \in Users
      BY AmountAssumption, AccountsAssumption
    <2>2. 2 * InitTotal[u] < Word
      BY <2>1, LoadedType, IntAssumption, AmountAssumption
    <2>. QED
      BY <2>1, <2>2, ToIntSmall
  <1>3. /\ txnRows = dbRows /\ txnTotal = dbTotal
        /\ to_collect_energy_ = InitEnergy /\ memTotalEnergyMap = InitTotal
        /\ \A i \in Rows : dbRows[i].energy = InitEnergy[i]
        /\ \A u \in Accounts : dbTotal[u] = ToInt(InitTotal[u])
    BY DEF ServerInit, Init, WriteBackInit
  <1>. QED
    BY <1>1, <1>2, <1>3 DEF FlushInv

\* What a user can come to own is bounded by what was loaded.
ReachInv == \A u \in Users : Reach(u) <= InitTotal[u] + Cardinality(Units(InitEnergy))

\* At the start all a user can come to own is what was loaded.
LEMMA InitReachInv == Init => ReachInv
  <1>. SUFFICES ASSUME Init, NEW u \in Users
                PROVE  Reach(u) <= InitTotal[u] + Cardinality(Units(InitEnergy))
    BY DEF ReachInv
  <1>1. SettledEnergy = InitEnergy /\ memTotalEnergyMap = InitTotal
    BY AmountAssumption DEF Init, SettledEnergy
  <1>2. Reach(u) = InitTotal[u] + Cardinality(Units(InitEnergy))
    BY <1>1 DEF Reach, Left
  <1>3. InitTotal[u] \in Nat
    BY AmountAssumption
  <1>. QED
    BY <1>2, <1>3, LoadedType

\* So it fits an int, and less than that fits a word.
LEMMA ReachFits ==
    ASSUME AccessInv, ReachInv
    PROVE  /\ \A u \in Users : 2 * Reach(u) < Word
           /\ [Next]_vars => ReachInv'
  <1>1. ASSUME NEW u \in Users
        PROVE  2 * Reach(u) < Word /\ Reach(u) < Word /\ InitTotal[u] \in Nat
    <2>1. InitTotal[u] \in Nat
      BY AmountAssumption
    <2>. QED
      BY <2>1, SumType, LoadedType, IntAssumption, AmountAssumption DEF ReachInv
  <1>2. ASSUME [Next]_vars, NEW u \in Users
        PROVE  Reach(u)' <= InitTotal[u] + Cardinality(Units(InitEnergy))
    <2>1. Reach(u)' \in 0 .. Reach(u)
      BY <1>1, <1>2, ReachFalls
    <2>. QED
      BY <1>1, <2>1, SumType, LoadedType DEF ReachInv
  <1>. QED
    BY <1>1, <1>2 DEF ReachInv

\* The invariant of the server with its write-backs.
ServerInv == IInv /\ CounterInv /\ FlushTypeInv /\ FlushInv /\ ReachInv

\* The invariant holds in every state of the server.
LEMMA ServerInvHolds == ServerSpec => []ServerInv
  <1>1. ServerInit => FlushTypeInv /\ FlushInv /\ ReachInv
    BY InitFlushTypeInv, InitFlushInv, InitReachInv DEF ServerInit
  <1>2. /\ IInv /\ FlushTypeInv /\ FlushInv /\ ReachInv
        /\ [ServerNext]_serverVars
        => FlushTypeInv' /\ FlushInv' /\ ReachInv'
    <2>. SUFFICES ASSUME IInv, FlushTypeInv, FlushInv, ReachInv, [ServerNext]_serverVars
                  PROVE  FlushTypeInv' /\ FlushInv' /\ ReachInv'
      OBVIOUS
    <2>1. AccessInv /\ TypeOK
      BY DEF IInv, AccessInv
    <2>2. \A u \in Users : 2 * Reach(u) < Word
      BY <2>1, ReachFits
    <2>3. FlushTypeInv' /\ FlushInv'
      BY <2>1, <2>2, NextFlushTypeInv, NextFlushInv
    <2>. QED
      BY <2>1, <2>3, ReachFits, ServerStep
  <1>. QED
    BY <1>1, <1>2, InitCounterInv, NextCounterInv, ServerInvariant, PTL DEF ServerSpec, ServerInv

\* The tables show an earlier state of memory: at no instant a row emptier than it is,
\* or a total higher than it is, whatever the flushes and the requests interleave to.
THEOREM DatabaseStaysBehind == ServerSpec => []DatabaseBehind
  <1>1. ServerInv => DatabaseBehind
    <2>. SUFFICES ASSUME ServerInv PROVE DatabaseBehind
      OBVIOUS
    <2>1. /\ \A i \in Rows : /\ to_collect_energy_[i] \in Int /\ txnRows[i].energy \in Int
                             /\ dbRows[i].energy \in Int
          /\ \A u \in Accounts : /\ memTotalEnergyMap[u] \in Int /\ txnTotal[u] \in Int
                                 /\ dbTotal[u] \in Int
      BY AmountAssumption, AccountsAssumption
      DEF ServerInv, IInv, AccessInv, TypeOK, FlushTypeInv, WriteBackTypeOK
    <2>. QED
      BY <2>1 DEF ServerInv, FlushInv, DatabaseBehind
  <1>. QED
    BY <1>1, ServerInvHolds, PTL

-----------------------------------------------------------------------------
(***************************************************************************)
(* What the lemmas on the end of a write-back start from.  It holds in     *)
(* every life of the process, whatever rows it was loaded with.            *)
(***************************************************************************)
LifeInv ==
    /\ AccessInv /\ CounterInv /\ FlushTypeInv /\ FlushInv
    /\ \A u \in Users : 2 * Reach(u) < Word

\* The life that starts from the tables as they were made is one of them.
LEMMA FirstLife == ServerInv => LifeInv
  BY ReachFits DEF ServerInv, IInv, LifeInv

\* A step inside handle_request moves its own thread and touches its own row.
LEMMA StepFacts ==
    ASSUME TypeOK, NEW t \in Threads, Step(t)
    PROVE  /\ pc[t] # "idle"
           /\ \A s \in Threads \ {t} : pc'[s] = pc[s] /\ req'[s] = req[s]
           /\ pc'[t] # "idle" => req'[t] = req[t]
           /\ \A i \in Rows \ {req[t].id} :
                 /\ status_'[i] = status_[i] /\ modified_'[i] = modified_[i]
                 /\ to_collect_energy_'[i] = to_collect_energy_[i]
  <1>. USE DEF TypeOK
  <1>1. CASE CheckReturn(t)
    BY <1>1 DEF CheckReturn, ReturnEarly, Return, memVars
  <1>2. CASE CheckPass(t) \/ MarkModified(t) \/ LockRow(t) \/ Reject(t)
    BY <1>2 DEF CheckPass, MarkModified, LockRow, TakeMutex, Reject, RejectTo, Goto, memVars
  <1>3. CASE Credit(t)
    BY <1>3 DEF Credit, Goto
  <1>4. CASE StoreEnergy(t)
    BY <1>4 DEF StoreEnergy, StoreLeft, EnergyPending
  <1>5. CASE StoreStatus(t)
    BY <1>5 DEF StoreStatus, StatusPending
  <1>6. CASE UnlockRow(t)
    BY <1>6 DEF UnlockRow, Return
  <1>. QED
    BY <1>1, <1>2, <1>3, <1>4, <1>5, <1>6 DEF Step

\* Only Handle enters handle_request, and func_http waits for its return.
LEMMA NextHandlingInv ==
    ASSUME TypeOK, HttpTypeOK, HandlingInv, [ServerNext]_serverVars
    PROVE  HandlingInv'
  <1>. USE DEF HandlingInv, HttpTypeOK
  <1>1. CASE UNCHANGED <<pc, at>>
    BY <1>1
  <1>2. ASSUME NEW t \in Threads, Loop(t) \/ Recv(t) \/ RecvEnd(t) \/ Respond(t)
        PROVE  HandlingInv'
    BY <1>2 DEF Loop, LoopUpTo, Recv, RecvAs, RecvEnd, Respond, Move, vars, handlerVars
  <1>3. ASSUME NEW t \in Threads, Spawn(t) \/ Count(t) \/ HandleOther(t)
        PROVE  HandlingInv'
    BY <1>3 DEF Spawn, StartWriteBack, Count, CountBy, HandleOther, Move, vars, handlerVars
  <1>4. ASSUME NEW t \in Threads, Handle(t)
        PROVE  HandlingInv'
    BY <1>4 DEF Handle, HandleRequest, Goto, Move, TypeOK
  <1>5. ASSUME NEW t \in Threads, Handling(t)
        PROVE  HandlingInv'
    BY <1>5, StepFacts DEF Handling, httpVars
  <1>6. CASE \/ ToCollect \/ Totals \/ Terminating \/ UNCHANGED serverVars
             \/ \E t \in Threads : Send(t) \/ Disconnect(t)
    BY <1>1, <1>6 DEF ToCollect, Totals, Terminating, Send, Disconnect, serverVars, vars,
                      handlerVars, httpVars
  <1>. QED
    BY <1>2, <1>3, <1>4, <1>5, <1>6 DEF ServerNext, ThreadStep

\* While no thread is in handle_request and none receives, none gets into it.
LEMMA NobodyCollects ==
    ASSUME TypeOK, HttpTypeOK, HandlingInv, [ServerNext]_serverVars, req_cnt' = req_cnt,
           \A t \in Threads : at[t] \notin {"respond", "handle", "handling"}
    PROVE  /\ UNCHANGED vars
           /\ \A t \in Threads : at'[t] \notin {"respond", "handle", "handling"}
  <1>. USE DEF HttpTypeOK
  <1>1. ASSUME NEW t \in Threads, ThreadStep(t)
        PROVE  Loop(t) \/ RecvEnd(t) \/ Respond(t) \/ Count(t)
    <2>1. ~Handling(t)
      BY StepFacts DEF Handling, HandlingInv
    <2>2. ~Recv(t)
      BY DEF Recv, RecvAs
    <2>3. ~Handle(t) /\ ~HandleOther(t) /\ ~Spawn(t)
      BY DEF Handle, HandleOther, Spawn, StartWriteBack, Move
    <2>. QED
      BY <1>1, <2>1, <2>2, <2>3 DEF ThreadStep
  <1>2. ASSUME NEW t \in Threads, Loop(t) \/ RecvEnd(t) \/ Respond(t) \/ Count(t)
        PROVE  /\ UNCHANGED vars
               /\ \A s \in Threads : at'[s] \notin {"respond", "handle", "handling"}
    BY <1>2 DEF Loop, LoopUpTo, RecvEnd, Respond, Count, CountBy, Move
  <1>3. CASE \/ ToCollect \/ Totals \/ Terminating \/ UNCHANGED serverVars
             \/ \E t \in Threads : Send(t) \/ Disconnect(t)
    BY <1>3 DEF ToCollect, Totals, Terminating, Send, Disconnect, serverVars, httpVars
  <1>. QED
    BY <1>1, <1>2, <1>3 DEF ServerNext

\* The number of requests received only rises, and only by receiving one.
LEMMA ReceivedRises ==
    ASSUME HttpTypeOK, [ServerNext]_serverVars
    PROVE  req_cnt' = req_cnt
           \/ \E t \in Threads : Recv(t) /\ req_cnt' = req_cnt + 1 /\ UNCHANGED writeBackVars
  BY DEF ServerNext, ThreadStep, Send, Disconnect, Loop, LoopUpTo, Recv, RecvAs, RecvEnd, Respond,
         Handle, HandleOther, Handling, Spawn, StartWriteBack, Count, CountBy, ToCollect, Totals,
         Terminating, serverVars, httpVars

\* A thread that starts a write-back with all other requests received done is alone.
LEMMA AloneInHand ==
    ASSUME CounterInv, NEW t \in Threads, InHand(t), done_count + 1 = req_cnt
    PROVE  \A s \in Threads \ {t} : ~InHand(s)
  <1>1. Cardinality(InHands) = 1
    BY CounterFacts, ClientAssumption DEF HttpTypeOK
  <1>2. t \in InHands /\ Cardinality(InHands \ {t}) = 0 /\ IsFiniteSet(InHands \ {t})
    BY <1>1, ThreadSets DEF InHands
  <1>3. InHands \ {t} = {}
    BY <1>2, FS_EmptySet
  <1>. QED
    BY <1>3 DEF InHands

\* The write-back of the totals was started with all else done, and nothing came since.
TotalsUndisturbed == totalFlush.pc # "off" /\ totalFlush.quiet /\ req_cnt = Total

TotalsInStep ==
    /\ \A t \in Threads : at[t] \notin {"respond", "handle", "handling"}
    /\ \A u \in Accounts \ totalFlush.todo : txnTotal[u] = memTotalEnergyMap[u]
    /\ totalFlush.pc = "done" => \A u \in Accounts : dbTotal[u] = memTotalEnergyMap[u]

\* What the flush has read stays so: it began when only its own thread had a request
\* in hand, and that one had been handled.
LEMMA NextTotalsInv ==
    ASSUME LifeInv, HandlingInv, TotalsInv, [ServerNext]_serverVars
    PROVE  TotalsInv'
  <1>1. TypeOK /\ HttpTypeOK /\ WriteBackTypeOK
    BY DEF LifeInv, AccessInv, CounterInv, FlushTypeInv
  <1>2. /\ totalFlush.pc # "off" => req_cnt >= Total
        /\ TotalsUndisturbed => TotalsInStep
    BY DEF TotalsInv, TotalsUndisturbed, TotalsInStep
  <1>3. SUFFICES /\ totalFlush'.pc # "off" => req_cnt' >= Total
                 /\ TotalsUndisturbed' => TotalsInStep'
    BY DEF TotalsInv, TotalsUndisturbed, TotalsInStep
  <1>4. Total \in Nat /\ req_cnt \in Nat /\ done_count \in Nat /\ Total - 1 # Total
    BY <1>1, TotalAssumption, ClientAssumption DEF HttpTypeOK
  <1>5. req_cnt' \in Nat /\ req_cnt' >= req_cnt
    BY <1>1, <1>4, ReceivedRises
  <1>6. ASSUME UNCHANGED totalFlushVars
        PROVE  /\ totalFlush'.pc # "off" => req_cnt' >= Total
               /\ TotalsUndisturbed' => TotalsInStep'
    <2>1. totalFlush'.pc # "off" => req_cnt' >= Total
      BY <1>2, <1>4, <1>5, <1>6 DEF totalFlushVars
    <2>2. ASSUME TotalsUndisturbed'
          PROVE  TotalsInStep'
      <3>1. req_cnt' = req_cnt /\ TotalsUndisturbed
        BY <1>1, <1>2, <1>4, <1>6, <2>2, ReceivedRises DEF TotalsUndisturbed, totalFlushVars
      <3>2. /\ UNCHANGED vars
            /\ \A t \in Threads : at'[t] \notin {"respond", "handle", "handling"}
        BY <1>1, <1>2, <3>1, NobodyCollects DEF TotalsInStep
      <3>. QED
        BY <1>2, <1>6, <3>1, <3>2 DEF TotalsInStep, totalFlushVars, vars, memVars
    <2>. QED
      BY <2>1, <2>2
  <1>7. CASE ToCollectStep /\ UNCHANGED <<vars, httpVars>>
    BY <1>6, <1>7 DEF ToCollectStep, SkipRow, ReadStatus, UpdateRow, WriteRow, CommitRows
  <1>8. ASSUME NEW u \in Users, UpdateTotal(u), UNCHANGED <<vars, httpVars>>
        PROVE  /\ totalFlush'.pc # "off" => req_cnt' >= Total
               /\ TotalsUndisturbed' => TotalsInStep'
    <2>1. ToInt(memTotalEnergyMap[u]) = memTotalEnergyMap[u]
      <3>1. AccessInv /\ 2 * Reach(u) < Word
        BY DEF LifeInv
      <3>2. memTotalEnergyMap[u] \in Nat /\ 2 * memTotalEnergyMap[u] < Word
        BY <3>1, SumType, AmountAssumption DEF Reach
      <3>. QED
        BY <3>2, ToIntSmall
    <2>2. \A v \in Accounts : txnTotal'[v] = IF v = u THEN memTotalEnergyMap[u] ELSE txnTotal[v]
      BY <1>1, <1>8, <2>1 DEF UpdateTotal, totalEnergy_update, WriteBackTypeOK
    <2>3. /\ totalFlush.pc = "user" /\ totalFlush'.pc = "user"
          /\ totalFlush'.todo = totalFlush.todo \ {u} /\ totalFlush'.quiet = totalFlush.quiet
      BY <1>1, <1>8 DEF UpdateTotal, WriteBackTypeOK
    <2>4. UNCHANGED <<memTotalEnergyMap, at, req_cnt>>
      BY <1>8 DEF vars, memVars, httpVars
    <2>. QED
      BY <1>2, <2>2, <2>3, <2>4 DEF TotalsUndisturbed, TotalsInStep
  <1>9. CASE CommitTotals /\ UNCHANGED <<vars, httpVars>>
    <2>1. /\ totalFlush.pc = "user" /\ totalFlush.todo = {}
          /\ totalFlush'.pc = "done" /\ totalFlush'.todo = {}
          /\ totalFlush'.quiet = totalFlush.quiet
          /\ dbTotal' = txnTotal /\ txnTotal' = txnTotal
      BY <1>1, <1>9 DEF CommitTotals, CommitTotalsNow, WriteBackTypeOK
    <2>2. UNCHANGED <<memTotalEnergyMap, at, req_cnt>>
      BY <1>9 DEF vars, memVars, httpVars
    <2>. QED
      BY <1>2, <2>1, <2>2 DEF TotalsUndisturbed, TotalsInStep
  <1>10. ASSUME NEW t \in Threads, Spawn(t)
         PROVE  /\ totalFlush'.pc # "off" => req_cnt' >= Total
                /\ TotalsUndisturbed' => TotalsInStep'
    <2>1. CASE StartToCollect(done_count = Total - 2)
      BY <1>6, <2>1 DEF StartToCollect
    <2>2. CASE cnt[t] = Total /\ StartTotal(done_count = Total - 1)
      <3>1. /\ at[t] = "handling" /\ at' = [at EXCEPT ![t] = "sleep"]
            /\ req_cnt' = req_cnt /\ UNCHANGED vars
        BY <1>10 DEF Spawn, StartWriteBack, Move
      <3>2. /\ totalFlush' = [pc |-> "user", todo |-> Users, quiet |-> done_count = Total - 1]
        BY <2>2 DEF StartTotal
      <3>3. req_cnt >= Total
        BY <2>2 DEF LifeInv, CounterInv
      <3>4. ASSUME TotalsUndisturbed'
            PROVE  \A s \in Threads : at'[s] \notin {"respond", "handle", "handling"}
        <4>1. InHand(t) /\ done_count + 1 = req_cnt
          <5>1. InHand(t)
            BY <3>1 DEF InHand
          <5>2. req_cnt = Total /\ (done_count = Total - 1) = TRUE
            BY <3>1, <3>2, <3>4 DEF TotalsUndisturbed
          <5>. QED
            BY <1>4, <5>1, <5>2
        <4>2. \A s \in Threads \ {t} : ~InHand(s)
          BY <4>1, AloneInHand DEF LifeInv
        <4>. QED
          BY <1>1, <3>1, <4>2 DEF InHand, HttpTypeOK
      <3>. QED
        BY <3>1, <3>2, <3>3, <3>4, AccountsAssumption DEF TotalsInStep
    <2>. QED
      BY <1>10, <2>1, <2>2 DEF Spawn, StartWriteBack
  <1>. QED
    BY <1>6, <1>7, <1>8, <1>9, <1>10, ServerParts DEF TotalStep, writeBackVars

\* The invariant behind TotalsWrittenBack holds in every state of the server.
LEMMA QuietInvHolds == ServerSpec => [](HandlingInv /\ TotalsInv)
  <1>1. ServerInit => HandlingInv /\ TotalsInv
    BY DEF ServerInit, Init, WriteBackInit, HandlingInv, TotalsInv
  <1>2. LifeInv /\ HandlingInv /\ TotalsInv /\ [ServerNext]_serverVars
        => HandlingInv' /\ TotalsInv'
    BY NextHandlingInv, NextTotalsInv DEF LifeInv, AccessInv, CounterInv
  <1>. QED
    BY <1>1, <1>2, FirstLife, ServerInvHolds, PTL DEF ServerSpec

\* A write-back of the totals that begins when every other request is done, and after
\* which none comes, ends with the table equal to memory, for any number of users.
THEOREM TotalsAreWrittenBack == ServerSpec => []TotalsWrittenBack
  <1>1. TotalsInv => TotalsWrittenBack
    BY DEF TotalsInv, TotalsWrittenBack
  <1>. QED
    BY <1>1, QuietInvHolds, PTL

-----------------------------------------------------------------------------
\* Only Recv puts a thread on its way into handle_request, and under a new number.
LEMMA WaysIn ==
    ASSUME HttpTypeOK, HandlingInv, TypeOK, [ServerNext]_serverVars, NEW s \in Threads,
           at'[s] \in {"respond", "handle", "handling"}
    PROVE  \/ at[s] \in {"respond", "handle", "handling"} /\ cnt'[s] = cnt[s]
           \/ cnt'[s] = req_cnt + 1
  <1>. USE DEF HttpTypeOK
  <1>1. CASE UNCHANGED <<at, cnt>>
    BY <1>1
  <1>2. ASSUME NEW t \in Threads, ThreadStep(t), ~Handling(t)
        PROVE  \/ at[s] \in {"respond", "handle", "handling"} /\ cnt'[s] = cnt[s]
               \/ cnt'[s] = req_cnt + 1
    BY <1>2 DEF ThreadStep, Loop, LoopUpTo, Recv, RecvAs, RecvEnd, Respond, Handle, HandleOther,
                Spawn, StartWriteBack, Count, CountBy, Move
  <1>. QED
    BY <1>1, <1>2 DEF ServerNext, ThreadStep, Handling, Send, Disconnect, ToCollect, Totals,
                      Terminating, serverVars, httpVars

\* A step of func_http that is not one of these three lets nobody in.
LEMMA OtherSteps ==
    ASSUME HttpTypeOK, [ServerNext]_serverVars
    PROVE  \/ \E t \in Threads : Recv(t) \/ Handle(t) \/ Handling(t)
           \/ /\ UNCHANGED <<vars, req_cnt>>
              /\ \A s \in Threads : Entering(s)' => Entering(s)
  <1>. USE DEF HttpTypeOK, Entering
  <1>1. CASE UNCHANGED <<vars, req_cnt, at>>
    BY <1>1
  <1>2. ASSUME NEW t \in Threads,
               Loop(t) \/ RecvEnd(t) \/ Respond(t) \/ HandleOther(t) \/ Spawn(t) \/ Count(t)
        PROVE  /\ UNCHANGED <<vars, req_cnt>>
               /\ \A s \in Threads : Entering(s)' => Entering(s)
    BY <1>2 DEF Loop, LoopUpTo, RecvEnd, Respond, HandleOther, Spawn, StartWriteBack, Count,
                CountBy, Move
  <1>. QED
    BY <1>1, <1>2 DEF ServerNext, ThreadStep, Send, Disconnect, ToCollect, Totals, Terminating,
                      serverVars, httpVars

\* The request numbered Total - 1 comes once, so its write-back starts once.
LEMMA NextRowsOnce ==
    ASSUME LifeInv, HandlingInv, RowsOnce, [ServerNext]_serverVars
    PROVE  RowsOnce'
  <1>1. TypeOK /\ HttpTypeOK /\ WriteBackTypeOK
    BY DEF LifeInv, AccessInv, CounterInv, FlushTypeInv
  <1>2. /\ Total \in Nat /\ req_cnt \in Nat /\ req_cnt' \in Nat /\ req_cnt' >= req_cnt
        /\ collectFlush.id \in Nat /\ Rows = 1 .. Total
        /\ collectFlush.pc = "energy" => collectFlush.id \in Rows
    BY <1>1, TotalAssumption, ClientAssumption, ReceivedRises
    DEF LifeInv, FlushTypeInv, HttpTypeOK, WriteBackTypeOK
  <1>2a. ASSUME NEW i \in Rows
         PROVE  /\ modified_[i] => modified_'[i]
                /\ ~modified_'[i] =>
                       ~modified_[i] /\ to_collect_energy_'[i] = to_collect_energy_[i]
    <2>1. AccessInv /\ [Next]_vars
      BY ServerStep DEF LifeInv
    <2>2. ~modified_'[i] => ~modified_[i] /\ to_collect_energy_'[i] = to_collect_energy_[i]
      BY <2>1, UnmarkedIsFrozen
    <2>. QED
      BY <2>2
  <1>. DEFINE Started == collectFlush.pc # "off" =>
                  /\ req_cnt >= Total - 1
                  /\ \A t \in Threads : at[t] \in {"respond", "handle", "handling"} =>
                         cnt[t] # Total - 1
              InOrder ==
                  /\ collectFlush.pc = "off" => collectFlush.id = 1 /\ txnRows = dbRows
                  /\ collectFlush.pc = "energy" => modified_[collectFlush.id]
                  /\ collectFlush.pc = "done" => collectFlush.id = Total + 1 /\ dbRows = txnRows
                  /\ \A i \in Rows : ~modified_[i] => txnRows[i].energy = to_collect_energy_[i]
  <1>3. Started /\ InOrder
    BY DEF RowsOnce
  <1>. SUFFICES Started' /\ InOrder'
    BY DEF RowsOnce
  <1>4. ASSUME collectFlush.pc # "off"
        PROVE  Started'
    <2>1. ASSUME NEW s \in Threads, at'[s] \in {"respond", "handle", "handling"}
          PROVE  cnt'[s] # Total - 1
      <3>1. \/ at[s] \in {"respond", "handle", "handling"} /\ cnt'[s] = cnt[s]
            \/ cnt'[s] = req_cnt + 1
        BY <1>1, <2>1, WaysIn
      <3>. QED
        BY <1>2, <1>3, <1>4, <3>1
    <2>. QED
      BY <1>2, <1>3, <1>4, <2>1
  <1>5. ASSUME UNCHANGED collectFlushVars
        PROVE  Started' /\ InOrder'
    <2>1. InOrder'
      BY <1>2, <1>2a, <1>3, <1>5 DEF collectFlushVars
    <2>2. Started'
      BY <1>4, <1>5 DEF collectFlushVars
    <2>. QED
      BY <2>1, <2>2
  <1>6. CASE TotalStep
    BY <1>5, <1>6 DEF TotalStep, CommitTotals, CommitTotalsNow, UpdateTotal
  <1>7. CASE SkipRow /\ UNCHANGED vars
    <2>1. /\ collectFlush.pc = "row" /\ collectFlush'.pc = "row"
          /\ collectFlush'.id = collectFlush.id + 1 /\ UNCHANGED <<dbRows, txnRows>>
      BY <1>1, <1>7 DEF SkipRow, WriteBackTypeOK
    <2>2. UNCHANGED <<modified_, to_collect_energy_>>
      BY <1>7 DEF vars, memVars
    <2>3. InOrder'
      BY <1>3, <2>1, <2>2
    <2>. QED
      BY <1>4, <2>1, <2>3
  <1>8. CASE ReadStatus /\ UNCHANGED vars
    <2>1. /\ collectFlush.pc = "row" /\ collectFlush'.pc = "energy"
          /\ modified_[collectFlush.id]
          /\ collectFlush'.id = collectFlush.id /\ UNCHANGED <<dbRows, txnRows>>
      BY <1>1, <1>8 DEF ReadStatus, WriteBackTypeOK
    <2>2. UNCHANGED <<modified_, to_collect_energy_>>
      BY <1>8 DEF vars, memVars
    <2>3. InOrder'
      BY <1>3, <2>1, <2>2
    <2>. QED
      BY <1>4, <2>1, <2>3
  <1>9. CASE UpdateRow /\ UNCHANGED vars
    <2>1. /\ collectFlush.pc = "energy" /\ collectFlush'.pc = "row"
          /\ collectFlush'.id = collectFlush.id + 1 /\ UNCHANGED dbRows
      BY <1>1, <1>9 DEF UpdateRow, WriteRow, WriteBackTypeOK
    <2>2. \A i \in Rows : i # collectFlush.id => txnRows'[i] = txnRows[i]
      BY <1>1, <1>9 DEF UpdateRow, WriteRow, toCollectEnergy_update, WriteBackTypeOK
    <2>3. InOrder'
      BY <1>2, <1>2a, <1>3, <2>1, <2>2
    <2>. QED
      BY <1>4, <2>1, <2>3
  <1>10. CASE CommitRows /\ UNCHANGED vars
    <2>1. /\ collectFlush.pc = "row" /\ collectFlush'.pc = "done"
          /\ collectFlush.id = Total + 1 /\ collectFlush'.id = collectFlush.id
          /\ dbRows' = txnRows /\ txnRows' = txnRows
      BY <1>1, <1>10 DEF CommitRows, WriteBackTypeOK
    <2>2. UNCHANGED <<modified_, to_collect_energy_>>
      BY <1>10 DEF vars, memVars
    <2>3. InOrder'
      BY <1>3, <2>1, <2>2
    <2>. QED
      BY <1>4, <2>1, <2>3
  <1>11. ASSUME NEW t \in Threads, Spawn(t)
         PROVE  Started' /\ InOrder'
    <2>1. CASE StartTotal(done_count = Total - 1)
      BY <1>5, <2>1 DEF StartTotal
    <2>2. CASE cnt[t] = Total - 1 /\ StartToCollect(done_count = Total - 2)
      <3>1. /\ at[t] = "handling" /\ at' = [at EXCEPT ![t] = "sleep"]
            /\ req_cnt' = req_cnt /\ cnt' = cnt
        BY <1>11 DEF Spawn, StartWriteBack, Move
      <3>2. collectFlush.pc = "off"
        BY <1>3, <2>2, <3>1
      <3>3. /\ collectFlush'.pc = "row" /\ collectFlush'.id = collectFlush.id
            /\ txnRows' = dbRows /\ dbRows' = dbRows
        BY <1>1, <2>2 DEF StartToCollect, WriteBackTypeOK
      <3>4. InOrder'
        BY <1>2, <1>2a, <1>3, <3>2, <3>3
      <3>5. req_cnt >= Total - 1
        BY <2>2 DEF LifeInv, CounterInv
      <3>6. ASSUME NEW s \in Threads, at'[s] \in {"respond", "handle", "handling"}
            PROVE  cnt'[s] # Total - 1
        <4>1. s # t /\ InHand(s) /\ InHand(t)
          BY <1>1, <3>1, <3>6 DEF InHand, HttpTypeOK
        <4>. QED
          BY <2>2, <3>1, <4>1 DEF LifeInv, CounterInv, CountersAgree
      <3>. QED
        BY <3>1, <3>4, <3>5, <3>6
    <2>. QED
      BY <1>11, <2>1, <2>2 DEF Spawn, StartWriteBack
  <1>. QED
    BY <1>5, <1>6, <1>7, <1>8, <1>9, <1>10, <1>11, ServerParts
    DEF ToCollectStep, writeBackVars

\* The flush moves on, memory stands still: a row in step stays in step.
LEMMA FlushKeepsInStep ==
    ASSUME LifeInv, RowsOnce, ToCollectStep, UNCHANGED vars, NEW i \in Rows, InStep(i)
    PROVE  InStep(i)'
  <1>1. TypeOK /\ WriteBackTypeOK
    BY DEF LifeInv, AccessInv, FlushTypeInv
  <1>2. /\ i \in Nat /\ collectFlush.id \in Nat
        /\ collectFlush.id <= Total => collectFlush.id \in Rows
        /\ collectFlush.pc = "energy" => collectFlush.id <= Total
    BY <1>1, TotalAssumption DEF WriteBackTypeOK, LifeInv, FlushTypeInv
  <1>3. UNCHANGED <<status_, to_collect_energy_, modified_>>
    BY DEF vars, memVars
  <1>4. CASE SkipRow
    <2>1. /\ collectFlush.id <= Total /\ ~modified_[collectFlush.id]
          /\ collectFlush'.pc = "row"
          /\ collectFlush'.id = collectFlush.id + 1 /\ UNCHANGED txnRows
      BY <1>1, <1>4 DEF SkipRow, WriteBackTypeOK
    <2>2. CASE i = collectFlush.id
      <3>1. ~modified_[i] /\ txnRows[i].energy = to_collect_energy_[i]
        BY <2>1, <2>2 DEF RowsOnce
      <3>. QED
        BY <1>2, <1>3, <2>1, <2>2, <3>1 DEF InStep
    <2>3. CASE i # collectFlush.id
      BY <1>2, <1>3, <2>1, <2>3 DEF InStep
    <2>. QED
      BY <2>2, <2>3
  <1>5. CASE ReadStatus
    <2>1. /\ collectFlush'.pc = "energy" /\ collectFlush'.id = collectFlush.id
          /\ UNCHANGED txnRows
          /\ (collectFlush'.status = "all_collected")
                = (status_[collectFlush.id] = ALL_COLLECTED)
      BY <1>1, <1>5 DEF ReadStatus, WriteBackTypeOK
    <2>. QED
      BY <1>3, <2>1 DEF InStep
  <1>6. CASE UpdateRow
    <2>. DEFINE k == collectFlush.id
    <2>1. /\ collectFlush.pc = "energy" /\ collectFlush'.pc = "row" /\ collectFlush'.id = k + 1
          /\ k \in Rows
      BY <1>1, <1>2, <1>6 DEF UpdateRow, WriteRow, WriteBackTypeOK
    <2>2. /\ i # k => txnRows'[i] = txnRows[i]
          /\ txnRows'[k] = [energy |-> ToInt(to_collect_energy_[k]), status |-> collectFlush.status]
      BY <1>1, <1>6, <2>1 DEF UpdateRow, WriteRow, toCollectEnergy_update, WriteBackTypeOK
    <2>3. ToInt(to_collect_energy_[k]) = to_collect_energy_[k]
      <3>1. /\ to_collect_energy_[k] \in Nat /\ InitEnergy[k] \in Nat
            /\ to_collect_energy_[k] <= InitEnergy[k]
        BY <1>1, <2>1, SmallEnergy, AmountAssumption
        DEF LifeInv, FlushInv, TypeOK, WriteBackTypeOK
      <3>2. 2 * to_collect_energy_[k] < Word
        BY <2>1, <3>1, SmallEnergy, AmountAssumption
      <3>. QED
        BY <3>1, <3>2, ToIntSmall
    <2>. QED
      BY <1>2, <1>3, <2>1, <2>2, <2>3 DEF InStep
  <1>7. CASE CommitRows
    <2>1. /\ collectFlush'.pc = "done" /\ collectFlush'.id = collectFlush.id /\ UNCHANGED txnRows
      BY <1>1, <1>7 DEF CommitRows, WriteBackTypeOK
    <2>. QED
      BY <1>3, <2>1 DEF InStep
  <1>. QED
    BY <1>4, <1>5, <1>6, <1>7 DEF ToCollectStep

\* The write-back of the rows was started with all earlier requests done.
RowsUndisturbed == collectFlush.pc # "off" /\ collectFlush.quiet /\ req_cnt <= Total

\* A thread that starts it then shares the requests in hand with at most one other.
LEMMA FewInHand ==
    ASSUME CounterInv, NEW t \in Threads, InHand(t),
           done_count = Total - 2, req_cnt <= Total, req_cnt >= Total - 1
    PROVE  /\ \A s \in Threads \ {t} : InHand(s) => req_cnt = Total
           /\ \A s, x \in Threads \ {t} : InHand(s) /\ InHand(x) => s = x
  <1>1. Cardinality(InHands) <= 2 /\ Cardinality(InHands) = req_cnt - Total + 2
    BY CounterFacts, ClientAssumption, TotalAssumption DEF HttpTypeOK
  <1>2. t \in InHands /\ Cardinality(InHands \ {t}) = Cardinality(InHands) - 1
    BY ThreadSets DEF InHands
  <1>3. ASSUME NEW s \in Threads \ {t}, InHand(s)
        PROVE  Cardinality(InHands \ {t}) >= 1
               /\ Cardinality((InHands \ {t}) \ {s}) = Cardinality(InHands) - 2
    <2>1. s \in InHands \ {t}
      BY <1>3 DEF InHands
    <2>2. InHands \ {t} \in SUBSET Threads /\ Cardinality(InHands) \in Nat
      BY CounterFacts
    <2>3. /\ Cardinality(InHands \ {t}) >= 1
          /\ Cardinality((InHands \ {t}) \ {s}) = Cardinality(InHands \ {t}) - 1
      BY <2>1, <2>2, ThreadSets
    <2>. QED
      BY <1>2, <2>2, <2>3
  <1>4. ASSUME NEW s \in Threads \ {t}, InHand(s)
        PROVE  req_cnt = Total
    <2>1. Cardinality(InHands) \in Nat /\ Cardinality(InHands) >= 2
      <3>1. Cardinality(InHands \ {t}) >= 1
        BY <1>3, <1>4
      <3>2. Cardinality(InHands) \in Nat
        BY CounterFacts
      <3>. QED
        BY <1>2, <3>1, <3>2
    <2>2. req_cnt \in Nat /\ Total \in Nat
      BY CounterFacts, ClientAssumption, TotalAssumption DEF HttpTypeOK
    <2>. QED
      BY <1>1, <2>1, <2>2
  <1>5. ASSUME NEW s \in Threads \ {t}, NEW x \in Threads \ {t}, InHand(s), InHand(x), s # x
        PROVE  FALSE
    <2>1. x \in (InHands \ {t}) \ {s} /\ (InHands \ {t}) \ {s} \in SUBSET Threads
      BY <1>5 DEF InHands
    <2>2. Cardinality((InHands \ {t}) \ {s}) >= 1
      BY <2>1, ThreadSets
    <2>. QED
      BY <1>1, <1>3, <1>5, <2>2, CounterFacts
  <1>. QED
    BY <1>4, <1>5

\* Where the requests that may still change a row stand when it starts.
LEMMA RowsStart ==
    ASSUME LifeInv, HandlingInv, RowsOnce, RowsOnce', NEW t \in Threads, Spawn(t),
           cnt[t] = Total - 1, StartToCollect(done_count = Total - 2), RowsUndisturbed'
    PROVE  LastToCome' \/ LastHasCome'
  <1>1. TypeOK /\ HttpTypeOK /\ WriteBackTypeOK /\ CounterInv /\ RequestInv
    BY DEF LifeInv, AccessInv, CounterInv, FlushTypeInv
  <1>2. /\ at[t] = "handling" /\ at' = [at EXCEPT ![t] = "sleep"]
        /\ pc[t] = "idle" /\ req_cnt' = req_cnt /\ UNCHANGED vars
    BY DEF Spawn, StartWriteBack, Move
  <1>3. /\ collectFlush'.pc = "row" /\ collectFlush'.id = collectFlush.id
        /\ collectFlush'.quiet = (done_count = Total - 2)
    BY <1>1 DEF StartToCollect, WriteBackTypeOK
  <1>4. collectFlush.id = 1
    BY <1>2 DEF RowsOnce
  <1>5. \A i \in Rows : InStep(i)'
    BY <1>3, <1>4, TotalAssumption DEF InStep
  <1>6. /\ InHand(t) /\ done_count = Total - 2
        /\ req_cnt <= Total /\ req_cnt >= Total - 1
    BY <1>2, <1>3 DEF InHand, RowsUndisturbed, RowsOnce
  <1>7. /\ \A s \in Threads \ {t} : InHand(s) => req_cnt = Total
        /\ \A s, x \in Threads \ {t} : InHand(s) /\ InHand(x) => s = x
    BY <1>1, <1>6, FewInHand
  <1>8. CASE \E s \in Threads : pc[s] # "idle"
    <2>1. PICK s \in Threads : pc[s] # "idle"
      BY <1>8
    <2>2. s # t /\ at[s] = "handling" /\ InHand(s) /\ req[s].id \in Ids
      BY <1>1, <1>2, <2>1 DEF HandlingInv, InHand, RequestInv, Request
    <2>3. \A x \in Threads : pc[x] # "idle" => x = s
      BY <1>2, <1>7, <2>2 DEF HandlingInv, InHand
    <2>4. \A x \in Threads : ~Entering(x)'
      BY <1>1, <1>2, <1>7, <2>2 DEF Entering, InHand, HttpTypeOK
    <2>. QED
      BY <1>2, <1>5, <1>7, <2>2, <2>3, <2>4 DEF LastHasCome, vars, handlerVars
  <1>9. CASE \A s \in Threads : pc[s] = "idle"
    <2>1. \A s \in Threads : Entering(s)' => s # t /\ InHand(s)
      BY <1>1, <1>2 DEF Entering, InHand, HttpTypeOK
    <2>. QED
      BY <1>2, <1>5, <1>7, <1>9, <2>1 DEF LastToCome, vars, handlerVars
  <1>. QED
    BY <1>8, <1>9

\* Memory moves on, the flush stands still: of the requests that may still change a row
\* one at most is left.
LEMMA RowsRequests ==
    ASSUME LifeInv, HandlingInv, RowsOnce, [ServerNext]_serverVars,
           UNCHANGED collectFlushVars, LastToCome \/ LastHasCome, RowsUndisturbed,
           req_cnt' <= Total
    PROVE  LastToCome' \/ LastHasCome'
  <1>1. TypeOK /\ HttpTypeOK /\ req_cnt \in Nat /\ Total \in Nat /\ req_cnt >= Total - 1
    BY TotalAssumption, ClientAssumption
    DEF LifeInv, AccessInv, CounterInv, HttpTypeOK, RowsUndisturbed, RowsOnce
  <1>2. ASSUME NEW i \in Rows, InStep(i), status_'[i] = status_[i],
               modified_'[i] = modified_[i], to_collect_energy_'[i] = to_collect_energy_[i]
        PROVE  InStep(i)'
    BY <1>2 DEF InStep, collectFlushVars
  <1>3. ASSUME NEW t \in Threads, Recv(t)
        PROVE  LastToCome'
    <2>1. req_cnt' = req_cnt + 1 /\ UNCHANGED vars /\ at[t] = "recv"
          /\ \A s \in Threads \ {t} : at'[s] = at[s]
      BY <1>1, <1>3 DEF Recv, RecvAs, Move, HttpTypeOK
    <2>2. req_cnt' = Total /\ req_cnt < Total
      BY <1>1, <2>1
    <2>3. LastToCome
      BY <1>1, <2>2 DEF LastHasCome
    <2>4. \A s \in Threads : ~Entering(s)
      BY <1>1, <2>2, <2>3 DEF LastToCome
    <2>5. \A s \in Threads : Entering(s)' => s = t
      BY <2>1, <2>4 DEF Entering
    <2>6. \A i \in Rows : InStep(i)'
      BY <1>2, <2>1, <2>3 DEF LastToCome, vars, memVars
    <2>. QED
      BY <2>1, <2>2, <2>3, <2>5, <2>6 DEF LastToCome, vars, handlerVars
  <1>4. ASSUME NEW t \in Threads, Handle(t)
        PROVE  LastHasCome'
    <2>1. /\ Entering(t) /\ req_cnt' = req_cnt
          /\ at' = [at EXCEPT ![t] = "handling"]
          /\ UNCHANGED memVars
      BY <1>4 DEF Handle, HandleRequest, Move, Entering
    <2>2. PICK r \in ClientRequests : HandleRequest(t, r.user, r.id)
      BY <1>4 DEF Handle
    <2>3. /\ req'[t].id = r.id /\ r.id \in Ids
          /\ \A s \in Threads \ {t} : pc'[s] = pc[s]
      BY <1>1, <2>2, ClientAssumption DEF HandleRequest, Goto, TypeOK, Request
    <2>4. LastToCome
      BY <2>1 DEF LastHasCome
    <2>5. req_cnt' = Total /\ \A s \in Threads : ~Entering(s)'
      BY <1>1, <2>1, <2>4 DEF LastToCome, Entering, HttpTypeOK
    <2>6. \A s \in Threads : pc'[s] # "idle" => s = t
      BY <2>3, <2>4 DEF LastToCome
    <2>7. \A i \in Rows : InStep(i)'
      BY <1>2, <2>1, <2>4 DEF LastToCome, memVars
    <2>. QED
      BY <2>3, <2>5, <2>6, <2>7 DEF LastHasCome
  <1>5. ASSUME NEW t \in Threads, Handling(t)
        PROVE  LastHasCome'
    <2>1. Step(t) /\ UNCHANGED <<at, req_cnt>>
      BY <1>5 DEF Handling, httpVars
    <2>2. /\ pc[t] # "idle"
          /\ \A s \in Threads \ {t} : pc'[s] = pc[s] /\ req'[s] = req[s]
          /\ pc'[t] # "idle" => req'[t] = req[t]
          /\ \A i \in Rows \ {req[t].id} :
                /\ status_'[i] = status_[i] /\ modified_'[i] = modified_[i]
                /\ to_collect_energy_'[i] = to_collect_energy_[i]
      BY <1>1, <2>1, StepFacts
    <2>3. LastHasCome
      BY <2>2 DEF LastToCome
    <2>4. PICK j \in Ids : /\ \A s \in Threads : pc[s] # "idle" => req[s].id = j
                           /\ \A i \in Rows \ {j} : InStep(i)
      BY <2>3 DEF LastHasCome
    <2>5. \A s \in Threads : pc'[s] # "idle" => req'[s].id = j
      BY <2>2, <2>4
    <2>6. \A i \in Rows \ {j} : InStep(i)'
      BY <1>2, <2>2, <2>4
    <2>7. req_cnt' = Total /\ \A s \in Threads : ~Entering(s)'
      BY <2>1, <2>3 DEF LastHasCome, Entering
    <2>. QED
      BY <2>5, <2>6, <2>7 DEF LastHasCome
  <1>6. ASSUME UNCHANGED <<vars, req_cnt>>, \A s \in Threads : Entering(s)' => Entering(s)
        PROVE  LastToCome' \/ LastHasCome'
    <2>1. \A i \in Rows : InStep(i) => InStep(i)'
      BY <1>2, <1>6 DEF vars, memVars
    <2>2. CASE LastToCome
      BY <1>6, <2>1, <2>2 DEF LastToCome, vars, handlerVars
    <2>3. CASE LastHasCome
      BY <1>6, <2>1, <2>3 DEF LastHasCome, vars, handlerVars
    <2>. QED
      BY <2>2, <2>3
  <1>. QED
    BY <1>1, <1>3, <1>4, <1>5, <1>6, OtherSteps

\* The invariant behind RowsWrittenBack is kept by memory, by the flush and by its start.
LEMMA NextRowsInv ==
    ASSUME LifeInv, HandlingInv, RowsInv, [ServerNext]_serverVars
    PROVE  RowsInv'
  <1>1. RowsOnce /\ RowsOnce' /\ (RowsUndisturbed => LastToCome \/ LastHasCome)
    BY NextRowsOnce DEF RowsInv, RowsUndisturbed
  <1>2. HttpTypeOK /\ WriteBackTypeOK /\ req_cnt \in Nat /\ Total \in Nat
    BY TotalAssumption, ClientAssumption DEF LifeInv, CounterInv, FlushTypeInv, HttpTypeOK
  <1>3. SUFFICES ASSUME RowsUndisturbed'
                 PROVE  LastToCome' \/ LastHasCome'
    BY <1>1 DEF RowsInv, RowsUndisturbed
  <1>4. req_cnt' <= Total /\ req_cnt <= Total
    BY <1>2, <1>3, ReceivedRises DEF RowsUndisturbed
  <1>5. CASE UNCHANGED collectFlushVars
    <2>1. RowsUndisturbed
      BY <1>3, <1>4, <1>5 DEF RowsUndisturbed, collectFlushVars
    <2>. QED
      BY <1>1, <1>4, <1>5, <2>1, RowsRequests
  <1>6. CASE ToCollectStep /\ UNCHANGED <<vars, httpVars>>
    <2>1. collectFlush.pc # "off" /\ collectFlush'.quiet = collectFlush.quiet
      BY <1>2, <1>6 DEF ToCollectStep, SkipRow, ReadStatus, UpdateRow, WriteRow, CommitRows,
                        WriteBackTypeOK
    <2>2. LastToCome \/ LastHasCome
      BY <1>1, <1>3, <1>4, <2>1 DEF RowsUndisturbed
    <2>3. \A i \in Rows : InStep(i) => InStep(i)'
      BY <1>1, <1>6, FlushKeepsInStep
    <2>. QED
      BY <1>6, <2>2, <2>3 DEF LastToCome, LastHasCome, Entering, vars, handlerVars, httpVars
  <1>7. ASSUME NEW t \in Threads, Spawn(t)
        PROVE  LastToCome' \/ LastHasCome'
    <2>1. CASE StartTotal(done_count = Total - 1)
      BY <1>5, <2>1 DEF StartTotal
    <2>2. CASE cnt[t] = Total - 1 /\ StartToCollect(done_count = Total - 2)
      BY <1>1, <1>3, <1>7, <2>2, RowsStart
    <2>. QED
      BY <1>7, <2>1, <2>2 DEF Spawn, StartWriteBack
  <1>8. CASE TotalStep
    BY <1>5, <1>8 DEF TotalStep, CommitTotals, CommitTotalsNow, UpdateTotal
  <1>. QED
    BY <1>5, <1>6, <1>7, <1>8, ServerParts DEF writeBackVars

\* A status is written for rows with the mark only.
LEMMA NextUnmarkedInv ==
    ASSUME LifeInv, RowsOnce, UnmarkedInv, [ServerNext]_serverVars
    PROVE  UnmarkedInv'
  <1>1. WriteBackTypeOK /\ AccessInv /\ [Next]_vars
    BY ServerStep DEF LifeInv, FlushTypeInv
  <1>2. \A i \in Rows : ~modified_'[i] => ~modified_[i]
    BY <1>1, UnmarkedIsFrozen
  <1>3. CASE UNCHANGED txnRows
    BY <1>2, <1>3 DEF UnmarkedInv
  <1>4. CASE UpdateRow /\ UNCHANGED vars
    <2>1. /\ modified_[collectFlush.id] /\ UNCHANGED modified_
          /\ \A i \in Rows : i # collectFlush.id => txnRows'[i] = txnRows[i]
      BY <1>1, <1>4
      DEF UpdateRow, WriteRow, toCollectEnergy_update, WriteBackTypeOK, RowsOnce, vars, memVars
    <2>. QED
      BY <2>1 DEF UnmarkedInv
  <1>5. ASSUME NEW t \in Threads, Spawn(t)
        PROVE  UNCHANGED txnRows
    <2>1. CASE StartTotal(done_count = Total - 1)
      BY <2>1 DEF StartTotal, collectFlushVars
    <2>2. CASE cnt[t] = Total - 1 /\ StartToCollect(done_count = Total - 2)
      BY <1>5, <2>2 DEF StartToCollect, RowsOnce, Spawn, StartWriteBack, Move
    <2>. QED
      BY <1>5, <2>1, <2>2 DEF Spawn, StartWriteBack
  <1>. QED
    BY <1>3, <1>4, <1>5, ServerParts
    DEF ToCollectStep, SkipRow, ReadStatus, CommitRows, TotalStep, CommitTotals, CommitTotalsNow,
        UpdateTotal, writeBackVars, collectFlushVars

\* It holds in every state of the server, with the statuses not yet written.
LEMMA RowsInvHolds == ServerSpec => [](RowsInv /\ UnmarkedInv)
  <1>1. ServerInit => RowsInv /\ UnmarkedInv
    BY DEF ServerInit, Init, WriteBackInit, RowsInv, RowsOnce, UnmarkedInv
  <1>2. LifeInv /\ HandlingInv /\ RowsInv /\ UnmarkedInv /\ [ServerNext]_serverVars
        => RowsInv' /\ UnmarkedInv'
    BY NextRowsInv, NextUnmarkedInv DEF RowsInv
  <1>. QED
    BY <1>1, <1>2, FirstLife, ServerInvHolds, QuietInvHolds, PTL DEF ServerSpec

\* A write-back of the rows that begins when every earlier request is done ends with the
\* table equal to memory but for one row at most, the one the last request names.
THEOREM RowsAreWrittenBack == ServerSpec => []RowsWrittenBack
  <1>1. ServerInv /\ RowsInv /\ UnmarkedInv => RowsWrittenBack
    <2>. SUFFICES ASSUME ServerInv, RowsInv, UnmarkedInv,
                         collectFlush.pc = "done", collectFlush.quiet, req_cnt <= Total
                  PROVE  Cardinality({i \in Rows : Stale(i)}) <= 1
      BY DEF RowsWrittenBack
    <2>1. ASSUME NEW i \in Rows, InStep(i)
          PROVE  ~Stale(i)
      <3>1. i < collectFlush.id /\ dbRows = txnRows
        BY TotalAssumption DEF RowsInv, RowsOnce
      <3>2. CASE modified_[i]
        BY <2>1, <3>1, <3>2 DEF InStep, Stale
      <3>3. CASE ~modified_[i]
        <4>1. status_[i] = EMPTY /\ txnRows[i].status = "unwritten"
          BY <3>3 DEF ServerInv, IInv, ChangedIsMarked, UnmarkedInv
        <4>. QED
          BY <2>1, <3>1, <4>1 DEF InStep, Stale, EMPTY, ALL_COLLECTED
      <3>. QED
        BY <3>2, <3>3
    <2>2. \E j \in Ids : {i \in Rows : Stale(i)} \subseteq {j}
      <3>1. CASE LastToCome
        <4>1. {i \in Rows : Stale(i)} = {}
          BY <2>1, <3>1 DEF LastToCome
        <4>2. 1 \in Ids
          BY TotalAssumption, RowsAssumption
        <4>. QED
          BY <4>1, <4>2
      <3>2. CASE LastHasCome
        BY <2>1, <3>2 DEF LastHasCome
      <3>. QED
        BY <3>1, <3>2 DEF RowsInv
    <2>3. PICK j \in Ids : {i \in Rows : Stale(i)} \subseteq {j}
      BY <2>2
    <2>4. IsFiniteSet({j}) /\ Cardinality({j}) = 1
      BY FS_Singleton
    <2>. HIDE DEF Stale
    <2>. QED
      BY <2>3, <2>4, FS_Subset
  <1>. QED
    BY <1>1, ServerInvHolds, RowsInvHolds, PTL

=============================================================================
