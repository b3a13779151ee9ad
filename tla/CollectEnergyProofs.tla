------------------------ MODULE CollectEnergyProofs ------------------------
(***************************************************************************)
(* Theorems of CollectEnergy for every set of threads, users and rows and  *)
(* every loaded amount: the inductive invariant IInv, the integrity of the *)
(* rows, and that the threads implement EnergyLedger.                      *)
(***************************************************************************)
EXTENDS CollectEnergy, TLAPS

\* The share of others is part of the energy, and not nothing above the boundary.
LEMMA ShareBounds ==
    ASSUME NEW e \in Nat
    PROVE  /\ Share(e) \in 0 .. e
           /\ e > 3 => Share(e) > 0
  BY DEF Share

\* What a request takes out of a row is there.
LEMMA GainBounds ==
    ASSUME NEW u, NEW i, NEW e \in 0 .. Word - 1
    PROVE  Gain(u, i, e) \in 0 .. e
  BY ShareBounds, AmountAssumption DEF Gain

\* A 32-bit addition stays in the word.
LEMMA Add32Type ==
    ASSUME NEW a \in 0 .. Word - 1, NEW b \in 0 .. Word - 1
    PROVE  Add32(a, b) \in 0 .. Word - 1
  BY AmountAssumption DEF Add32

\* Collecting takes coherent fields to coherent fields, and leaves nothing to repeat.
LEMMA CollectCoherent ==
    ASSUME NEW i \in Rows, NEW u \in Users,
           NEW s \in Statuses, NEW e \in 0 .. Word - 1,
           Coherent(i, s, e), CanCollect(u, i, s, e)
    PROVE  Coherent(i, StatusAfter(u, i), e - Gain(u, i, e))
  <1>. USE AmountAssumption DEF Statuses, EMPTY, COLLECTED_BY_OTHER, ALL_COLLECTED
  <1>1. CASE u = Owner[i]
    BY <1>1 DEF Coherent, CanCollect, StatusAfter, Gain
  <1>2. CASE u # Owner[i]
    <2>1. s = EMPTY /\ e > 3 /\ e = InitEnergy[i]
      BY <1>2 DEF Coherent, CanCollect
    <2>2. Share(e) > 0
      BY <2>1, ShareBounds
    <2>. QED
      BY <1>2, <2>1, <2>2 DEF Coherent, StatusAfter, Gain
  <1>. QED
    BY <1>1, <1>2

\* The status a collection leaves is neither EMPTY nor open to the same user.
LEMMA StatusAfterFinal ==
    ASSUME NEW u, NEW i, NEW e
    PROVE  /\ StatusAfter(u, i) \in Statuses
           /\ StatusAfter(u, i) # EMPTY
           /\ ~CanCollect(u, i, StatusAfter(u, i), e)
  BY DEF StatusAfter, CanCollect, Statuses, EMPTY, COLLECTED_BY_OTHER, ALL_COLLECTED

-----------------------------------------------------------------------------
\* The tables as loaded satisfy the inductive invariant.
LEMMA InitIInv == Init => IInv
  <1>. SUFFICES ASSUME Init PROVE IInv
    OBVIOUS
  <1>. USE AmountAssumption, FreeAssumption
  <1>1. TypeOK
    BY DEF Init, TypeOK, Statuses, EMPTY, Locations
  <1>2. RequestInv /\ LockInv
    BY DEF Init, RequestInv, LockInv, InCritical
  <1>3. MarkInv /\ ChangedIsMarked
    BY DEF Init, MarkInv, ChangedIsMarked
  <1>4. RowInv
    BY DEF Init, RowInv, InCritical, Coherent, EMPTY, COLLECTED_BY_OTHER, ALL_COLLECTED
  <1>5. GainInv
    BY DEF Init, GainInv, EnergyPending
  <1>. QED
    BY <1>1, <1>2, <1>3, <1>4, <1>5 DEF IInv, AccessInv

\* The types are preserved by every step.
LEMMA NextTypeOK ==
    ASSUME AccessInv, [Next]_vars
    PROVE  TypeOK'
  <1>. USE DEF Locations, AccessInv
  <1>1. ASSUME NEW t \in Threads, NEW u \in Users, NEW i \in Ids, HandleRequest(t, u, i)
        PROVE  TypeOK'
    BY <1>1 DEF HandleRequest, Goto, TypeOK, memVars, Request
  <1>2. ASSUME NEW t \in Threads, CheckReturn(t)
        PROVE  TypeOK'
    BY <1>2, AmountAssumption DEF CheckReturn, ReturnEarly, Return, TypeOK, memVars
  <1>3. ASSUME NEW t \in Threads, CheckPass(t)
        PROVE  TypeOK'
    BY <1>3 DEF CheckPass, Goto, TypeOK, memVars
  <1>4. ASSUME NEW t \in Threads, MarkModified(t)
        PROVE  TypeOK'
    BY <1>4 DEF MarkModified, Goto, TypeOK
  <1>5. ASSUME NEW t \in Threads, LockRow(t)
        PROVE  TypeOK'
    BY <1>5 DEF LockRow, TakeMutex, Goto, TypeOK
  <1>6. ASSUME NEW t \in Threads, Reject(t)
        PROVE  TypeOK'
    BY <1>6 DEF Reject, RejectTo, Goto, TypeOK, memVars
  <1>7. ASSUME NEW t \in Threads, Credit(t)
        PROVE  TypeOK'
    <2>1. req[t].id \in Rows /\ req[t].user \in Users
      BY <1>7 DEF Credit, Goto, RequestInv, Request
    <2>2. Gain(req[t].user, req[t].id, to_collect_energy_[req[t].id]) \in 0 .. Word - 1
      BY <2>1, GainBounds, AmountAssumption DEF TypeOK
    <2>3. Add32(memTotalEnergyMap[req[t].user],
                Gain(req[t].user, req[t].id, to_collect_energy_[req[t].id]))
             \in 0 .. Word - 1
      BY <2>1, <2>2, Add32Type DEF TypeOK
    <2>. QED
      BY <1>7, <2>1, <2>2, <2>3 DEF Credit, Goto, TypeOK
  <1>8. ASSUME NEW t \in Threads, StoreEnergy(t)
        PROVE  TypeOK'
    <2>1. InCritical(t) /\ req[t].id \in Rows
      BY <1>8 DEF StoreEnergy, StoreLeft, EnergyPending, InCritical, RequestInv
    <2>2. to_collect_energy_[req[t].id] - count[t] \in 0 .. Word - 1
      <3>1. count[t] = Gain(req[t].user, req[t].id, to_collect_energy_[req[t].id])
        BY <1>8 DEF StoreEnergy, StoreLeft, GainInv
      <3>2. to_collect_energy_[req[t].id] \in 0 .. Word - 1
        BY <2>1 DEF TypeOK
      <3>. QED
        BY <3>1, <3>2, GainBounds, AmountAssumption
    <2>. QED
      BY <1>8, <2>1, <2>2, AmountAssumption DEF StoreEnergy, StoreLeft, TypeOK
  <1>9. ASSUME NEW t \in Threads, StoreStatus(t)
        PROVE  TypeOK'
    BY <1>9, StatusAfterFinal DEF StoreStatus, TypeOK
  <1>10. ASSUME NEW t \in Threads, UnlockRow(t)
         PROVE  TypeOK'
    <2>1. mutex' \in [Rows -> Threads \cup {Free}]
      BY <1>10 DEF UnlockRow, TypeOK
    <2>2. UNCHANGED <<status_, to_collect_energy_, modified_, memTotalEnergyMap>>
      BY <1>10 DEF UnlockRow
    <2>. QED
      BY <1>10, <2>1, <2>2, AmountAssumption DEF UnlockRow, Return, TypeOK
  <1>11. CASE UNCHANGED vars
    BY <1>11 DEF vars, memVars, handlerVars, TypeOK
  <1>. QED
    BY <1>1, <1>2, <1>3, <1>4, <1>5, <1>6, <1>7, <1>8, <1>9, <1>10, <1>11 DEF Next, Step

\* A thread past the early return has found its row.
LEMMA NextRequestInv ==
    ASSUME AccessInv, TypeOK', [Next]_vars
    PROVE  RequestInv'
  <1>. USE DEF Locations, AccessInv, TypeOK
  <1>1. ASSUME NEW t \in Threads, NEW u \in Users, NEW i \in Ids, HandleRequest(t, u, i)
        PROVE  RequestInv'
    <2>1. [user |-> u, id |-> i] \in Request
      BY DEF Request
    <2>. QED
      BY <1>1, <2>1 DEF HandleRequest, Goto, RequestInv
  <1>2. ASSUME NEW t \in Threads, CheckReturn(t)
        PROVE  RequestInv'
    BY <1>2 DEF CheckReturn, ReturnEarly, Return, RequestInv
  <1>3. ASSUME NEW t \in Threads, CheckPass(t)
        PROVE  RequestInv'
    BY <1>3 DEF CheckPass, Goto, RequestInv
  <1>4. ASSUME NEW t \in Threads, MarkModified(t)
        PROVE  RequestInv'
    BY <1>4 DEF MarkModified, Goto, RequestInv
  <1>5. ASSUME NEW t \in Threads, LockRow(t)
        PROVE  RequestInv'
    BY <1>5 DEF LockRow, TakeMutex, Goto, RequestInv
  <1>6. ASSUME NEW t \in Threads, Reject(t)
        PROVE  RequestInv'
    BY <1>6 DEF Reject, RejectTo, Goto, RequestInv
  <1>7. ASSUME NEW t \in Threads, Credit(t)
        PROVE  RequestInv'
    BY <1>7 DEF Credit, Goto, RequestInv
  <1>8. ASSUME NEW t \in Threads, StoreEnergy(t)
        PROVE  RequestInv'
    BY <1>8 DEF StoreEnergy, StoreLeft, EnergyPending, RequestInv
  <1>9. ASSUME NEW t \in Threads, StoreStatus(t)
        PROVE  RequestInv'
    BY <1>9 DEF StoreStatus, StatusPending, RequestInv
  <1>10. ASSUME NEW t \in Threads, UnlockRow(t)
         PROVE  RequestInv'
    BY <1>10 DEF UnlockRow, Return, RequestInv
  <1>11. CASE UNCHANGED vars
    BY <1>11 DEF vars, handlerVars, RequestInv
  <1>. QED
    BY <1>1, <1>2, <1>3, <1>4, <1>5, <1>6, <1>7, <1>8, <1>9, <1>10, <1>11 DEF Next, Step

\* A mutex is taken only when free and given back only by its holder.
LEMMA NextLockInv ==
    ASSUME AccessInv, TypeOK', [Next]_vars
    PROVE  LockInv'
  <1>. USE DEF Locations, AccessInv, TypeOK
  <1>1. ASSUME NEW t \in Threads, NEW u \in Users, NEW i \in Ids, HandleRequest(t, u, i)
        PROVE  LockInv'
    BY <1>1 DEF HandleRequest, Goto, memVars, LockInv, RequestInv, InCritical, EnergyPending, StatusPending
  <1>2. ASSUME NEW t \in Threads, CheckReturn(t)
        PROVE  LockInv'
    BY <1>2 DEF CheckReturn, ReturnEarly, Return, memVars, LockInv, RequestInv, InCritical, EnergyPending, StatusPending
  <1>3. ASSUME NEW t \in Threads, CheckPass(t)
        PROVE  LockInv'
    BY <1>3 DEF CheckPass, Goto, memVars, LockInv, RequestInv, InCritical, EnergyPending, StatusPending
  <1>4. ASSUME NEW t \in Threads, MarkModified(t)
        PROVE  LockInv'
    BY <1>4 DEF MarkModified, Goto, LockInv, RequestInv, InCritical, EnergyPending, StatusPending
  <1>5. ASSUME NEW t \in Threads, LockRow(t)
        PROVE  LockInv'
    BY <1>5, FreeAssumption DEF LockRow, TakeMutex, Goto, LockInv, RequestInv, InCritical, EnergyPending, StatusPending
  <1>6. ASSUME NEW t \in Threads, Reject(t)
        PROVE  LockInv'
    BY <1>6 DEF Reject, RejectTo, Goto, memVars, LockInv, RequestInv, InCritical, EnergyPending, StatusPending
  <1>7. ASSUME NEW t \in Threads, Credit(t)
        PROVE  LockInv'
    BY <1>7 DEF Credit, Goto, LockInv, RequestInv, InCritical, EnergyPending, StatusPending
  <1>8. ASSUME NEW t \in Threads, StoreEnergy(t)
        PROVE  LockInv'
    BY <1>8 DEF StoreEnergy, StoreLeft, LockInv, RequestInv, InCritical, EnergyPending, StatusPending
  <1>9. ASSUME NEW t \in Threads, StoreStatus(t)
        PROVE  LockInv'
    BY <1>9 DEF StoreStatus, LockInv, RequestInv, InCritical, EnergyPending, StatusPending
  <1>10. ASSUME NEW t \in Threads, UnlockRow(t)
         PROVE  LockInv'
    BY <1>10 DEF UnlockRow, Return, LockInv, RequestInv, InCritical, EnergyPending, StatusPending
  <1>11. CASE UNCHANGED vars
    BY <1>11 DEF vars, memVars, handlerVars, LockInv, RequestInv, InCritical, EnergyPending, StatusPending
  <1>. QED
    BY <1>1, <1>2, <1>3, <1>4, <1>5, <1>6, <1>7, <1>8, <1>9, <1>10, <1>11 DEF Next, Step

\* The mark comes before the first store and is never taken back.
LEMMA NextMarkInv ==
    ASSUME AccessInv, TypeOK', [Next]_vars
    PROVE  MarkInv'
  <1>. USE DEF Locations, AccessInv, TypeOK, MarkInv, RequestInv
  <1>1. ASSUME NEW t \in Threads, NEW u \in Users, NEW i \in Ids, HandleRequest(t, u, i)
        PROVE  MarkInv'
    BY <1>1 DEF HandleRequest, Goto, memVars
  <1>2. ASSUME NEW t \in Threads, CheckReturn(t)
        PROVE  MarkInv'
    BY <1>2 DEF CheckReturn, ReturnEarly, Return, memVars
  <1>3. ASSUME NEW t \in Threads, CheckPass(t)
        PROVE  MarkInv'
    BY <1>3 DEF CheckPass, Goto, memVars
  <1>4. ASSUME NEW t \in Threads, MarkModified(t)
        PROVE  MarkInv'
    BY <1>4 DEF MarkModified, Goto
  <1>5. ASSUME NEW t \in Threads, LockRow(t)
        PROVE  MarkInv'
    BY <1>5 DEF LockRow, TakeMutex, Goto
  <1>6. ASSUME NEW t \in Threads, Reject(t)
        PROVE  MarkInv'
    BY <1>6 DEF Reject, RejectTo, Goto, memVars
  <1>7. ASSUME NEW t \in Threads, Credit(t)
        PROVE  MarkInv'
    BY <1>7 DEF Credit, Goto
  <1>8. ASSUME NEW t \in Threads, StoreEnergy(t)
        PROVE  MarkInv'
    BY <1>8 DEF StoreEnergy, StoreLeft, EnergyPending, StatusPending
  <1>9. ASSUME NEW t \in Threads, StoreStatus(t)
        PROVE  MarkInv'
    BY <1>9 DEF StoreStatus, EnergyPending, StatusPending
  <1>10. ASSUME NEW t \in Threads, UnlockRow(t)
         PROVE  MarkInv'
    BY <1>10 DEF UnlockRow, Return
  <1>11. CASE UNCHANGED vars
    BY <1>11 DEF vars, memVars, handlerVars
  <1>. QED
    BY <1>1, <1>2, <1>3, <1>4, <1>5, <1>6, <1>7, <1>8, <1>9, <1>10, <1>11 DEF Next, Step

\* A row without the mark has not been touched.
LEMMA UnmarkedIsFrozen ==
    ASSUME AccessInv, [Next]_vars, NEW i \in Rows, ~modified_'[i]
    PROVE  /\ ~modified_[i] /\ status_'[i] = status_[i]
           /\ to_collect_energy_'[i] = to_collect_energy_[i]
  <1>. USE DEF AccessInv, TypeOK
  <1>1. ASSUME NEW t \in Threads, MarkModified(t)
        PROVE  ~modified_[i] /\ UNCHANGED <<status_, to_collect_energy_>>
    BY <1>1 DEF MarkModified
  <1>2. ASSUME NEW t \in Threads, StoreEnergy(t)
        PROVE  i # req[t].id /\ UNCHANGED <<status_, modified_>>
               /\ to_collect_energy_'[i] = to_collect_energy_[i]
    BY <1>2 DEF StoreEnergy, StoreLeft, EnergyPending, MarkInv
  <1>3. ASSUME NEW t \in Threads, StoreStatus(t)
        PROVE  i # req[t].id /\ UNCHANGED <<to_collect_energy_, modified_>>
               /\ status_'[i] = status_[i]
    BY <1>3 DEF StoreStatus, StatusPending, MarkInv
  <1>4. CASE UNCHANGED <<status_, to_collect_energy_, modified_>>
    BY <1>4
  <1>. QED
    BY <1>1, <1>2, <1>3, <1>4
    DEF Next, Step, vars, memVars, HandleRequest, CheckReturn, ReturnEarly, CheckPass, LockRow,
        TakeMutex, Reject, RejectTo, Credit, UnlockRow

\* So a row that changes is marked by then.
LEMMA NextChangedIsMarked ==
    ASSUME AccessInv, ChangedIsMarked, TypeOK', [Next]_vars
    PROVE  ChangedIsMarked'
  BY UnmarkedIsFrozen DEF ChangedIsMarked, TypeOK

\* Two threads inside the critical section work on different rows.
LEMMA MutualExclusion ==
    ASSUME AccessInv, NEW t \in Threads, NEW s \in Threads, s # t, InCritical(t), InCritical(s)
    PROVE  req[s].id # req[t].id
  BY DEF AccessInv, LockInv

\* What a thread has credited and still has to take out stays what the row gives it.
LEMMA NextGainInv ==
    ASSUME AccessInv, [Next]_vars
    PROVE  GainInv'
  <1>. USE DEF AccessInv, TypeOK
  <1>1. ASSUME NEW t \in Threads, NEW u \in Users, NEW i \in Ids, HandleRequest(t, u, i)
        PROVE  GainInv'
    BY <1>1 DEF HandleRequest, Goto, memVars, GainInv, EnergyPending
  <1>2. ASSUME NEW t \in Threads, CheckReturn(t)
        PROVE  GainInv'
    BY <1>2 DEF CheckReturn, ReturnEarly, Return, memVars, GainInv, EnergyPending
  <1>3. ASSUME NEW t \in Threads, CheckPass(t)
        PROVE  GainInv'
    BY <1>3 DEF CheckPass, Goto, memVars, GainInv, EnergyPending
  <1>4. ASSUME NEW t \in Threads, MarkModified(t)
        PROVE  GainInv'
    BY <1>4 DEF MarkModified, Goto, GainInv, EnergyPending
  <1>5. ASSUME NEW t \in Threads, LockRow(t)
        PROVE  GainInv'
    BY <1>5 DEF LockRow, TakeMutex, Goto, GainInv, EnergyPending
  <1>6. ASSUME NEW t \in Threads, Reject(t)
        PROVE  GainInv'
    BY <1>6 DEF Reject, RejectTo, Goto, memVars, GainInv, EnergyPending
  <1>7. ASSUME NEW t \in Threads, Credit(t)
        PROVE  GainInv'
    BY <1>7 DEF Credit, Goto, GainInv, EnergyPending
  <1>8. ASSUME NEW t \in Threads, StoreEnergy(t)
        PROVE  GainInv'
    <2>1. InCritical(t) /\ ~EnergyPending(t)'
      BY <1>8 DEF StoreEnergy, StoreLeft, InCritical, EnergyPending
    <2>2. \A s \in Threads \ {t} : EnergyPending(s)' =>
             EnergyPending(s) /\ InCritical(s) /\ req[s].id # req[t].id
      BY <1>8, <2>1, MutualExclusion DEF StoreEnergy, StoreLeft, InCritical, EnergyPending
    <2>3. UNCHANGED <<req, count>>
      BY <1>8 DEF StoreEnergy, StoreLeft
    <2>4. \A j \in Rows \ {req[t].id} : to_collect_energy_'[j] = to_collect_energy_[j]
      BY <1>8 DEF StoreEnergy, StoreLeft
    <2>5. \A s \in Threads : InCritical(s) => req[s].id \in Rows
      BY DEF RequestInv, InCritical
    <2>. QED
      BY <2>1, <2>2, <2>3, <2>4, <2>5 DEF GainInv
  <1>9. ASSUME NEW t \in Threads, StoreStatus(t)
        PROVE  GainInv'
    BY <1>9 DEF StoreStatus, GainInv, EnergyPending
  <1>10. ASSUME NEW t \in Threads, UnlockRow(t)
         PROVE  GainInv'
    BY <1>10 DEF UnlockRow, Return, GainInv, EnergyPending
  <1>11. CASE UNCHANGED vars
    BY <1>11 DEF vars, memVars, handlerVars, GainInv, EnergyPending
  <1>. QED
    BY <1>1, <1>2, <1>3, <1>4, <1>5, <1>6, <1>7, <1>8, <1>9, <1>10, <1>11 DEF Next, Step

\* The order of accesses is kept by every step, whatever the tables hold.
LEMMA NextAccessInv == AccessInv /\ [Next]_vars => AccessInv'
  BY NextTypeOK, NextRequestInv, NextLockInv, NextGainInv, NextMarkInv DEF AccessInv

\* The fields stay coherent, and every holder of a mutex keeps what it knows.
LEMMA NextRowInv ==
    ASSUME IInv, TypeOK', [Next]_vars
    PROVE  RowInv'
  <1>. USE DEF IInv, AccessInv
  <1>1. ASSUME NEW t \in Threads, NEW u \in Users, NEW i \in Ids, HandleRequest(t, u, i)
        PROVE  RowInv'
    BY <1>1 DEF HandleRequest, Goto, memVars, TypeOK, RowInv, HolderKnows,
                InCritical, EnergyPending
  <1>2. ASSUME NEW t \in Threads, CheckReturn(t)
        PROVE  RowInv'
    BY <1>2 DEF CheckReturn, ReturnEarly, Return, memVars, TypeOK, RowInv, HolderKnows,
                InCritical, EnergyPending
  <1>3. ASSUME NEW t \in Threads, CheckPass(t)
        PROVE  RowInv'
    BY <1>3 DEF CheckPass, Goto, memVars, TypeOK, RowInv, HolderKnows,
                InCritical, EnergyPending
  <1>4. ASSUME NEW t \in Threads, MarkModified(t)
        PROVE  RowInv'
    BY <1>4 DEF MarkModified, Goto, TypeOK, RowInv, HolderKnows,
                InCritical, EnergyPending
  <1>5. ASSUME NEW t \in Threads, LockRow(t)
        PROVE  RowInv'
    BY <1>5, FreeAssumption DEF LockRow, TakeMutex, Goto, TypeOK, RowInv, HolderKnows, RequestInv,
                InCritical, EnergyPending
  <1>6. ASSUME NEW t \in Threads, Reject(t)
        PROVE  RowInv'
    BY <1>6 DEF Reject, RejectTo, Eligible, Goto, memVars, TypeOK, RowInv, HolderKnows, 
                InCritical, EnergyPending
  <1>7. ASSUME NEW t \in Threads, Credit(t)
        PROVE  RowInv'
    BY <1>7 DEF Credit, Eligible, Goto, TypeOK, RowInv, HolderKnows,
                InCritical, EnergyPending
  <1>8. ASSUME NEW t \in Threads, StoreEnergy(t)
        PROVE  RowInv'
    <2>. DEFINE u == req[t].user
                i == req[t].id
                s == status_[i]
                e == to_collect_energy_[i]
    <2>1. /\ InCritical(t) /\ i \in Rows /\ u \in Users /\ mutex[i] = t
          /\ HolderKnows(t, u, i, s, e)
      BY <1>8 DEF StoreEnergy, StoreLeft, EnergyPending, InCritical, RequestInv, Request, LockInv, RowInv
    <2>2. s \in Statuses /\ e \in 0 .. Word - 1 /\ count[t] = Gain(u, i, e)
      BY <1>8, <2>1 DEF StoreEnergy, StoreLeft, GainInv, TypeOK
    <2>3. u' = u /\ i' = i /\ s' = s /\ e' = e - Gain(u, i, e)
      <3>1. u = Owner[i] => e - Gain(u, i, e) = 0
        BY <2>2, AmountAssumption DEF Gain
      <3>. QED
        BY <1>8, <2>1, <2>2, <3>1 DEF StoreEnergy, StoreLeft, TypeOK
    <2>4. HolderKnows(t, u, i, s, e)'
      <3>1. CASE pc[t] = "store"
        <4>1. Coherent(i, StatusAfter(u, i), e - Gain(u, i, e))
          BY <2>1, <2>2, <3>1, CollectCoherent DEF HolderKnows
        <4>2. pc'[t] = "statusLeft"
          BY <1>8, <3>1 DEF StoreEnergy, StoreLeft, StatusPending, TypeOK
        <4>. QED
          BY <2>3, <4>1, <4>2 DEF EnergyPending, HolderKnows
      <3>2. CASE pc[t] = "energyLeft"
        <4>1. s = StatusAfter(u, i) /\ Coherent(i, s, e - Gain(u, i, e))
          BY <2>1, <2>2, <3>2 DEF HolderKnows
        <4>2. ~CanCollect(u, i, s, e - Gain(u, i, e))
          BY <4>1, StatusAfterFinal
        <4>3. pc'[t] = "unlock"
          BY <1>8, <3>2 DEF StoreEnergy, StoreLeft, StatusPending, TypeOK
        <4>. QED
          BY <2>3, <4>1, <4>2, <4>3 DEF EnergyPending, HolderKnows
      <3>. QED
        BY <1>8, <3>1, <3>2 DEF StoreEnergy, StoreLeft, EnergyPending
    <2>. QED
      BY <1>8, <2>1, <2>4, MutualExclusion, FreeAssumption
         DEF StoreEnergy, StoreLeft, TypeOK, RowInv, HolderKnows, InCritical, EnergyPending
  <1>9. ASSUME NEW t \in Threads, StoreStatus(t)
        PROVE  RowInv'
    <2>. DEFINE u == req[t].user
                i == req[t].id
                s == status_[i]
                e == to_collect_energy_[i]
    <2>1. /\ InCritical(t) /\ i \in Rows /\ u \in Users /\ mutex[i] = t
          /\ HolderKnows(t, u, i, s, e)
      BY <1>9 DEF StoreStatus, StatusPending, InCritical, RequestInv, Request, LockInv, RowInv
    <2>2. s \in Statuses /\ e \in 0 .. Word - 1
      BY <2>1 DEF TypeOK
    <2>3. u' = u /\ i' = i /\ s' = StatusAfter(u, i) /\ e' = e /\ count' = count
      BY <1>9, <2>1 DEF StoreStatus, TypeOK
    <2>4. HolderKnows(t, u, i, s, e)'
      <3>1. CASE pc[t] = "store"
        <4>1. count[t] = Gain(u, i, e)
          BY <3>1 DEF GainInv, EnergyPending
        <4>2. Coherent(i, StatusAfter(u, i), e - count[t])
          BY <2>1, <2>2, <3>1, <4>1, CollectCoherent DEF HolderKnows
        <4>3. pc'[t] = "energyLeft"
          BY <1>9, <3>1 DEF StoreStatus, EnergyPending, TypeOK
        <4>. QED
          BY <2>3, <4>1, <4>2, <4>3 DEF EnergyPending, HolderKnows
      <3>2. CASE pc[t] = "statusLeft"
        <4>1. Coherent(i, StatusAfter(u, i), e)
          BY <2>1, <3>2 DEF HolderKnows
        <4>2. pc'[t] = "unlock"
          BY <1>9, <3>2 DEF StoreStatus, EnergyPending, TypeOK
        <4>. QED
          BY <2>3, <4>1, <4>2, StatusAfterFinal DEF EnergyPending, HolderKnows
      <3>. QED
        BY <1>9, <3>1, <3>2 DEF StoreStatus, StatusPending
    <2>. QED
      BY <1>9, <2>1, <2>4, MutualExclusion, FreeAssumption
         DEF StoreStatus, TypeOK, RowInv, HolderKnows, InCritical, EnergyPending
  <1>10. ASSUME NEW t \in Threads, UnlockRow(t)
         PROVE  RowInv'
    <2>1. /\ InCritical(t) /\ req[t].id \in Rows
          /\ Coherent(req[t].id, status_[req[t].id], to_collect_energy_[req[t].id])
      BY <1>10 DEF UnlockRow, InCritical, RequestInv, RowInv, HolderKnows
    <2>. QED
      BY <1>10, <2>1 DEF UnlockRow, Return, TypeOK, RowInv, HolderKnows,
                         InCritical, EnergyPending
  <1>11. CASE UNCHANGED vars
    BY <1>11 DEF vars, memVars, handlerVars, RowInv, HolderKnows, InCritical, EnergyPending
  <1>. QED
    BY <1>1, <1>2, <1>3, <1>4, <1>5, <1>6, <1>7, <1>8, <1>9, <1>10, <1>11 DEF Next, Step

-----------------------------------------------------------------------------
\* Every step preserves the inductive invariant.
LEMMA NextIInv == IInv /\ [Next]_vars => IInv'
  BY NextAccessInv, NextChangedIsMarked, NextRowInv DEF IInv, AccessInv

\* Every reachable state of handle_request's threads satisfies the inductive invariant.
THEOREM Invariant == Spec => []IInv
  BY InitIInv, NextIInv, PTL DEF Spec

\* The variables keep their types; in particular no row's energy is ever negative.
THEOREM TypeCorrect == Spec => []TypeOK
  <1>1. IInv => TypeOK
    BY DEF IInv, AccessInv
  <1>. QED
    BY <1>1, Invariant, PTL

\* A row that differs from what was loaded is marked, so the write-back cannot skip it.
THEOREM ChangedRowsAreMarked == Spec => []ChangedIsMarked
  <1>1. IInv => ChangedIsMarked
    BY DEF IInv
  <1>. QED
    BY <1>1, Invariant, PTL

\* The inductive invariant makes the settled fields of every row agree.
LEMMA RowIntegrityHolds == IInv => RowIntegrity
  <1>. SUFFICES ASSUME IInv, NEW i \in Rows
                PROVE  Coherent(i, SettledStatus[i], SettledEnergy[i])
    BY DEF RowIntegrity
  <1>. DEFINE s == status_[i]
              e == to_collect_energy_[i]
              t == mutex[i]
              u == req[t].user
  <1>. USE DEF IInv, AccessInv
  <1>1. s \in Statuses /\ e \in 0 .. Word - 1
    BY DEF TypeOK
  <1>2. CASE t = Free
    BY <1>2 DEF RowInv, SettledStatus, SettledEnergy
  <1>3. CASE t # Free
    <2>1. /\ t \in Threads /\ InCritical(t) /\ u \in Users /\ req[t].id = i
          /\ HolderKnows(t, u, i, s, e)
      BY <1>3 DEF TypeOK, LockInv, RequestInv, RowInv, InCritical, Request
    <2>2. CASE pc[t] = "store"
      <3>1. count[t] = Gain(u, i, e)
        BY <2>1, <2>2 DEF EnergyPending, GainInv
      <3>2. Coherent(i, StatusAfter(u, i), e - Gain(u, i, e))
        BY <1>1, <2>1, <2>2, CollectCoherent DEF HolderKnows
      <3>. QED
        BY <1>3, <2>2, <3>1, <3>2 DEF SettledStatus, SettledEnergy, EnergyPending, StatusPending
    <2>. QED
      BY <1>3, <2>1, <2>2
         DEF SettledStatus, SettledEnergy, EnergyPending, StatusPending, InCritical, HolderKnows
  <1>. QED
    BY <1>2, <1>3

\* Rows give at most one share to others and the rest to the owner, for any number of
\* threads and requests: the settled fields of a row always agree.
THEOREM RowsKeepIntegrity == Spec => []RowIntegrity
  BY Invariant, RowIntegrityHolds, PTL

\* A step of one thread moves only that thread, and only two of its steps return.
LEMMA StepMovesOne ==
    ASSUME NEW s \in Threads, Step(s), pc \in [Threads -> Locations]
    PROVE  \E l \in Locations : /\ pc' = [pc EXCEPT ![s] = l]
                                /\ l = "idle" => CheckReturn(s) \/ UnlockRow(s)
  <1>. USE DEF Locations
  <1>1. CASE CheckReturn(s) \/ UnlockRow(s)
    BY <1>1 DEF CheckReturn, ReturnEarly, UnlockRow, Return
  <1>2. CASE CheckPass(s) \/ MarkModified(s) \/ LockRow(s) \/ Reject(s) \/ Credit(s)
    BY <1>2 DEF CheckPass, MarkModified, LockRow, TakeMutex, Reject, RejectTo, Credit, Goto
  <1>3. CASE StoreEnergy(s)
    BY <1>3 DEF StoreEnergy, StoreLeft
  <1>4. CASE StoreStatus(s)
    BY <1>4 DEF StoreStatus
  <1>. QED
    BY <1>1, <1>2, <1>3, <1>4 DEF Step

\* Whichever return a request takes, its user has nothing left to collect from the row.
THEOREM ReturnsAreFinal == Spec => ReturnIsFinal
  <1>1. ASSUME IInv, [Next]_vars,
               NEW t \in Threads, pc[t] # "idle", pc'[t] = "idle", req[t].id \in Rows
        PROVE  ~CanCollect(req[t].user, req[t].id, status_'[req[t].id],
                           to_collect_energy_'[req[t].id])
    <2>. USE DEF IInv, AccessInv
    <2>1. CheckReturn(t) \/ UnlockRow(t)
      <3>1. pc' # pc
        BY <1>1
      <3>2. PICK s \in Threads : Step(s) \/ \E u \in Users, i \in Ids : HandleRequest(s, u, i)
        BY <1>1, <3>1 DEF Next, vars, handlerVars
      <3>3. CASE Step(s)
        BY <1>1, <3>3, StepMovesOne DEF TypeOK
      <3>4. ASSUME NEW u \in Users, NEW i \in Ids, HandleRequest(s, u, i)
            PROVE  FALSE
        BY <1>1, <3>4 DEF HandleRequest, Goto, TypeOK
      <3>. QED
        BY <3>2, <3>3, <3>4
    <2>2. CASE CheckReturn(t)
      BY <1>1, <2>2 DEF CheckReturn, ReturnEarly, memVars, CanCollect
    <2>3. CASE UnlockRow(t)
      <3>1. InCritical(t) /\ pc[t] = "unlock"
        BY <2>3 DEF UnlockRow, InCritical
      <3>2. HolderKnows(t, req[t].user, req[t].id, status_[req[t].id],
                        to_collect_energy_[req[t].id])
        BY <1>1, <3>1, Zenon DEF RowInv
      <3>. QED
        BY <2>3, <3>1, <3>2 DEF UnlockRow, HolderKnows
    <2>. QED
      BY <2>1, <2>2, <2>3
  <1>2. IInv /\ [Next]_vars =>
          [\A t \in Threads :
             pc[t] # "idle" /\ pc'[t] = "idle" /\ req[t].id \in Rows =>
               ~CanCollect(req[t].user, req[t].id, status_'[req[t].id],
                           to_collect_energy_'[req[t].id])]_vars
    BY <1>1
  <1>. QED
    BY <1>2, Invariant, PTL DEF Spec, ReturnIsFinal

-----------------------------------------------------------------------------
(***************************************************************************)
(* Refinement.  A collection happens at its Credit; every other step is a  *)
(* stutter of the ledger.                                                  *)
(***************************************************************************)
settled == <<SettledStatus, SettledEnergy>>

\* The rules of the ledger are the rules of the threads.
LEMMA SameRules ==
    /\ Ledger!Rows = Rows
    /\ Ledger!EMPTY = EMPTY
    /\ \A u, i, s, e : Ledger!CanCollect(u, i, s, e) = CanCollect(u, i, s, e)
    /\ \A u, i, e : Ledger!Gain(u, i, e) = Gain(u, i, e)
    /\ \A u, i : Ledger!StatusAfter(u, i) = StatusAfter(u, i)
    /\ \A a, b : Ledger!Add32(a, b) = Add32(a, b)
  BY DEF Ledger!Rows, Rows, Ledger!EMPTY, EMPTY, Ledger!COLLECTED_BY_OTHER, COLLECTED_BY_OTHER,
         Ledger!ALL_COLLECTED, ALL_COLLECTED, Ledger!CanCollect, CanCollect, Ledger!Gain, Gain,
         Ledger!Share, Share, Ledger!StatusAfter, StatusAfter, Ledger!Add32, Add32

\* The tables as loaded are those of the ledger.
LEMMA LedgerInit == Init => Ledger!Init
  <1>. SUFFICES ASSUME Init PROVE Ledger!Init
    OBVIOUS
  <1>1. SettledEnergy = InitEnergy
    BY AmountAssumption DEF Init, SettledEnergy
  <1>2. SettledStatus = [i \in Rows |-> EMPTY]
    BY DEF Init, SettledStatus
  <1>. QED
    BY <1>1, <1>2, SameRules DEF Init, Ledger!Init

\* The credit is a collection of the ledger; every other step leaves it alone.
LEMMA LedgerNext ==
    ASSUME AccessInv, [Next]_vars
    PROVE  [Ledger!Next]_(Ledger!ledger)
  <1>. USE DEF AccessInv
  <1>1. ASSUME NEW t \in Threads, NEW u \in Users, NEW i \in Ids, HandleRequest(t, u, i)
        PROVE  UNCHANGED <<settled, memTotalEnergyMap>>
    BY <1>1 DEF HandleRequest, Goto, memVars, TypeOK, LockInv, settled, SettledStatus,
                SettledEnergy, InCritical, EnergyPending, StatusPending
  <1>2. ASSUME NEW t \in Threads, CheckReturn(t)
        PROVE  UNCHANGED <<settled, memTotalEnergyMap>>
    BY <1>2 DEF CheckReturn, ReturnEarly, Return, memVars, TypeOK, LockInv, settled, SettledStatus,
                SettledEnergy, InCritical, EnergyPending, StatusPending
  <1>3. ASSUME NEW t \in Threads, CheckPass(t)
        PROVE  UNCHANGED <<settled, memTotalEnergyMap>>
    BY <1>3 DEF CheckPass, Goto, memVars, TypeOK, LockInv, settled, SettledStatus,
                SettledEnergy, InCritical, EnergyPending, StatusPending
  <1>4. ASSUME NEW t \in Threads, MarkModified(t)
        PROVE  UNCHANGED <<settled, memTotalEnergyMap>>
    BY <1>4 DEF MarkModified, Goto, TypeOK, LockInv, settled, SettledStatus,
                SettledEnergy, InCritical, EnergyPending, StatusPending
  <1>5. ASSUME NEW t \in Threads, LockRow(t)
        PROVE  UNCHANGED <<settled, memTotalEnergyMap>>
    BY <1>5 DEF LockRow, TakeMutex, Goto, TypeOK, LockInv, settled, SettledStatus,
                SettledEnergy, InCritical, EnergyPending, StatusPending
  <1>6. ASSUME NEW t \in Threads, Reject(t)
        PROVE  UNCHANGED <<settled, memTotalEnergyMap>>
    BY <1>6 DEF Reject, RejectTo, Goto, memVars, TypeOK, LockInv, settled, SettledStatus,
                SettledEnergy, InCritical, EnergyPending, StatusPending
  <1>7. ASSUME NEW t \in Threads, Credit(t)
        PROVE  Ledger!Next
    <2>. DEFINE u == req[t].user
                i == req[t].id
                e == to_collect_energy_[i]
    <2>1. /\ InCritical(t) /\ i \in Rows /\ u \in Users /\ mutex[i] = t /\ t # Free
          /\ CanCollect(u, i, status_[i], e)
      BY <1>7, FreeAssumption
         DEF Credit, Goto, Eligible, InCritical, RequestInv, Request, LockInv
    <2>2. SettledStatus[i] = status_[i] /\ SettledEnergy[i] = e
      BY <1>7, <2>1 DEF Credit, Goto, SettledStatus, SettledEnergy, EnergyPending, StatusPending
    <2>3. /\ pc' = [pc EXCEPT ![t] = "store"] /\ count' = [count EXCEPT ![t] = Gain(u, i, e)]
          /\ UNCHANGED <<status_, to_collect_energy_, mutex, req>>
      BY <1>7 DEF Credit, Goto
    <2>4. \A j \in Rows \ {i} :
             mutex[j] # Free => /\ pc'[mutex[j]] = pc[mutex[j]]
                                /\ count'[mutex[j]] = count[mutex[j]]
      BY <2>1, <2>3 DEF TypeOK, LockInv
    <2>5. StatusPending(t)' /\ EnergyPending(t)' /\ count'[t] = Gain(u, i, e)
      BY <2>3 DEF StatusPending, EnergyPending, TypeOK
    <2>6. SettledStatus' = [SettledStatus EXCEPT ![i] = StatusAfter(u, i)]
      <3>1. \A j \in Rows : SettledStatus'[j] = IF j = i THEN StatusAfter(u, i)
                                                        ELSE SettledStatus[j]
        BY <2>1, <2>3, <2>4, <2>5 DEF SettledStatus, StatusPending
      <3>. QED
        BY <3>1 DEF SettledStatus
    <2>7. SettledEnergy' = [SettledEnergy EXCEPT ![i] = e - Gain(u, i, e)]
      <3>1. \A j \in Rows : SettledEnergy'[j] = IF j = i THEN e - Gain(u, i, e)
                                                        ELSE SettledEnergy[j]
        BY <2>1, <2>3, <2>4, <2>5 DEF SettledEnergy, EnergyPending
      <3>. QED
        BY <3>1 DEF SettledEnergy
    <2>8. memTotalEnergyMap' = [memTotalEnergyMap EXCEPT ![u] = Add32(@, Gain(u, i, e))]
      BY <1>7 DEF Credit
    <2>9. Ledger!Collect(u, i)
      BY <2>1, <2>2, <2>6, <2>7, <2>8, SameRules DEF Ledger!Collect
    <2>. QED
      BY <2>1, <2>9, SameRules DEF Ledger!Next
  <1>8. ASSUME NEW t \in Threads, StoreEnergy(t)
        PROVE  UNCHANGED <<settled, memTotalEnergyMap>>
    <2>. DEFINE u == req[t].user
                i == req[t].id
                e == to_collect_energy_[i]
    <2>1. /\ i \in Rows /\ mutex[i] = t /\ t # Free /\ e \in 0 .. Word - 1
          /\ EnergyPending(t) /\ count[t] = Gain(u, i, e)
      BY <1>8, FreeAssumption
         DEF StoreEnergy, StoreLeft, EnergyPending, InCritical, RequestInv, LockInv, GainInv, TypeOK
    <2>2. u = Owner[i] => e - Gain(u, i, e) = 0
      BY <2>1, AmountAssumption DEF Gain
    <2>3. to_collect_energy_' = [to_collect_energy_ EXCEPT ![i] = e - count[t]]
      BY <1>8, <2>1, <2>2 DEF StoreEnergy, StoreLeft
    <2>4. /\ pc' = [pc EXCEPT ![t] = IF StatusPending(t) THEN "statusLeft" ELSE "unlock"]
          /\ UNCHANGED <<status_, mutex, memTotalEnergyMap, req, count>>
      BY <1>8 DEF StoreEnergy, StoreLeft
    <2>5. SettledEnergy' = SettledEnergy
      BY <2>1, <2>3, <2>4 DEF SettledEnergy, EnergyPending, TypeOK, LockInv
    <2>6. SettledStatus' = SettledStatus
      BY <2>1, <2>4 DEF SettledStatus, EnergyPending, StatusPending, TypeOK, LockInv
    <2>. QED
      BY <2>4, <2>5, <2>6 DEF settled
  <1>9. ASSUME NEW t \in Threads, StoreStatus(t)
        PROVE  UNCHANGED <<settled, memTotalEnergyMap>>
    <2>. DEFINE u == req[t].user
                i == req[t].id
    <2>1. i \in Rows /\ mutex[i] = t /\ t # Free /\ StatusPending(t)
      BY <1>9, FreeAssumption
         DEF StoreStatus, StatusPending, InCritical, RequestInv, LockInv
    <2>2. /\ pc' = [pc EXCEPT ![t] = IF EnergyPending(t) THEN "energyLeft" ELSE "unlock"]
          /\ status_' = [status_ EXCEPT ![i] = StatusAfter(u, i)]
          /\ UNCHANGED <<to_collect_energy_, mutex, memTotalEnergyMap, req, count>>
      BY <1>9 DEF StoreStatus
    <2>3. SettledEnergy' = SettledEnergy
      BY <2>1, <2>2 DEF SettledEnergy, EnergyPending, StatusPending, TypeOK, LockInv
    <2>4. SettledStatus' = SettledStatus
      BY <2>1, <2>2 DEF SettledStatus, StatusPending, TypeOK, LockInv
    <2>. QED
      BY <2>2, <2>3, <2>4 DEF settled
  <1>10. ASSUME NEW t \in Threads, UnlockRow(t)
         PROVE  UNCHANGED <<settled, memTotalEnergyMap>>
    BY <1>10, FreeAssumption
       DEF UnlockRow, Return, TypeOK, LockInv, RequestInv, settled, SettledStatus, SettledEnergy,
           InCritical, EnergyPending, StatusPending
  <1>11. CASE UNCHANGED vars
    <2>1. UNCHANGED <<settled, memTotalEnergyMap>>
      BY <1>11 DEF vars, memVars, handlerVars, settled, SettledStatus, SettledEnergy,
                   EnergyPending, StatusPending
    <2>. QED
      BY <2>1 DEF settled, Ledger!ledger
  <1>. QED
    BY <1>1, <1>2, <1>3, <1>4, <1>5, <1>6, <1>7, <1>8, <1>9, <1>10, <1>11
       DEF Next, Step, settled, Ledger!ledger

\* The threads of handle_request implement the ledger: every interleaving of their
\* accesses is some order of indivisible collections.
THEOREM ImplementsLedger == Spec => LedgerSpec
  <1>1. IInv /\ [Next]_vars => [Ledger!Next]_(Ledger!ledger)
    BY LedgerNext DEF IInv
  <1>. QED
    BY <1>1, LedgerInit, Invariant, PTL DEF Spec, LedgerSpec, Ledger!Spec

=============================================================================
