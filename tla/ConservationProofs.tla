------------------------- MODULE ConservationProofs -------------------------
(***************************************************************************)
(* Energy is neither made nor lost, for any tables and any number of       *)
(* threads.  The sum over a table is the number of its units, so that one  *)
(* entry's change is a matter of finite sets, with no induction over the   *)
(* table; the steps to look at are those of EnergyLedger.                  *)
(***************************************************************************)
EXTENDS CollectEnergyProofs, FiniteSetTheorems

\* The units of one entry are as many as it holds.
LEMMA EntryUnits ==
    ASSUME NEW x, NEW n \in Nat
    PROVE  IsFiniteSet({x} \X (1 .. n)) /\ Cardinality({x} \X (1 .. n)) = n
  <1>1. IsFiniteSet(1 .. n) /\ Cardinality(1 .. n) = n
    BY FS_Interval
  <1>2. IsFiniteSet({x}) /\ Cardinality({x}) = 1
    BY FS_Singleton
  <1>. QED
    BY <1>1, <1>2, FS_Product

\* A finite table has finitely many units.
LEMMA UnitsFinite ==
    ASSUME NEW S, IsFiniteSet(S), NEW f \in [S -> Nat]
    PROVE  IsFiniteSet(Units(f)) /\ Cardinality(Units(f)) \in Nat
  <1>. DEFINE g == [x \in S |-> {x} \X (1 .. f[x])]
              T == {{x} \X (1 .. f[x]) : x \in S}
  <1>1. g \in Surjection(S, T)
    BY DEF Surjection
  <1>2. IsFiniteSet(T)
    BY <1>1, FS_Surjection
  <1>3. ASSUME NEW U \in T
        PROVE  IsFiniteSet(U)
    <2>1. PICK x \in S : U = {x} \X (1 .. f[x])
      OBVIOUS
    <2>. QED
      BY <2>1, EntryUnits
  <1>4. IsFiniteSet(UNION T)
    BY <1>2, <1>3, FS_UNION
  <1>5. Units(f) = UNION T
    BY DEF Units
  <1>. QED
    BY <1>4, <1>5, FS_CardinalityType

\* Changing one entry changes the number of units by as much.
LEMMA UnitsExcept ==
    ASSUME NEW S, IsFiniteSet(S), NEW f \in [S -> Nat], NEW x \in S, NEW v \in Nat
    PROVE  Cardinality(Units([f EXCEPT ![x] = v])) = Cardinality(Units(f)) - f[x] + v
  <1>. DEFINE g == [f EXCEPT ![x] = v]
              R == {p \in Units(f) : p[1] # x}
  <1>1. Units(f) = R \cup ({x} \X (1 .. f[x]))
    BY DEF Units
  <1>2. Units(g) = R \cup ({x} \X (1 .. v))
    BY DEF Units
  <1>3. IsFiniteSet(R) /\ Cardinality(R) \in Nat
    <2>1. IsFiniteSet(Units(f))
      BY UnitsFinite
    <2>2. R \subseteq Units(f)
      OBVIOUS
    <2>3. IsFiniteSet(R)
      BY <2>1, <2>2, FS_Subset
    <2>. QED
      BY <2>3, FS_CardinalityType
  <1>4. ASSUME NEW n \in Nat
        PROVE  R \cap ({x} \X (1 .. n)) = {}
    OBVIOUS
  <1>5. ASSUME NEW n \in Nat
        PROVE  Cardinality(R \cup ({x} \X (1 .. n))) = Cardinality(R) + n
    <2>. DEFINE E == {x} \X (1 .. n)
    <2>1. IsFiniteSet(E) /\ Cardinality(E) = n
      BY EntryUnits
    <2>2. R \cap E = {}
      BY <1>4
    <2>. HIDE DEF R, E
    <2>3. Cardinality(R \cup E) = Cardinality(R) + Cardinality(E) - Cardinality(R \cap E)
      BY <1>3, <2>1, FS_Union
    <2>. QED
      BY <1>3, <2>1, <2>2, <2>3, FS_EmptySet DEF E
  <1>6. Cardinality(Units(f)) = Cardinality(R) + f[x]
    BY <1>1, <1>5
  <1>7. Cardinality(Units(g)) = Cardinality(R) + v
    BY <1>2, <1>5
  <1>. QED
    BY <1>3, <1>6, <1>7

\* An entry is no more than the units of its table.
LEMMA EntryBound ==
    ASSUME NEW S, IsFiniteSet(S), NEW f \in [S -> Nat], NEW x \in S
    PROVE  f[x] <= Cardinality(Units(f))
  <1>1. {x} \X (1 .. f[x]) \subseteq Units(f)
    BY DEF Units
  <1>2. Cardinality({x} \X (1 .. f[x])) = f[x]
    BY EntryUnits
  <1>. QED
    BY <1>1, <1>2, UnitsFinite, FS_Subset

\* A table that is nowhere above another one has no more units.
LEMMA UnitsMonotone ==
    ASSUME NEW S, IsFiniteSet(S), NEW f \in [S -> Nat], NEW g \in [S -> Nat],
           \A x \in S : f[x] <= g[x]
    PROVE  Cardinality(Units(f)) <= Cardinality(Units(g))
  <1>1. Units(f) \subseteq Units(g)
    <2>1. ASSUME NEW x \in S
          PROVE  {x} \X (1 .. f[x]) \subseteq {x} \X (1 .. g[x])
      OBVIOUS
    <2>. QED
      BY <2>1 DEF Units
  <1>. QED
    BY <1>1, UnitsFinite, FS_Subset

-----------------------------------------------------------------------------
\* What the users own, what the rows still hold, both together, and what was loaded.
Owned     == Cardinality(Units(memTotalEnergyMap))
Left      == Cardinality(Units(SettledEnergy))
TotalHeld == Owned + Left
Loaded    == Cardinality(Units(InitTotal)) + Cardinality(Units(InitEnergy))

\* What user u can come to own: what is left in all rows on top of what the user has.
Reach(u) == memTotalEnergyMap[u] + Left

\* Held and loaded differ by a whole number of words, one for each time a total wrapped.
Wrapped == \E k \in Int : TotalHeld - Loaded = Word * k

\* No row owes more than it has.
LEMMA SettledType == AccessInv => SettledEnergy \in [Rows -> Nat]
  <1>. SUFFICES ASSUME AccessInv, NEW i \in Rows
                PROVE  SettledEnergy[i] \in Nat
    BY DEF SettledEnergy
  <1>. DEFINE t == mutex[i]
              e == to_collect_energy_[i]
  <1>1. e \in 0 .. Word - 1
    BY DEF AccessInv, TypeOK
  <1>2. CASE t # Free /\ EnergyPending(t)
    <2>1. count[t] = Gain(req[t].user, i, e)
      BY <1>2 DEF AccessInv, TypeOK, LockInv, GainInv
    <2>2. Gain(req[t].user, i, e) \in 0 .. e
      BY <1>1, GainBounds
    <2>. QED
      BY <1>1, <1>2, <2>1, <2>2 DEF SettledEnergy
  <1>3. CASE ~(t # Free /\ EnergyPending(t))
    BY <1>1, <1>3, AmountAssumption DEF SettledEnergy
  <1>. QED
    BY <1>2, <1>3

\* The sums are numbers.
LEMMA SumType ==
    ASSUME AccessInv
    PROVE  /\ memTotalEnergyMap \in [Users -> Nat]
           /\ Owned \in Nat /\ Left \in Nat
           /\ TotalHeld \in Nat
           /\ \A u \in Users : Reach(u) \in Nat
  <1>1. memTotalEnergyMap \in [Users -> Nat]
    BY AmountAssumption DEF AccessInv, TypeOK
  <1>2. Owned \in Nat /\ Left \in Nat
    BY <1>1, SettledType, UnitsFinite, FiniteAssumption DEF Owned, Left
  <1>. QED
    BY <1>1, <1>2 DEF TotalHeld, Reach

\* So are those of the tables as loaded.
LEMMA LoadedType ==
    /\ Cardinality(Units(InitTotal)) \in Nat
    /\ Cardinality(Units(InitEnergy)) \in Nat
    /\ Loaded \in Nat
  <1>1. InitTotal \in [Users -> Nat] /\ InitEnergy \in [Rows -> Nat]
    BY AmountAssumption
  <1>2. Cardinality(Units(InitTotal)) \in Nat /\ Cardinality(Units(InitEnergy)) \in Nat
    BY <1>1, UnitsFinite, FiniteAssumption
  <1>. QED
    BY <1>2 DEF Loaded

\* A collection moves energy from a row to a user, but for a word if the total wraps.
LEMMA CollectMoves ==
    ASSUME AccessInv, NEW u \in Users, NEW i \in Rows, Ledger!Collect(u, i)
    PROVE  \E taken \in 0 .. Left, w \in {0, Word} :
              /\ Left' = Left - taken
              /\ Owned' = Owned + taken - w
              /\ memTotalEnergyMap'[u] = memTotalEnergyMap[u] + taken - w
              /\ \A v \in Users \ {u} : memTotalEnergyMap'[v] = memTotalEnergyMap[v]
              /\ w = Word => memTotalEnergyMap[u] + taken >= Word
  <1>. DEFINE taken == Gain(u, i, SettledEnergy[i])
              b == memTotalEnergyMap[u]
              w == IF b + taken < Word THEN 0 ELSE Word
  <1>1. /\ memTotalEnergyMap' = [memTotalEnergyMap EXCEPT ![u] = Add32(b, taken)]
        /\ SettledEnergy' = [SettledEnergy EXCEPT ![i] = SettledEnergy[i] - taken]
    BY SameRules DEF Ledger!Collect
  <1>2. SettledEnergy[i] \in Nat /\ taken \in 0 .. SettledEnergy[i] /\ b \in 0 .. Word - 1
    BY SettledType, ShareBounds DEF Gain, AccessInv, TypeOK
  <1>3. Add32(b, taken) = b + taken - w /\ Add32(b, taken) \in Nat
    BY <1>2, AmountAssumption DEF Add32
  <1>4. Left' = Left - taken
    <2>. DEFINE left == SettledEnergy[i] - taken
    <2>1. left \in Nat
      BY <1>2
    <2>. HIDE DEF taken, left
    <2>2. Cardinality(Units([SettledEnergy EXCEPT ![i] = left])) = Left - SettledEnergy[i] + left
      BY <2>1, SettledType, UnitsExcept, FiniteAssumption DEF Left
    <2>3. SettledEnergy' = [SettledEnergy EXCEPT ![i] = left]
      BY <1>1 DEF left
    <2>4. Left' = Left - SettledEnergy[i] + left
      BY <2>2, <2>3 DEF Left
    <2>. QED
      BY <1>2, <2>4, SumType DEF left
  <1>5. Owned' = Owned - b + Add32(b, taken)
    BY <1>1, <1>3, SumType, UnitsExcept, FiniteAssumption DEF Owned
  <1>6. taken \in 0 .. Left
    <2>1. SettledEnergy[i] <= Left
      BY SettledType, EntryBound, FiniteAssumption DEF Left
    <2>. QED
      BY <1>2, <2>1, SumType
  <1>7. /\ memTotalEnergyMap'[u] = Add32(b, taken)
        /\ \A v \in Users \ {u} : memTotalEnergyMap'[v] = memTotalEnergyMap[v]
    BY <1>1, SumType
  <1>8. w \in {0, Word} /\ (w = Word => b + taken >= Word)
    BY <1>2, AmountAssumption
  <1>9. memTotalEnergyMap'[u] = b + taken - w
    BY <1>3, <1>7
  <1>. HIDE DEF taken, w
  <1>10. Owned' = Owned + taken - w
    BY <1>2, <1>3, <1>5, <1>6, <1>8, SumType, AmountAssumption
  <1>. QED
    BY <1>4, <1>6, <1>7, <1>8, <1>9, <1>10

\* As long as nobody can come to own a whole word, no total falls, and nobody can come
\* to own more than before.
LEMMA ReachFalls ==
    ASSUME AccessInv, [Next]_vars, \A u \in Users : Reach(u) < Word,
           NEW v \in Users
    PROVE  memTotalEnergyMap'[v] >= memTotalEnergyMap[v] /\ Reach(v)' \in 0 .. Reach(v)
  <1>1. CASE Ledger!Next
    <2>1. PICK u \in Users, i \in Rows : Ledger!Collect(u, i)
      BY <1>1, SameRules DEF Ledger!Next
    <2>2. PICK taken \in 0 .. Left, w \in {0, Word} :
              /\ Left' = Left - taken
              /\ memTotalEnergyMap'[u] = memTotalEnergyMap[u] + taken - w
              /\ \A x \in Users \ {u} : memTotalEnergyMap'[x] = memTotalEnergyMap[x]
              /\ w = Word => memTotalEnergyMap[u] + taken >= Word
      BY <2>1, CollectMoves
    <2>3. w = 0
      <3>1. memTotalEnergyMap[u] + Left < Word
        BY DEF Reach
      <3>. QED
        BY <2>2, <3>1, SumType, AmountAssumption
    <2>4. \/ memTotalEnergyMap'[v] = memTotalEnergyMap[v] + taken
          \/ memTotalEnergyMap'[v] = memTotalEnergyMap[v]
      BY <2>2, <2>3, SumType
    <2>. QED
      BY <2>2, <2>4, SumType DEF Reach
  <1>2. CASE UNCHANGED Ledger!ledger
    BY <1>2, SumType DEF Ledger!ledger, Reach, Left
  <1>. QED
    BY <1>1, <1>2, LedgerNext

\* No step gives a row energy back.
LEMMA EnergyFalls ==
    ASSUME AccessInv, [Next]_vars, NEW i \in Rows
    PROVE  to_collect_energy_'[i] <= to_collect_energy_[i]
  <1>1. to_collect_energy_[i] \in 0 .. Word - 1
    BY DEF AccessInv, TypeOK
  <1>2. ASSUME NEW t \in Threads, StoreEnergy(t)
        PROVE  to_collect_energy_'[i] <= to_collect_energy_[i]
    <2>. DEFINE j == req[t].id
                e == to_collect_energy_[j]
    <2>1. j \in Rows /\ count[t] = Gain(req[t].user, j, e)
      BY <1>2 DEF StoreEnergy, StoreLeft, EnergyPending, AccessInv, RequestInv, GainInv
    <2>2. e \in 0 .. Word - 1 /\ count[t] \in 0 .. e
      BY <2>1, GainBounds DEF AccessInv, TypeOK
    <2>3. \/ to_collect_energy_' = [to_collect_energy_ EXCEPT ![j] = 0]
          \/ to_collect_energy_' = [to_collect_energy_ EXCEPT ![j] = e - count[t]]
      BY <1>2 DEF StoreEnergy, StoreLeft
    <2>4. to_collect_energy_'[i] \in {to_collect_energy_[i], 0, e - count[t]}
          /\ (i # j => to_collect_energy_'[i] = to_collect_energy_[i])
      BY <2>1, <2>3 DEF AccessInv, TypeOK
    <2>. QED
      BY <1>1, <2>2, <2>4
  <1>3. CASE UNCHANGED to_collect_energy_
    BY <1>1, <1>3
  <1>. QED
    BY <1>2, <1>3 DEF Next, Step, vars, memVars, HandleRequest, CheckReturn, ReturnEarly, CheckPass,
                      MarkModified, LockRow, TakeMutex, Reject, RejectTo, Credit, StoreStatus,
                      UnlockRow

\* Whole words leave no remainder.
LEMMA Divides ==
    ASSUME NEW n \in Int, NEW k \in Int, n = Word * k
    PROVE  n % Word = 0
  BY AmountAssumption, Z3T(20)

\* Energy is neither made nor lost: whatever the threads do, rows and users together
\* hold what was loaded, up to the wrap of the 32-bit totals.
THEOREM EnergyConserved == Spec => []Conservation
  <1>1. Init => Wrapped
    <2>. SUFFICES ASSUME Init PROVE TotalHeld - Loaded = Word * 0
      BY DEF Wrapped
    <2>1. SettledEnergy = InitEnergy /\ memTotalEnergyMap = InitTotal
      BY AmountAssumption DEF Init, SettledEnergy
    <2>. QED
      BY <2>1, LoadedType, AmountAssumption DEF TotalHeld, Owned, Left, Loaded
  <1>2. IInv /\ [Next]_vars /\ Wrapped => Wrapped'
    <2>. SUFFICES ASSUME AccessInv, [Next]_vars, NEW k \in Int, TotalHeld - Loaded = Word * k
                  PROVE  Wrapped'
      BY DEF Wrapped, IInv
    <2>1. CASE Ledger!Next
      <3>1. PICK u \in Users, i \in Rows : Ledger!Collect(u, i)
        BY <2>1, SameRules DEF Ledger!Next
      <3>2. PICK taken \in 0 .. Left, w \in {0, Word} :
               Left' = Left - taken /\ Owned' = Owned + taken - w
        BY <3>1, CollectMoves
      <3>3. TotalHeld' - Loaded = Word * k \/ TotalHeld' - Loaded = Word * (k - 1)
        BY <3>2, SumType, LoadedType, AmountAssumption DEF TotalHeld
      <3>. QED
        BY <3>3 DEF Wrapped, Loaded
    <2>2. CASE UNCHANGED Ledger!ledger
      BY <2>2 DEF Ledger!ledger, Wrapped, TotalHeld, Owned, Left, Loaded
    <2>. QED
      BY <2>1, <2>2, LedgerNext
  <1>3. IInv /\ Wrapped => Conservation
    <2>. SUFFICES ASSUME AccessInv, NEW k \in Int, TotalHeld - Loaded = Word * k
                  PROVE  Conservation
      BY DEF Wrapped, IInv
    <2>1. TotalHeld - Loaded \in Int
      BY SumType, LoadedType
    <2>2. (TotalHeld - Loaded) % Word = 0
      BY <2>1, Divides
    <2>. QED
      BY <2>2, SumType, LoadedType DEF TotalHeld, Owned, Left, Loaded, Conservation
  <1>. QED
    BY <1>1, <1>2, <1>3, Invariant, PTL DEF Spec

=============================================================================
