---------------------------- MODULE CollectEnergy ----------------------------
(***************************************************************************)
(* handle_request (main.cpp) run by several connection threads over the    *)
(* tables of mem.hpp.  One action per access to shared memory: the fields  *)
(* of a MemToCollect are plain members that other threads and the          *)
(* write-back threads read without its mutex, so every store is a step of  *)
(* its own and the two stores of a collection, which nothing orders, are   *)
(* made in either order.                                                   *)
(***************************************************************************)
EXTENDS EnergyRules, FiniteSets

CONSTANTS
    Threads,    \* connection threads, each running handle_request
    Free,       \* value of a mutex that nobody holds
    NoRequest   \* value of req between two requests

ASSUME FreeAssumption == Free \notin Threads

ASSUME FiniteAssumption == IsFiniteSet(Users) /\ IsFiniteSet(Rows) /\ IsFiniteSet(Threads)

VARIABLES
    status_,            \* MemToCollect::status_
    to_collect_energy_, \* MemToCollect::to_collect_energy_
    modified_,          \* MemToCollect::modified_
    mutex,              \* MemToCollect::mutex: its holder or Free
    memTotalEnergyMap,  \* user id -> std::atomic_uint32_t
    pc,                 \* where each thread stands in handle_request
    req,                \* the request it handles
    count               \* energy it has credited and is about to take out

memVars     == <<status_, to_collect_energy_, modified_, mutex, memTotalEnergyMap>>
handlerVars == <<pc, req, count>>
vars        == <<memVars, handlerVars>>

Request == [user : Users, id : Ids]

(***************************************************************************)
(* "store" is the point after the credit where both fields of the row are  *)
(* still to be written; "energyLeft" and "statusLeft" where one of them is.*)
(***************************************************************************)
Locations == {"idle", "check", "mark", "lock", "locked",
              "store", "energyLeft", "statusLeft", "unlock"}
EnergyPending(t) == pc[t] \in {"store", "energyLeft"}
StatusPending(t) == pc[t] \in {"store", "statusLeft"}
InCritical(t)    == pc[t] \in {"locked", "store", "energyLeft", "statusLeft", "unlock"}

Goto(t, from, to) ==
    /\ pc[t] = from
    /\ pc' = [pc EXCEPT ![t] = to]

Return(t) ==
    /\ pc' = [pc EXCEPT ![t] = "idle"]
    /\ req' = [req EXCEPT ![t] = NoRequest]
    /\ count' = [count EXCEPT ![t] = 0]

-----------------------------------------------------------------------------
\* The tables as load_in_mem leaves them; no request has arrived.
Init ==
    /\ status_ = [i \in Rows |-> EMPTY]
    /\ to_collect_energy_ = InitEnergy
    /\ modified_ = [i \in Rows |-> FALSE]
    /\ mutex = [i \in Rows |-> Free]
    /\ memTotalEnergyMap = InitTotal
    /\ pc = [t \in Threads |-> "idle"]
    /\ req = [t \in Threads |-> NoRequest]
    /\ count = [t \in Threads |-> 0]

\* handle_request is entered with a request whose path named user u and row id i.
HandleRequest(t, u, i) ==
    /\ Goto(t, "idle", "check")
    /\ req' = [req EXCEPT ![t] = [user |-> u, id |-> i]]
    /\ UNCHANGED <<memVars, count>>

\* The early return: no such row, or its status, read without the mutex, is one of these.
ReturnEarly(t, finished) ==
    /\ pc[t] = "check"
    /\ req[t].id \in Rows => status_[req[t].id] \in finished
    /\ Return(t)
    /\ UNCHANGED memVars

\* Variant: a row somebody collected from counts as finished, for its owner too.
CheckReturnTouched(t) == ReturnEarly(t, Statuses \ {EMPTY})

CheckReturn(t) == ReturnEarly(t, {ALL_COLLECTED})

CheckPass(t) ==
    /\ Goto(t, "check", "mark")
    /\ req[t].id \in Rows
    /\ status_[req[t].id] # ALL_COLLECTED
    /\ UNCHANGED <<memVars, req, count>>

\* Variant: the mark is forgotten.
MarkNothing(t) ==
    /\ Goto(t, "mark", "lock")
    /\ UNCHANGED <<memVars, req, count>>

\* modified_ is set before the mutex is taken and before the row is examined.
MarkModified(t) ==
    /\ Goto(t, "mark", "lock")
    /\ modified_' = [modified_ EXCEPT ![req[t].id] = TRUE]
    /\ UNCHANGED <<status_, to_collect_energy_, mutex, memTotalEnergyMap, req, count>>

\* Variant of LockRow, as it stands: the mutex is not waited for.
TakeMutex(t) ==
    /\ Goto(t, "lock", "locked")
    /\ mutex' = [mutex EXCEPT ![req[t].id] = t]
    /\ UNCHANGED <<status_, to_collect_energy_, modified_, memTotalEnergyMap, req, count>>

LockRow(t) == TakeMutex(t) /\ mutex[req[t].id] = Free

\* What the row's fields allow the request of t, read under the mutex.
Eligible(t) ==
    LET i == req[t].id
    IN  CanCollect(req[t].user, i, status_[i], to_collect_energy_[i])

RejectTo(t, to) ==
    /\ Goto(t, "locked", to)
    /\ ~Eligible(t)
    /\ UNCHANGED <<memVars, req, count>>

\* Variant: the row is polled, the mutex kept, until it can be collected from.
RejectPolls(t) == RejectTo(t, "locked")

Reject(t) == RejectTo(t, "unlock")

\* The += on the user's atomic total; seq_cst, so the row's stores come after it.
Credit(t) ==
    LET u == req[t].user
        i == req[t].id
        taken == Gain(u, i, to_collect_energy_[i])
    IN  /\ Goto(t, "locked", "store")
        /\ Eligible(t)
        /\ count' = [count EXCEPT ![t] = taken]
        /\ memTotalEnergyMap' = [memTotalEnergyMap EXCEPT ![u] = Add32(@, taken)]
        /\ UNCHANGED <<status_, to_collect_energy_, modified_, mutex, req>>

StoreLeft(t, left) ==
    /\ EnergyPending(t)
    /\ pc' = [pc EXCEPT ![t] = IF StatusPending(t) THEN "statusLeft" ELSE "unlock"]
    /\ to_collect_energy_' = [to_collect_energy_ EXCEPT ![req[t].id] = left]
    /\ UNCHANGED <<status_, modified_, mutex, memTotalEnergyMap, req, count>>

\* Variant: another user empties the row instead of leaving the rest.
StoreZero(t) == StoreLeft(t, 0)

\* to_collect_energy_ = 0 for the owner, -= count for anybody else.
StoreEnergy(t) ==
    LET i == req[t].id
    IN  StoreLeft(t, IF req[t].user = Owner[i] THEN 0 ELSE to_collect_energy_[i] - count[t])

StoreStatus(t) ==
    /\ StatusPending(t)
    /\ pc' = [pc EXCEPT ![t] = IF EnergyPending(t) THEN "energyLeft" ELSE "unlock"]
    /\ status_' = [status_ EXCEPT ![req[t].id] = StatusAfter(req[t].user, req[t].id)]
    /\ UNCHANGED <<to_collect_energy_, modified_, mutex, memTotalEnergyMap, req, count>>

UnlockRow(t) ==
    /\ pc[t] = "unlock"
    /\ mutex' = [mutex EXCEPT ![req[t].id] = Free]
    /\ Return(t)
    /\ UNCHANGED <<status_, to_collect_energy_, modified_, memTotalEnergyMap>>

-----------------------------------------------------------------------------
\* A thread inside handle_request; what the scheduler keeps running.
Step(t) ==
    \/ CheckReturn(t) \/ CheckPass(t) \/ MarkModified(t) \/ LockRow(t)
    \/ Reject(t) \/ Credit(t) \/ StoreEnergy(t) \/ StoreStatus(t) \/ UnlockRow(t)

Next == \E t \in Threads :
            \/ \E u \in Users, i \in Ids : HandleRequest(t, u, i)
            \/ Step(t)

Fairness == \A t \in Threads : WF_vars(Step(t))

Spec == Init /\ [][Next]_vars /\ Fairness

-----------------------------------------------------------------------------
(***************************************************************************)
(* Properties.                                                             *)
(***************************************************************************)

\* Every variable has its type; the mutexes are held by threads.
TypeOK ==
    /\ status_ \in [Rows -> Statuses]
    /\ to_collect_energy_ \in [Rows -> 0 .. Word - 1]
    /\ modified_ \in [Rows -> BOOLEAN]
    /\ mutex \in [Rows -> Threads \cup {Free}]
    /\ memTotalEnergyMap \in [Users -> 0 .. Word - 1]
    /\ pc \in [Threads -> Locations]
    /\ req \in [Threads -> Request \cup {NoRequest}]
    /\ count \in [Threads -> 0 .. Word - 1]

(***************************************************************************)
(* The row as it will be once the holder of its mutex has made the stores  *)
(* it still owes: the abstract ledger moves at the credit.                 *)
(***************************************************************************)
SettledEnergy ==
    [i \in Rows |-> IF mutex[i] # Free /\ EnergyPending(mutex[i])
                     THEN to_collect_energy_[i] - count[mutex[i]]
                     ELSE to_collect_energy_[i]]
SettledStatus ==
    [i \in Rows |-> IF mutex[i] # Free /\ StatusPending(mutex[i])
                     THEN StatusAfter(req[mutex[i]].user, i)
                     ELSE status_[i]]

Ledger == INSTANCE EnergyLedger WITH
    rowStatus <- SettledStatus, rowEnergy <- SettledEnergy, balance <- memTotalEnergyMap

\* Concurrent requests act on the tables as if each collected in one step.
LedgerSpec == Ledger!Spec

\* The fields of row i agree: all of the loaded energy is left, all but one share,
\* or nothing.
Coherent(i, s, e) ==
    /\ s = EMPTY => e = InitEnergy[i]
    /\ s = COLLECTED_BY_OTHER =>
          /\ e = InitEnergy[i] - Share(InitEnergy[i])
          /\ Share(InitEnergy[i]) > 0
    /\ s = ALL_COLLECTED => e = 0

\* A row's status tells exactly how much of its loaded energy is left, however
\* requests interleave: at most one share ever goes to others, all else to the owner.
RowIntegrity == \A i \in Rows : Coherent(i, SettledStatus[i], SettledEnergy[i])

\* The units of energy f holds: one element for each.
Units(f) == UNION {{x} \X (1 .. f[x]) : x \in DOMAIN f}

\* Energy is neither made nor lost: what rows and users hold together is what was
\* loaded, up to the wrap of the 32-bit totals.
Conservation ==
    (Cardinality(Units(memTotalEnergyMap)) + Cardinality(Units(SettledEnergy))
        - Cardinality(Units(InitTotal)) - Cardinality(Units(InitEnergy))) % Word = 0

\* The write-back skips rows without the mark: a row that no longer holds what was
\* loaded carries it, at every instant and not only after the request.
ChangedIsMarked ==
    \A i \in Rows :
        status_[i] # EMPTY \/ to_collect_energy_[i] # InitEnergy[i] => modified_[i]

\* A collection leaves nothing to repeat: when a request returns, by whichever
\* return, its user cannot collect from that row any more.
ReturnIsFinal ==
    [][\A t \in Threads :
        pc[t] # "idle" /\ pc'[t] = "idle" /\ req[t].id \in Rows =>
            ~CanCollect(req[t].user, req[t].id, status_'[req[t].id],
                        to_collect_energy_'[req[t].id])]_vars

\* A mutex that is taken is given back: no path out of the row keeps it.
MutexReleased == \A i \in Rows : mutex[i] # Free ~> mutex[i] = Free

\* "Marked as modified" (the comment beside the store): once no request works on a
\* row, a marked row has been changed.
MarkedIsChanged ==
    \A i \in Rows :
        modified_[i] /\ (\A t \in Threads : req[t] # NoRequest => req[t].id # i) =>
            status_[i] # EMPTY \/ to_collect_energy_[i] # InitEnergy[i]

-----------------------------------------------------------------------------
(***************************************************************************)
(* The inductive invariant behind the theorems of CollectEnergyProofs.     *)
(***************************************************************************)

\* Past the early return a thread works on a row that exists.
RequestInv ==
    \A t \in Threads :
        /\ pc[t] # "idle" => req[t] \in Request
        /\ pc[t] \notin {"idle", "check"} => req[t].id \in Rows

\* The mutex of a row is held by the one thread between lock and unlock on it.
LockInv ==
    /\ \A t \in Threads : InCritical(t) => mutex[req[t].id] = t
    /\ \A i \in Rows : mutex[i] # Free =>
            InCritical(mutex[i]) /\ req[mutex[i]].id = i

\* Nobody changes a row's energy between its credit and the holder's own store.
GainInv ==
    \A t \in Threads : EnergyPending(t) =>
        count[t] = Gain(req[t].user, req[t].id, to_collect_energy_[req[t].id])

\* The mark comes before anything else a thread does to a row.
MarkInv == \A t \in Threads : pc[t] \notin {"idle", "check", "mark"} => modified_[req[t].id]

\* What keeps the accesses to a row in order, whatever energy was loaded: these clauses
\* alone are inductive too, and survive a restart.
AccessInv == TypeOK /\ RequestInv /\ LockInv /\ GainInv /\ MarkInv

\* What the holder of the mutex of row i knows at each point of the critical section.
HolderKnows(t, u, i, s, e) ==
    /\ pc[t] \in {"locked", "store", "unlock"} => Coherent(i, s, e)
    /\ pc[t] = "store" => CanCollect(u, i, s, e)
    /\ pc[t] = "energyLeft" => s = StatusAfter(u, i) /\ Coherent(i, s, e - count[t])
    /\ pc[t] = "statusLeft" => Coherent(i, StatusAfter(u, i), e)
    /\ pc[t] = "unlock" => ~CanCollect(u, i, s, e)

RowInv ==
    /\ \A i \in Rows : mutex[i] = Free => Coherent(i, status_[i], to_collect_energy_[i])
    /\ \A t \in Threads : InCritical(t) =>
            LET i == req[t].id
            IN  HolderKnows(t, req[t].user, i, status_[i], to_collect_energy_[i])

\* The mutex makes the unordered stores of a collection look like one step: all
\* clauses together are preserved by every step of every thread.
IInv == AccessInv /\ ChangedIsMarked /\ RowInv

=============================================================================
