------------------------------ MODULE WriteBack ------------------------------
(***************************************************************************)
(* The two background threads that write the tables of mem.hpp back to the *)
(* database: executeUpdateToCollect and executeUpdateTotal (main.cpp).     *)
(* They run beside the connection threads of CollectEnergy and take none   *)
(* of its mutexes, so every read of a field is a step of its own.          *)
(*                                                                         *)
(* The database is external.  LOCK TABLE shuts out other sessions; the     *)
(* updates of one flush become visible together at UNLOCK TABLES, which    *)
(* commits the transaction, so the later commit() changes nothing.         *)
(***************************************************************************)
EXTENDS CollectEnergy

CONSTANTS
    Total,    \* REQ_TOTAL_CNT: requests to serve, and the last row id
    Accounts  \* the users who have a row in table total_energy

\* The loop over ids 1 .. REQ_TOTAL_CNT dereferences every slot without a test for
\* nullptr: the table has a row for each of them, and no other, as auto_increment
\* gives out no id 0 and the array ends at REQ_TOTAL_CNT.
ASSUME TotalAssumption ==
    /\ Total \in Nat \ {0, 1}
    /\ Rows = 1 .. Total

\* operator[] gives any other user a total that starts at zero.
ASSUME AccountsAssumption ==
    /\ Accounts \subseteq Users
    /\ \A u \in Users \ Accounts : InitTotal[u] = 0

\* Both columns are of type int: what a user may come to own, all the rows hold added
\* to what the user had, fits one.
ASSUME IntAssumption ==
    \A u \in Users : 2 * (InitTotal[u] + Cardinality(Units(InitEnergy))) < Word

VARIABLES
    dbRows,        \* committed table to_collect_energy
    dbTotal,       \* committed table total_energy
    txnRows,       \* to_collect_energy as the open transaction sees it
    txnTotal,      \* total_energy as the open transaction sees it
    collectFlush,  \* state of executeUpdateToCollect
    totalFlush     \* state of executeUpdateTotal

collectFlushVars == <<dbRows, txnRows, collectFlush>>
totalFlushVars   == <<dbTotal, txnTotal, totalFlush>>
writeBackVars    == <<collectFlushVars, totalFlushVars>>

RowStatuses == {"unwritten", "collected_by_other", "all_collected"}

\* The cast (int) of a std::uint32_t.
ToInt(w) == IF 2 * w >= Word THEN w - Word ELSE w

toCollectEnergy_update(rows, i, energy, status) ==
    [rows EXCEPT ![i] = [energy |-> ToInt(energy), status |-> status]]

\* No row is updated for a user who has none.
totalEnergy_update(total, u, energy) == [total EXCEPT ![u] = ToInt(energy)]

WriteBackInit ==
    /\ dbRows = [i \in Rows |-> [energy |-> InitEnergy[i], status |-> "unwritten"]]
    /\ dbTotal = [u \in Accounts |-> ToInt(InitTotal[u])]
    /\ txnRows = dbRows
    /\ txnTotal = dbTotal
    \* quiet records, for the properties only, what was going on at the start
    /\ collectFlush = [pc |-> "off", id |-> 1, status |-> "unwritten", quiet |-> FALSE]
    /\ totalFlush = [pc |-> "off", todo |-> {}, quiet |-> FALSE]

-----------------------------------------------------------------------------
\* executeUpdateToCollect: connect, lock the table, start the loop.
StartToCollect(quiet) ==
    /\ collectFlush' = [collectFlush EXCEPT !.pc = "row", !.quiet = quiet]
    /\ txnRows' = dbRows
    /\ UNCHANGED <<dbRows, totalFlushVars>>

SkipRow ==
    /\ collectFlush.pc = "row" /\ collectFlush.id <= Total
    /\ ~modified_[collectFlush.id]
    /\ collectFlush' = [collectFlush EXCEPT !.id = @ + 1]
    /\ UNCHANGED <<dbRows, txnRows, totalFlushVars>>

\* Whatever is not ALL_COLLECTED is written as collected by another user.
ReadStatus ==
    /\ collectFlush.pc = "row" /\ collectFlush.id <= Total
    /\ modified_[collectFlush.id]
    /\ collectFlush' = [collectFlush EXCEPT
           !.pc = "energy",
           !.status = IF status_[collectFlush.id] = ALL_COLLECTED
                      THEN "all_collected" ELSE "collected_by_other"]
    /\ UNCHANGED <<dbRows, txnRows, totalFlushVars>>

WriteRow(energy) ==
    /\ collectFlush.pc = "energy"
    /\ txnRows' = toCollectEnergy_update(txnRows, collectFlush.id, energy, collectFlush.status)
    /\ collectFlush' = [collectFlush EXCEPT !.pc = "row", !.id = @ + 1, !.status = "unwritten"]
    /\ UNCHANGED <<dbRows, totalFlushVars>>

\* Variant: the energy written is concluded from the status read before.
UpdateRowFromStatus ==
    WriteRow(IF collectFlush.status = "all_collected" THEN 0
             ELSE to_collect_energy_[collectFlush.id])

\* The row is written with the energy as it is by now.
UpdateRow == WriteRow(to_collect_energy_[collectFlush.id])

CommitRows ==
    /\ collectFlush.pc = "row" /\ collectFlush.id = Total + 1
    /\ dbRows' = txnRows
    /\ collectFlush' = [collectFlush EXCEPT !.pc = "done"]
    /\ UNCHANGED <<txnRows, totalFlushVars>>

-----------------------------------------------------------------------------
\* executeUpdateTotal: connect, lock the table, start over the whole map.
StartTotal(quiet) ==
    /\ totalFlush' = [pc |-> "user", todo |-> Users, quiet |-> quiet]
    /\ txnTotal' = dbTotal
    /\ UNCHANGED <<dbTotal, collectFlushVars>>

\* One entry, in the order of the unordered_map.
UpdateTotal(u) ==
    /\ totalFlush.pc = "user"
    /\ u \in totalFlush.todo
    /\ txnTotal' = totalEnergy_update(txnTotal, u, memTotalEnergyMap[u])
    /\ totalFlush' = [totalFlush EXCEPT !.todo = @ \ {u}]
    /\ UNCHANGED <<dbTotal, collectFlushVars>>

\* Variant of CommitTotals, as it stands: the commit does not wait for the loop to end.
CommitTotalsNow ==
    /\ totalFlush.pc = "user"
    /\ dbTotal' = txnTotal
    /\ totalFlush' = [totalFlush EXCEPT !.pc = "done"]
    /\ UNCHANGED <<txnTotal, collectFlushVars>>

CommitTotals == totalFlush.todo = {} /\ CommitTotalsNow

-----------------------------------------------------------------------------
ToCollectStep == SkipRow \/ ReadStatus \/ UpdateRow \/ CommitRows
TotalStep     == CommitTotals \/ \E u \in Users : UpdateTotal(u)

WriteBackTypeOK ==
    LET Table == [Rows -> [energy : -Word .. Word, status : RowStatuses]]
    IN  /\ dbRows \in Table
        /\ txnRows \in Table
        /\ dbTotal \in [Accounts -> -Word .. Word]
        /\ txnTotal \in [Accounts -> -Word .. Word]
        /\ collectFlush \in [pc : {"off", "row", "energy", "done"}, id : 1 .. Total + 1,
                             status : RowStatuses, quiet : BOOLEAN]
        /\ totalFlush \in [pc : {"off", "user", "done"}, todo : SUBSET Users,
                           quiet : BOOLEAN]

=============================================================================
