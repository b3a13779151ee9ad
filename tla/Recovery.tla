------------------------------ MODULE Recovery ------------------------------
(***************************************************************************)
(* The server stopped and started again over the database it wrote to.     *)
(* Nothing catches an SQLException in a write-back thread or SIGPIPE from  *)
(* send, and nothing stops the server in an orderly way, so it may end at  *)
(* any step, with what it had not committed.  load_in_mem (main.cpp) then  *)
(* reads the tables as they were committed: LOCK TABLE makes its queries   *)
(* wait for a commit still on its way.  Clients connect anew and send up   *)
(* to MaxRequests again.                                                   *)
(***************************************************************************)
EXTENDS Server

CONSTANT MaxRestarts   \* bound on the restarts

ASSUME RestartsAssumption == MaxRestarts \in Nat

\* A life may give out once more what the life before gave out and did not write back:
\* what a user may come to own in all lives together still fits the int of its column.
ASSUME LivesAssumption ==
    \A u \in Users :
        2 * (InitTotal[u] + (MaxRestarts + 1) * Cardinality(Units(InitEnergy))) < Word

VARIABLE restarts      \* restarts so far

recoveryVars == <<serverVars, restarts>>

RecoveryInit == ServerInit /\ restarts = 0

Run == ServerNext /\ UNCHANGED restarts

\* getInt, stored in a std::uint32_t.
ToWord(n) == n % Word

\* Every variable of the process gets its first value but the tables in memory, which
\* get these; the column status is not read.
RestartWith(energy, total) ==
    /\ restarts < MaxRestarts
    /\ restarts' = restarts + 1
    /\ status_' = [i \in Rows |-> EMPTY]
    /\ to_collect_energy_' = energy
    /\ modified_' = [i \in Rows |-> FALSE]
    /\ mutex' = [i \in Rows |-> Free]
    /\ memTotalEnergyMap' = total
    /\ pc' = [t \in Threads |-> "idle"]
    /\ req' = [t \in Threads |-> NoRequest]
    /\ count' = [t \in Threads |-> 0]
    /\ txnRows' = dbRows
    /\ txnTotal' = dbTotal
    /\ collectFlush' = [pc |-> "off", id |-> 1, status |-> "unwritten", quiet |-> FALSE]
    /\ totalFlush' = [pc |-> "off", todo |-> {}, quiet |-> FALSE]
    /\ req_cnt' = 0 /\ done_count' = 0 /\ sent' = 0
    /\ at' = [t \in Threads |-> "loop"]
    /\ cnt' = [t \in Threads |-> 0]
    /\ client' = [t \in Threads |-> "ready"]
    /\ UNCHANGED <<dbRows, dbTotal>>

LoadedEnergy == [i \in Rows |-> ToWord(dbRows[i].energy)]

\* Variant: the second table is not read, operator[] starts every total at zero.
RestartFirstTable == RestartWith(LoadedEnergy, [u \in Users |-> 0])

Restart ==
    RestartWith(LoadedEnergy,
                [u \in Users |-> IF u \in Accounts THEN ToWord(dbTotal[u]) ELSE 0])

RecoveryNext == Run \/ Restart

RecoverySpec == RecoveryInit /\ [][RecoveryNext]_recoveryVars

-----------------------------------------------------------------------------
(***************************************************************************)
(* Properties.                                                             *)
(***************************************************************************)

\* Types, restarts included.
RecoveryTypeOK == ServerTypeOK /\ restarts \in 0 .. MaxRestarts

\* Wherever the process stops, what it starts from again is never ahead of what it
\* has committed: no commit of any life gives a row energy back or takes a user's.
DatabaseMovesOn ==
    [][/\ \A i \in Rows : dbRows'[i].energy <= dbRows[i].energy
       /\ \A u \in Accounts : dbTotal'[u] >= dbTotal[u]]_recoveryVars

\* The energy of the rows and of the users the database knows.
Held ==
    Cardinality(Units(to_collect_energy_))
        + Cardinality(Units([u \in Accounts |-> memTotalEnergyMap[u]]))

\* Both write-backs are over, each started with every earlier request done.
WrittenInQuiet ==
    /\ collectFlush.pc = "done" /\ collectFlush.quiet
    /\ totalFlush.pc = "done" /\ totalFlush.quiet
    /\ req_cnt = Total

\* A restart after a complete and quiet write-back, whose two tables were committed by
\* two threads at two times, loses no energy; it adds what one row held at most.
RestartKeepsEnergy ==
    [][restarts' > restarts /\ WrittenInQuiet =>
        \E i \in Rows : Held' - Held \in 0 .. InitEnergy[i]]_recoveryVars

\* "0:EMPTY, 1:COLLECTED_BY_OTHER" (the comment on status_): a row that is EMPTY has
\* been collected from by nobody.
EmptyIsUntouched ==
    \A i \in Rows :
        mutex[i] = Free /\ status_[i] = EMPTY => to_collect_energy_[i] = InitEnergy[i]

=============================================================================
