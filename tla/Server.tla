-------------------------------- MODULE Server --------------------------------
(***************************************************************************)
(* func_http (main.cpp): one thread per accepted connection receives       *)
(* requests, numbers them with the shared counter req_cnt, and answers     *)
(* them.  Ordinary requests are answered before they are handled; the last *)
(* two of the REQ_TOTAL_CNT expected ones are handled first, start the two *)
(* write-backs, and are answered 200ms later.  The wait is for a length of *)
(* time only: nothing is ordered by it.                                    *)
(*                                                                         *)
(* The clients are external: each has one connection and sends its next    *)
(* request when the previous one is answered, in one segment, so that one  *)
(* recv returns one request.  Together they send at most MaxRequests, each *)
(* one of ClientRequests or a request for another path.                    *)
(***************************************************************************)
EXTENDS WriteBack

CONSTANTS
    ClientRequests,  \* what the clients ask for, out of Request
    MaxRequests      \* bound on the requests the clients send

ASSUME ClientAssumption ==
    /\ ClientRequests \subseteq Request
    /\ MaxRequests \in Nat

VARIABLES
    req_cnt,     \* requests received
    done_count,  \* requests finished
    at,          \* where each thread stands in func_http
    cnt,         \* the number its current request was given
    sent,        \* requests the clients have sent
    client       \* per connection: "ready", "sent" (on the wire), "waiting", "gone"

httpVars   == <<req_cnt, done_count, at, cnt, sent, client>>
serverVars == <<vars, writeBackVars, httpVars>>

\* The requests that start a write-back.
Last == {Total - 1, Total}

ServerInit ==
    /\ Init
    /\ WriteBackInit
    /\ req_cnt = 0
    /\ done_count = 0
    /\ at = [t \in Threads |-> "loop"]
    /\ cnt = [t \in Threads |-> 0]
    /\ sent = 0
    /\ client = [t \in Threads |-> "ready"]

Move(t, from, to) ==
    /\ at[t] = from
    /\ at' = [at EXCEPT ![t] = to]

-----------------------------------------------------------------------------
Send(t) ==
    /\ client[t] = "ready" /\ sent < MaxRequests
    /\ client' = [client EXCEPT ![t] = "sent"]
    /\ sent' = sent + 1
    /\ UNCHANGED <<vars, writeBackVars, req_cnt, done_count, at, cnt>>

Disconnect(t) ==
    /\ client[t] = "ready"
    /\ client' = [client EXCEPT ![t] = "gone"]
    /\ UNCHANGED <<vars, writeBackVars, req_cnt, done_count, at, cnt, sent>>

-----------------------------------------------------------------------------
\* while (done_count < n)
LoopUpTo(t, n) ==
    /\ Move(t, "loop", IF done_count < n THEN "recv" ELSE "closed")
    /\ UNCHANGED <<vars, writeBackVars, req_cnt, done_count, cnt, sent, client>>

\* Variant: the loop ends one request early.
LoopShort(t) == LoopUpTo(t, Total - 1)

Loop(t) == LoopUpTo(t, Total)

RecvAs(t, n) ==
    /\ client[t] = "sent"
    /\ Move(t, "recv", IF n \in Last THEN "handle" ELSE "respond")
    /\ client' = [client EXCEPT ![t] = "waiting"]
    /\ req_cnt' = req_cnt + 1
    /\ cnt' = [cnt EXCEPT ![t] = n]
    /\ UNCHANGED <<vars, writeBackVars, done_count, sent>>

\* Variant: the number is taken from the requests done, not from those received.
RecvNumberedByDone(t) == RecvAs(t, done_count + 1)

\* recv returns a request, which gets the next number.
Recv(t) == RecvAs(t, req_cnt + 1)

\* recv returns 0: the loop ends and the connection is closed.
RecvEnd(t) ==
    /\ client[t] = "gone"
    /\ Move(t, "recv", "closed")
    /\ UNCHANGED <<vars, writeBackVars, req_cnt, done_count, cnt, sent, client>>

send_response_head(t) == client' = [client EXCEPT ![t] = "ready"]

\* At once for ordinary requests, after the sleep for the last two.
Respond(t) ==
    /\ \/ Move(t, "respond", "handle")
       \/ Move(t, "sleep", "count")
    /\ send_response_head(t)
    /\ UNCHANGED <<vars, writeBackVars, req_cnt, done_count, cnt, sent>>

\* handle_request is called for a user and a row ...
Handle(t) ==
    /\ Move(t, "handle", "handling")
    /\ \E r \in ClientRequests : HandleRequest(t, r.user, r.id)
    /\ UNCHANGED <<writeBackVars, req_cnt, done_count, cnt, sent, client>>

\* ... or returns at once, the path not being /collect_energy/.
HandleOther(t) ==
    /\ Move(t, "handle", "handling")
    /\ UNCHANGED <<vars, writeBackVars, req_cnt, done_count, cnt, sent, client>>

Handling(t) ==
    /\ Step(t)
    /\ UNCHANGED <<writeBackVars, httpVars>>

\* One of the last two starts its write-back, in a detached thread.  Variant of
\* Spawn, as it stands: handle_request is not waited for.
StartWriteBack(t) ==
    /\ Move(t, "handling", "sleep")
    /\ \/ cnt[t] = Total - 1 /\ StartToCollect(done_count = Total - 2)
       \/ cnt[t] = Total /\ StartTotal(done_count = Total - 1)
    /\ UNCHANGED <<vars, req_cnt, done_count, cnt, sent, client>>

\* Back from handle_request.
Spawn(t) == pc[t] = "idle" /\ StartWriteBack(t)

CountBy(t, n) ==
    /\ \/ Move(t, "count", "loop")
       \/ pc[t] = "idle" /\ cnt[t] \notin Last /\ Move(t, "handling", "loop")
    /\ done_count' = done_count + n
    /\ cnt' = [cnt EXCEPT ![t] = 0]
    /\ UNCHANGED <<vars, writeBackVars, req_cnt, sent, client>>

\* Variants: the last two are counted before and after the wait, or not at all.
CountTwice(t)    == CountBy(t, IF cnt[t] \in Last THEN 2 ELSE 1)
CountOrdinary(t) == CountBy(t, IF cnt[t] \in Last THEN 0 ELSE 1)

\* done_count.fetch_add(1)
Count(t) == CountBy(t, 1)

ToCollect == ToCollectStep /\ UNCHANGED <<vars, httpVars>>
Totals    == TotalStep /\ UNCHANGED <<vars, httpVars>>

-----------------------------------------------------------------------------
ThreadStep(t) ==
    \/ Loop(t) \/ Recv(t) \/ RecvEnd(t) \/ Respond(t)
    \/ Handle(t) \/ HandleOther(t) \/ Handling(t) \/ Spawn(t) \/ Count(t)

\* The connections are over and the write-backs that were started are done.
Terminating ==
    /\ \A t \in Threads : at[t] = "closed" \/ (at[t] = "recv" /\ client[t] = "ready")
    /\ collectFlush.pc \in {"off", "done"} /\ totalFlush.pc \in {"off", "done"}
    /\ UNCHANGED serverVars

ServerNext ==
    \/ \E t \in Threads : Send(t) \/ Disconnect(t) \/ ThreadStep(t)
    \/ ToCollect
    \/ Totals
    \/ Terminating

\* The kernel schedules every runnable thread; clients owe nothing.
ServerFairness ==
    /\ \A t \in Threads : WF_serverVars(ThreadStep(t))
    /\ WF_serverVars(ToCollect)
    /\ WF_serverVars(Totals)

ServerSpec == ServerInit /\ [][ServerNext]_serverVars /\ ServerFairness

-----------------------------------------------------------------------------
(***************************************************************************)
(* Properties.                                                             *)
(***************************************************************************)

HttpTypeOK ==
    /\ req_cnt \in 0 .. MaxRequests
    /\ done_count \in 0 .. MaxRequests
    /\ at \in [Threads -> {"loop", "recv", "respond", "handle", "handling", "sleep",
                           "count", "closed"}]
    /\ cnt \in [Threads -> 0 .. MaxRequests]
    /\ sent \in 0 .. MaxRequests
    /\ client \in [Threads -> {"ready", "sent", "waiting", "gone"}]

\* Types of the whole composition.
ServerTypeOK == TypeOK /\ WriteBackTypeOK /\ HttpTypeOK

\* Received but not yet counted as done.
InHand(t) == at[t] \in {"respond", "handle", "handling", "sleep", "count"}

\* The numbers are given out once each and every number is accounted for: the
\* requests received are those done and those in the hands of a thread.
CountersAgree ==
    /\ req_cnt = done_count + Cardinality({t \in Threads : InHand(t)})
    /\ \A t, s \in Threads : InHand(t) /\ InHand(s) /\ cnt[t] = cnt[s] => t = s

\* What a table holds is some earlier state of memory: the database never shows
\* energy collected that memory has not taken from the row or given to the user.
DatabaseBehind ==
    /\ \A i \in Rows : dbRows[i].energy >= to_collect_energy_[i]
    /\ \A u \in Accounts : dbTotal[u] <= memTotalEnergyMap[u]

\* If every other request was done when the last one started the write-back of the
\* totals, and none came later, the database ends with the totals of memory.
TotalsWrittenBack ==
    totalFlush.pc = "done" /\ totalFlush.quiet /\ req_cnt = Total =>
        \A u \in Accounts : dbTotal[u] = memTotalEnergyMap[u]

\* The row as written differs from the row in memory.
Stale(i) ==
    \/ dbRows[i].energy # to_collect_energy_[i]
    \/ (dbRows[i].status = "all_collected") # (status_[i] = ALL_COLLECTED)

\* If all earlier requests were done when the last but one started the write-back of
\* the rows, only the row the last request names can be written stale or torn.
RowsWrittenBack ==
    collectFlush.pc = "done" /\ collectFlush.quiet /\ req_cnt <= Total =>
        Cardinality({i \in Rows : Stale(i)}) <= 1

\* Every request on the wire is received and answered, although threads wait for each
\* other's rows and the loop stops by a count that all of them advance.
EveryRequestAnswered == \A t \in Threads : client[t] = "sent" ~> client[t] = "ready"

\* Once the expected number of requests is in, both tables are committed.
WriteBacksCommit ==
    req_cnt >= Total ~> collectFlush.pc = "done" /\ totalFlush.pc = "done"

\* "Flush the data" (step 2 of executeUpdateToCollect): when all requests are done and
\* the write-back is over, the table holds the energy of memory.
RowsFlushed ==
    collectFlush.pc = "done" /\ done_count = Total =>
        \A i \in 1 .. Total : dbRows[i].energy = to_collect_energy_[i]

-----------------------------------------------------------------------------
(***************************************************************************)
(* The inductive invariants behind the theorems of CountersProofs and      *)
(* WriteBackProofs.                                                        *)
(***************************************************************************)

\* A client whose request is not answered yet sends no other one.
AnswerInv ==
    \A t \in Threads :
        /\ at[t] = "respond" => client[t] = "waiting" /\ cnt[t] \notin Last
        /\ at[t] = "sleep" => cnt[t] \in Last
        /\ at[t] \in {"handle", "handling", "sleep"} /\ cnt[t] \in Last =>
               client[t] = "waiting"

\* Each request sent is on the wire, in the hands of a thread or done.
CounterInv ==
    /\ HttpTypeOK
    /\ AnswerInv
    /\ sent = req_cnt + Cardinality({t \in Threads : client[t] = "sent"})
    /\ \A t \in Threads : cnt[t] <= req_cnt
    /\ CountersAgree

\* handle_request runs only where func_http has called it.
HandlingInv == \A t \in Threads : pc[t] # "idle" => at[t] = "handling"

\* Each flush stands between memory and the table it writes.
FlushInv ==
    /\ \A i \in Rows :
           /\ to_collect_energy_[i] <= txnRows[i].energy
           /\ txnRows[i].energy <= dbRows[i].energy
           /\ dbRows[i].energy <= InitEnergy[i]
    /\ \A u \in Accounts :
           /\ 0 <= dbTotal[u]
           /\ dbTotal[u] <= txnTotal[u]
           /\ txnTotal[u] <= memTotalEnergyMap[u]

\* What is still to come when the last request has started the write-back of the
\* totals and all others are done: nothing, so that what was read stays true.
TotalsInv ==
    /\ totalFlush.pc # "off" => req_cnt >= Total
    /\ totalFlush.pc # "off" /\ totalFlush.quiet /\ req_cnt = Total =>
           /\ \A t \in Threads : at[t] \notin {"respond", "handle", "handling"}
           /\ \A u \in Accounts \ totalFlush.todo : txnTotal[u] = memTotalEnergyMap[u]
           /\ totalFlush.pc = "done" =>
                  \A u \in Accounts : dbTotal[u] = memTotalEnergyMap[u]

\* The write-back of the rows starts once and goes through them in order; a row without
\* the mark needs no writing.
RowsOnce ==
    /\ collectFlush.pc = "off" => collectFlush.id = 1 /\ txnRows = dbRows
    /\ collectFlush.pc = "energy" => modified_[collectFlush.id]
    /\ collectFlush.pc = "done" => collectFlush.id = Total + 1 /\ dbRows = txnRows
    /\ \A i \in Rows : ~modified_[i] => txnRows[i].energy = to_collect_energy_[i]
    /\ collectFlush.pc # "off" =>
           /\ req_cnt >= Total - 1
           /\ \A t \in Threads : at[t] \in {"respond", "handle", "handling"} =>
                  cnt[t] # Total - 1

\* No status was ever written for a row without the mark.
UnmarkedInv == \A i \in Rows : ~modified_[i] => txnRows[i].status = "unwritten"

\* What the flush has read of row i is still so.
InStep(i) ==
    /\ i < collectFlush.id =>
           /\ txnRows[i].energy = to_collect_energy_[i]
           /\ modified_[i] =>
                  (txnRows[i].status = "all_collected") = (status_[i] = ALL_COLLECTED)
    /\ i = collectFlush.id /\ collectFlush.pc = "energy" =>
           (collectFlush.status = "all_collected") = (status_[i] = ALL_COLLECTED)

\* Called, or about to be called, with a request it has not seen yet.
Entering(t) == at[t] \in {"respond", "handle"}

\* The last request is still to come and finds all rows in step, ...
LastToCome ==
    /\ \A t \in Threads : pc[t] = "idle"
    /\ \A t \in Threads : Entering(t) => req_cnt = Total
    /\ \A t, s \in Threads : Entering(t) /\ Entering(s) => t = s
    /\ \A i \in Rows : InStep(i)

\* ... or it has come, and all rows but one stay so.
LastHasCome ==
    /\ req_cnt = Total
    /\ \A t \in Threads : ~Entering(t)
    /\ \E j \in Ids :
           /\ \A t \in Threads : pc[t] # "idle" => req[t].id = j
           /\ \A i \in Rows \ {j} : InStep(i)

RowsInv ==
    /\ RowsOnce
    /\ collectFlush.pc # "off" /\ collectFlush.quiet /\ req_cnt <= Total =>
           LastToCome \/ LastHasCome

=============================================================================
