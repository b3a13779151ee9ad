------------------------------- MODULE Startup -------------------------------
(***************************************************************************)
(* main and func (main.cpp): the thread that opens the listening socket    *)
(* and accepts connections, the main thread that waits for it and then     *)
(* creates the activation file, and the clients that connect.  The calls   *)
(* that can fail are tested only to print a message, so a failed one is    *)
(* followed by the next all the same.                                      *)
(*                                                                         *)
(* The mutex mtx is taken by main alone and therefore excludes nobody: the *)
(* flag is tested and the thread put on the condition variable's wait set  *)
(* in two steps that those of func interleave with.                        *)
(***************************************************************************)
EXTENDS Integers, FiniteSets

CONSTANTS
    Clients,           \* each connects at most once
    NoClient,          \* what a failed accept returns
    Backlog,           \* connections the kernel queues for accept
    MaxAcceptFailures  \* bound on failing calls of accept

ASSUME StartupAssumption ==
    /\ IsFiniteSet(Clients) /\ NoClient \notin Clients
    /\ Backlog \in Nat \ {0}
    /\ MaxAcceptFailures \in Nat

VARIABLES
    main,              \* where main stands
    func,              \* where func stands
    done,              \* the calls of func that succeeded
    init_server_done,  \* the flag main waits for
    outputDir,         \* the directory of the activation file exists
    user_activated,    \* main has touched the activation file
    conn,              \* per client: "new", "queued", "accepted", "served"
    has_count,         \* connections counted
    cfd,               \* what the last accept of func returned
    failures           \* failed calls of accept

mainVars == <<main, outputDir, user_activated>>
loopVars == <<conn, has_count, cfd, failures>>
vars     == <<mainVars, func, done, init_server_done, loopVars>>

\* The calls of func before its loop, each with the one that follows.
After == [epoll_create |-> "socket", socket |-> "bind", bind |-> "listen",
          listen |-> "epoll_ctl", epoll_ctl |-> "flag"]
Calls == DOMAIN After

\* What must have succeeded for a call to succeed; listen needs no bind, it then
\* takes a port of the kernel's choice.
Needs(call) == CASE call \in {"bind", "listen"} -> {"socket"}
                 [] call = "epoll_ctl"          -> {"epoll_create", "socket"}
                 [] OTHER                       -> {}

Queue     == {c \in Clients : conn[c] = "queued"}
Listening == {"bind", "listen"} \subseteq done      \* on port 8080

Init ==
    /\ main = "test" /\ func = "epoll_create"
    /\ done = {}
    /\ init_server_done = FALSE
    /\ outputDir \in BOOLEAN
    /\ user_activated = FALSE
    /\ conn = [c \in Clients |-> "new"]
    /\ has_count = 0 /\ cfd = NoClient /\ failures = 0

-----------------------------------------------------------------------------
\* func: each call succeeds or fails, and func goes on.
SetUp ==
    /\ func \in Calls
    /\ func' = After[func]
    /\ \/ Needs(func) \subseteq done /\ done' = done \cup {func}
       \/ done' = done
    /\ UNCHANGED <<mainVars, init_server_done, loopVars>>

SetFlag ==
    /\ func = "flag"
    /\ func' = "notify"
    /\ init_server_done' = TRUE
    /\ UNCHANGED <<mainVars, done, loopVars>>

FuncTo(from, to) ==
    /\ func = from /\ func' = to
    /\ UNCHANGED <<mainVars, done, init_server_done>>

\* Variant: nobody is notified.
NotifyNobody == FuncTo("notify", "epoll_wait") /\ UNCHANGED loopVars

\* notify_all wakes main if it is waiting by now.
NotifyAll ==
    /\ func = "notify"
    /\ func' = "epoll_wait"
    /\ main' = IF main = "waiting" THEN "test" ELSE main
    /\ UNCHANGED <<outputDir, user_activated, done, init_server_done, loopVars>>

\* Variant of EpollWait, as it stands: it returns with no event on the listening socket.
EpollReturns == FuncTo("epoll_wait", "count") /\ UNCHANGED loopVars

\* Variant: only a queue that has just become non-empty is reported.
EpollWaitEdge == "epoll_ctl" \in done /\ Cardinality(Queue) = 1 /\ EpollReturns

\* The listening socket is reported as long as a connection is queued.
EpollWait == "epoll_ctl" \in done /\ Queue # {} /\ EpollReturns

CountConnection ==
    /\ FuncTo("count", "accept")
    /\ has_count' = has_count + 1
    /\ UNCHANGED <<conn, cfd, failures>>

Accept(c) ==
    /\ FuncTo("accept", "thread")
    /\ c \in Queue
    /\ conn' = [conn EXCEPT ![c] = "accepted"] /\ cfd' = c
    /\ UNCHANGED <<has_count, failures>>

\* accept returns -1, which is not tested.
AcceptFails ==
    /\ FuncTo("accept", "thread")
    /\ failures < MaxAcceptFailures
    /\ failures' = failures + 1 /\ cfd' = NoClient
    /\ UNCHANGED <<conn, has_count>>

\* A detached thread runs func_http(cfd); for -1 it ends at its first recv.
NewThread ==
    /\ FuncTo("thread", "epoll_wait")
    /\ conn' = [c \in Clients |-> IF c = cfd THEN "served" ELSE conn[c]]
    /\ cfd' = NoClient
    /\ UNCHANGED <<has_count, failures>>

-----------------------------------------------------------------------------
MainTo(from, to) ==
    /\ main = from /\ main' = to
    /\ UNCHANGED <<func, done, init_server_done, loopVars>>

\* The predicate of cv.wait.
TestFlag ==
    /\ MainTo("test", IF init_server_done THEN "activate" ELSE "wait")
    /\ UNCHANGED <<outputDir, user_activated>>

\* Inside cv.wait main joins the wait set and releases mtx.
Wait ==
    /\ MainTo("wait", "waiting")
    /\ UNCHANGED <<outputDir, user_activated>>

\* Variant: cv.wait is called without a predicate.
WakeUpTrusted ==
    /\ MainTo("waiting", "activate")
    /\ UNCHANGED <<outputDir, user_activated>>

\* A condition variable may wake a waiter for no reason.
WakeUp ==
    /\ MainTo("waiting", "test")
    /\ UNCHANGED <<outputDir, user_activated>>

\* activate_flag: stat, mkdir -p when it finds nothing, ...
MakeDir ==
    /\ MainTo("activate", "touch")
    /\ outputDir' \in {outputDir, TRUE}
    /\ UNCHANGED user_activated

\* ... touch, which needs the directory; main then waits for func to end.
Touch ==
    /\ MainTo("touch", "join")
    /\ user_activated' = outputDir
    /\ UNCHANGED outputDir

\* A client connects to port 8080.
Connect(c) ==
    /\ conn[c] = "new" /\ Listening /\ Cardinality(Queue) < Backlog
    /\ conn' = [conn EXCEPT ![c] = "queued"]
    /\ UNCHANGED <<mainVars, func, done, init_server_done, has_count, cfd, failures>>

-----------------------------------------------------------------------------
FuncStep ==
    \/ SetUp \/ SetFlag \/ NotifyAll
    \/ EpollWait \/ CountConnection \/ AcceptFails \/ NewThread
    \/ \E c \in Clients : Accept(c)

MainStep == TestFlag \/ Wait \/ MakeDir \/ Touch

\* epoll_wait blocks, or returns at once with nothing to do, for ever.
Idle ==
    /\ main = "join" /\ func = "epoll_wait"
    /\ UNCHANGED vars

Next ==
    \/ FuncStep \/ MainStep \/ WakeUp \/ Idle
    \/ \E c \in Clients : Connect(c)

\* Both threads are scheduled; nobody has to connect or to wake main without reason.
Fairness == WF_vars(FuncStep) /\ WF_vars(MainStep)

Spec == Init /\ [][Next]_vars /\ Fairness

-----------------------------------------------------------------------------
(***************************************************************************)
(* Properties.                                                             *)
(***************************************************************************)

\* Every variable has its type; connections are counted at most once each.
TypeOK ==
    /\ main \in {"test", "wait", "waiting", "activate", "touch", "join"}
    /\ func \in Calls \cup {"flag", "notify", "epoll_wait", "count", "accept", "thread"}
    /\ done \subseteq Calls
    /\ init_server_done \in BOOLEAN
    /\ outputDir \in BOOLEAN
    /\ user_activated \in BOOLEAN
    /\ conn \in [Clients -> {"new", "queued", "accepted", "served"}]
    /\ has_count \in 0 .. Cardinality(Clients) + MaxAcceptFailures
    /\ cfd \in Clients \cup {NoClient}
    /\ failures \in 0 .. MaxAcceptFailures

\* Whatever wakes main, the activation file is not touched before func is through
\* with its calls.
ActivatedAfterSetUp == user_activated => func \notin Calls \cup {"flag"}

\* Main gets past cv.wait if it is in the wait set when func comes to notify_all.
WaiterGoesOn == main = "waiting" /\ func = "notify" ~> main = "join"

\* Every connection the kernel queued is taken over by a thread, although func accepts
\* one connection per event and accept may fail.
QueuedIsServed ==
    \A c \in Clients : conn[c] = "queued" /\ "epoll_ctl" \in done ~> conn[c] = "served"

\* "Mark that the start succeeded" (the comment on activate_flag): the activation
\* file says that the server listens on its port.
ActivatedIsListening == user_activated => Listening

\* "Mark that the start succeeded": a start that succeeded is marked.
StartIsMarked == init_server_done /\ done = Calls ~> main = "join"

=============================================================================
