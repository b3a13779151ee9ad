---------------------------- MODULE StartupProofs ----------------------------
(***************************************************************************)
(* The order of the start and the count of connections, for any number of  *)
(* clients and failing calls.                                              *)
(***************************************************************************)
EXTENDS Startup, FiniteSetTheorems, TLAPS

\* Main passes its wait only with the flag set, and the flag is set only after all calls.
StartInv ==
    /\ main \in {"activate", "touch", "join"} \/ user_activated => init_server_done
    /\ init_server_done => func \notin Calls \cup {"flag"}

\* func leaves its calls in their order and never returns to them.
LEMMA AfterCalls == \A call \in Calls : After[call] \in Calls \cup {"flag"}
  BY DEF After, Calls

\* The activation file is touched after the last call of func, also when main is woken
\* for no reason.
THEOREM ActivationComesLast == Spec => []ActivatedAfterSetUp
  <1>1. Init => StartInv
    BY DEF Init, StartInv
  <1>2. StartInv /\ [Next]_vars => StartInv'
    <2>. SUFFICES ASSUME StartInv, [Next]_vars PROVE StartInv'
      OBVIOUS
    <2>. USE DEF StartInv, mainVars, loopVars
    <2>1. CASE SetUp
      BY <2>1, AfterCalls DEF SetUp
    <2>2. CASE SetFlag
      BY <2>2 DEF SetFlag, Calls, After
    <2>3. CASE NotifyAll
      BY <2>3 DEF NotifyAll, Calls, After
    <2>4. CASE EpollWait \/ CountConnection \/ AcceptFails \/ NewThread
               \/ \E c \in Clients : Accept(c)
      BY <2>4 DEF EpollWait, EpollReturns, CountConnection, AcceptFails, NewThread, Accept,
                  FuncTo, Calls, After
    <2>5. CASE MainStep \/ WakeUp
      <3>1. UNCHANGED <<func, init_server_done>>
        BY <2>5 DEF MainStep, MainTo, TestFlag, Wait, MakeDir, Touch, WakeUp
      <3>2. CASE TestFlag
        <4>1. (main' = "activate" => init_server_done) /\ main' \notin {"touch", "join"}
          BY <3>2 DEF TestFlag, MainTo
        <4>2. user_activated' = user_activated
          BY <3>2 DEF TestFlag
        <4>. QED
          BY <3>1, <4>1, <4>2
      <3>3. CASE Wait \/ WakeUp
        BY <3>1, <3>3 DEF Wait, WakeUp, MainTo
      <3>4. CASE MakeDir \/ Touch
        BY <3>1, <3>4 DEF MakeDir, Touch, MainTo
      <3>. QED
        BY <2>5, <3>2, <3>3, <3>4 DEF MainStep
    <2>6. CASE Idle \/ (\E c \in Clients : Connect(c)) \/ UNCHANGED vars
      BY <2>6 DEF Idle, Connect, vars
    <2>. QED
      BY <2>1, <2>2, <2>3, <2>4, <2>5, <2>6 DEF Next, FuncStep
  <1>3. StartInv => ActivatedAfterSetUp
    BY DEF StartInv, ActivatedAfterSetUp
  <1>. QED
    BY <1>1, <1>2, <1>3, PTL DEF Spec

-----------------------------------------------------------------------------
\* The connections func has taken out of the queue of the kernel.
Taken == {c \in Clients : conn[c] \in {"accepted", "served"}}

\* has_count is raised before accept is called: a connection that is counted is taken,
\* its accept has failed, or it is still queued and accept is called next.
AcceptInv ==
    /\ has_count = Cardinality(Taken) + failures + (IF func = "accept" THEN 1 ELSE 0)
    /\ func \in {"count", "accept"} => Queue # {}
    /\ cfd # NoClient => conn[cfd] = "accepted"

\* Each variable but has_count has its type.
ValueTypes ==
    /\ main \in {"test", "wait", "waiting", "activate", "touch", "join"}
    /\ func \in Calls \cup {"flag", "notify", "epoll_wait", "count", "accept", "thread"}
    /\ done \subseteq Calls
    /\ init_server_done \in BOOLEAN
    /\ outputDir \in BOOLEAN
    /\ user_activated \in BOOLEAN
    /\ conn \in [Clients -> {"new", "queued", "accepted", "served"}]
    /\ cfd \in Clients \cup {NoClient}
    /\ failures \in 0 .. MaxAcceptFailures

\* Every step of main, func, a client or the kernel keeps the types.
LEMMA NextValueTypes ==
    ASSUME ValueTypes, [Next]_vars
    PROVE  ValueTypes'
  <1>. USE DEF ValueTypes, mainVars, loopVars
  <1>1. CASE SetUp
    BY <1>1, AfterCalls DEF SetUp
  <1>2. CASE SetFlag \/ NotifyAll
    BY <1>2 DEF SetFlag, NotifyAll
  <1>3. CASE EpollWait \/ CountConnection \/ AcceptFails
    BY <1>3, StartupAssumption DEF EpollWait, EpollReturns, CountConnection, AcceptFails, FuncTo
  <1>4. ASSUME NEW c \in Clients, Accept(c)
        PROVE  ValueTypes'
    BY <1>4 DEF Accept, FuncTo
  <1>5. CASE NewThread
    BY <1>5 DEF NewThread, FuncTo
  <1>6. CASE MainStep \/ WakeUp
    BY <1>6 DEF MainStep, MainTo, TestFlag, Wait, MakeDir, Touch, WakeUp
  <1>7. CASE Idle \/ UNCHANGED vars
    BY <1>7 DEF Idle, vars
  <1>8. ASSUME NEW c \in Clients, Connect(c)
        PROVE  ValueTypes'
    BY <1>8 DEF Connect
  <1>. QED
    BY <1>1, <1>2, <1>3, <1>4, <1>5, <1>6, <1>7, <1>8 DEF Next, FuncStep

\* Sets of clients are finite; one that leaves a client out is smaller.
LEMMA ClientSets ==
    ASSUME NEW S \in SUBSET Clients
    PROVE  /\ Cardinality(S) \in Nat /\ Cardinality(Clients) \in Nat
           /\ Cardinality(S) <= Cardinality(Clients)
           /\ \A c \in Clients \ S : /\ Cardinality(S \cup {c}) = Cardinality(S) + 1
                                     /\ Cardinality(S) + 1 <= Cardinality(Clients)
  <1>1. IsFiniteSet(S) /\ Cardinality(S) \in Nat /\ Cardinality(Clients) \in Nat
    BY StartupAssumption, FS_Subset, FS_CardinalityType
  <1>2. \A T \in SUBSET Clients : Cardinality(T) <= Cardinality(Clients)
    BY StartupAssumption, FS_Subset
  <1>3. ASSUME NEW c \in Clients \ S
        PROVE  Cardinality(S \cup {c}) = Cardinality(S) + 1
    BY <1>1, FS_AddElement
  <1>. QED
    BY <1>1, <1>2, <1>3

\* Every step keeps the count of connections right.
LEMMA NextAcceptInv ==
    ASSUME ValueTypes, AcceptInv, [Next]_vars
    PROVE  AcceptInv'
  <1>. DEFINE n == Cardinality(Taken)
  <1>1. n \in Nat /\ failures \in Nat
    BY ClientSets, StartupAssumption DEF Taken, ValueTypes
  <1>2. CASE SetUp \/ SetFlag \/ NotifyAll
    <2>1. {func, func'} \cap {"count", "accept"} = {}
      BY <1>2, AfterCalls DEF SetUp, SetFlag, NotifyAll, Calls, After
    <2>2. UNCHANGED <<conn, has_count, cfd, failures>> /\ Taken' = Taken
      BY <1>2 DEF SetUp, SetFlag, NotifyAll, loopVars, Taken
    <2>. QED
      BY <2>1, <2>2 DEF AcceptInv
  <1>3. CASE UNCHANGED <<loopVars, func>>
    BY <1>3 DEF AcceptInv, Taken, Queue, loopVars
  <1>4. CASE EpollWait
    BY <1>4 DEF EpollWait, EpollReturns, FuncTo, AcceptInv, Taken, Queue, loopVars
  <1>5. CASE CountConnection
    <2>1. /\ func = "count" /\ func' = "accept" /\ has_count' = has_count + 1
          /\ UNCHANGED <<conn, cfd, failures>> /\ Taken' = Taken /\ Queue' = Queue
      BY <1>5 DEF CountConnection, FuncTo, Taken, Queue
    <2>. QED
      BY <1>1, <2>1 DEF AcceptInv
  <1>6. ASSUME NEW c \in Clients, Accept(c)
        PROVE  AcceptInv'
    <2>1. /\ func = "accept" /\ func' = "thread" /\ UNCHANGED <<has_count, failures>>
          /\ conn[c] = "queued" /\ conn' = [conn EXCEPT ![c] = "accepted"] /\ cfd' = c
      BY <1>6 DEF Accept, FuncTo, Queue
    <2>2. Taken' = Taken \cup {c} /\ c \notin Taken /\ conn'[c] = "accepted"
      BY <2>1 DEF Taken, ValueTypes
    <2>3. Cardinality(Taken') = n + 1
      BY <2>2, ClientSets DEF Taken
    <2>. QED
      BY <1>1, <2>1, <2>2, <2>3 DEF AcceptInv
  <1>7. CASE AcceptFails
    <2>1. /\ func = "accept" /\ func' = "thread" /\ failures' = failures + 1
          /\ cfd' = NoClient /\ UNCHANGED <<conn, has_count>> /\ Taken' = Taken
      BY <1>7 DEF AcceptFails, FuncTo, Taken
    <2>. QED
      BY <1>1, <2>1 DEF AcceptInv
  <1>8. CASE NewThread
    <2>1. /\ func = "thread" /\ func' = "epoll_wait" /\ cfd' = NoClient
          /\ UNCHANGED <<has_count, failures>>
          /\ conn' = [c \in Clients |-> IF c = cfd THEN "served" ELSE conn[c]]
      BY <1>8 DEF NewThread, FuncTo
    <2>2. Taken' = Taken
      BY <2>1, StartupAssumption DEF Taken, AcceptInv
    <2>. QED
      BY <1>1, <2>1, <2>2 DEF AcceptInv
  <1>9. ASSUME NEW c \in Clients, Connect(c)
        PROVE  AcceptInv'
    <2>1. /\ conn[c] = "new" /\ conn' = [conn EXCEPT ![c] = "queued"]
          /\ UNCHANGED <<func, has_count, cfd, failures>>
      BY <1>9 DEF Connect
    <2>2. Taken' = Taken /\ Queue \subseteq Queue' /\ cfd # c
      BY <2>1, StartupAssumption DEF Taken, Queue, ValueTypes, AcceptInv
    <2>. QED
      BY <2>1, <2>2 DEF AcceptInv, ValueTypes
  <1>. QED
    BY <1>2, <1>3, <1>4, <1>5, <1>6, <1>7, <1>8, <1>9, StartupAssumption
    DEF Next, FuncStep, SetUp, SetFlag, NotifyAll, MainStep, MainTo, TestFlag, Wait, MakeDir,
        Touch, WakeUp, Idle, vars, loopVars, Calls, After

\* Every variable keeps its type; above all no connection is counted twice, although it
\* is counted before accept is called, and again if accept fails.
THEOREM StartupTypes == Spec => []TypeOK
  <1>1. Init => ValueTypes /\ AcceptInv
    <2>. SUFFICES ASSUME Init PROVE ValueTypes /\ AcceptInv
      OBVIOUS
    <2>1. Taken = {}
      BY DEF Init, Taken
    <2>2. ValueTypes
      <3>1. func \in Calls /\ failures \in 0 .. MaxAcceptFailures
        BY StartupAssumption DEF Init, Calls, After
      <3>2. outputDir \in BOOLEAN
        BY DEF Init
      <3>. QED
        BY <3>1, <3>2 DEF Init, ValueTypes
    <2>3. Cardinality(Taken) = 0
      BY <2>1, FS_EmptySet
    <2>. QED
      BY <2>2, <2>3 DEF Init, AcceptInv
  <1>2. ValueTypes /\ AcceptInv /\ [Next]_vars => ValueTypes' /\ AcceptInv'
    BY NextValueTypes, NextAcceptInv
  <1>3. ValueTypes /\ AcceptInv => TypeOK
    <2>. SUFFICES ASSUME ValueTypes, AcceptInv
                  PROVE  has_count \in 0 .. Cardinality(Clients) + MaxAcceptFailures
      BY DEF ValueTypes, TypeOK
    <2>1. Taken \in SUBSET Clients /\ failures \in 0 .. MaxAcceptFailures
      BY DEF Taken, ValueTypes
    <2>2. /\ Cardinality(Taken) \in Nat /\ Cardinality(Clients) \in Nat
          /\ Cardinality(Taken) <= Cardinality(Clients)
      BY <2>1, ClientSets
    <2>3. func = "accept" => Cardinality(Taken) + 1 <= Cardinality(Clients)
      <3>1. func = "accept" => \E c \in Clients : c \notin Taken
        BY DEF AcceptInv, Queue, Taken
      <3>. QED
        BY <2>1, <3>1, ClientSets
    <2>. QED
      BY <2>1, <2>2, <2>3, StartupAssumption DEF AcceptInv
  <1>. QED
    BY <1>1, <1>2, <1>3, PTL DEF Spec

=============================================================================
