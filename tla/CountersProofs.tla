--------------------------- MODULE CountersProofs ---------------------------
(***************************************************************************)
(* The two counters all connection threads share, req_cnt and done_count,  *)
(* account for every request whatever the order in which the threads       *)
(* advance them: their difference is the number of threads that have a     *)
(* request in hand, and the numbers drawn from req_cnt are all different.  *)
(***************************************************************************)
EXTENDS ServerProofs, FiniteSetTheorems

OnWire  == {t \in Threads : client[t] = "sent"}
InHands == {t \in Threads : InHand(t)}

\* Sets of threads are finite, and grow and shrink by one.
LEMMA ThreadSets ==
    ASSUME NEW S \in SUBSET Threads
    PROVE  /\ IsFiniteSet(S) /\ Cardinality(S) \in Nat
           /\ \A t \in Threads \ S : Cardinality(S \cup {t}) = Cardinality(S) + 1
           /\ \A t \in S : Cardinality(S \ {t}) = Cardinality(S) - 1
           /\ \A t \in S : Cardinality(S) >= 1
  <1>1. IsFiniteSet(S) /\ Cardinality(S) \in Nat
    BY FiniteAssumption, FS_Subset, FS_CardinalityType
  <1>2. \A t \in Threads \ S : Cardinality(S \cup {t}) = Cardinality(S) + 1
    BY <1>1, FS_AddElement
  <1>3. ASSUME NEW t \in S
        PROVE  Cardinality(S \ {t}) = Cardinality(S) - 1 /\ Cardinality(S) >= 1
    <2>1. Cardinality(S \ {t}) = Cardinality(S) - 1
      BY <1>1, FS_RemoveElement
    <2>2. Cardinality(S \ {t}) \in Nat
      BY <1>1, FS_RemoveElement, FS_CardinalityType
    <2>. QED
      BY <1>1, <2>1, <2>2
  <1>. QED
    BY <1>1, <1>2, <1>3

\* What the counters say of the sets behind them.
LEMMA CounterFacts ==
    ASSUME CounterInv
    PROVE  /\ HttpTypeOK
           /\ OnWire \in SUBSET Threads /\ InHands \in SUBSET Threads
           /\ Cardinality(OnWire) \in Nat /\ Cardinality(InHands) \in Nat
           /\ sent = req_cnt + Cardinality(OnWire)
           /\ req_cnt = done_count + Cardinality(InHands)
  BY ThreadSets DEF CounterInv, CountersAgree, OnWire, InHands

\* The first values of func_http, at the start of every life of the server.
HttpInit ==
    /\ req_cnt = 0 /\ done_count = 0 /\ sent = 0
    /\ at = [t \in Threads |-> "loop"]
    /\ cnt = [t \in Threads |-> 0]
    /\ client = [t \in Threads |-> "ready"]

\* Nothing is received yet.
LEMMA HttpInitCounterInv == HttpInit => CounterInv
  <1>. SUFFICES ASSUME HttpInit PROVE CounterInv
    OBVIOUS
  <1>1. OnWire = {} /\ InHands = {}
    BY DEF HttpInit, OnWire, InHands, InHand
  <1>2. Cardinality(OnWire) = 0 /\ Cardinality(InHands) = 0
    BY <1>1, FS_EmptySet
  <1>. QED
    BY <1>1, <1>2, ClientAssumption
    DEF HttpInit, CounterInv, CountersAgree, HttpTypeOK, AnswerInv, OnWire, InHands, InHand

\* At the start nothing is received and nothing is in hand.
LEMMA InitCounterInv == ServerInit => CounterInv
  BY HttpInitCounterInv DEF ServerInit, HttpInit

\* A step that leaves the counters and the requests in hand alone.
Quiet == UNCHANGED <<req_cnt, done_count, cnt, InHands>>

\* What each step of func_http does to the counters and to who has a request in hand.
LEMMA HttpMoves ==
    ASSUME CounterInv, NEW t \in Threads
    PROVE  /\ Send(t) => OnWire' = OnWire \cup {t} /\ t \notin OnWire /\ Quiet
           /\ Recv(t) => /\ OnWire' = OnWire \ {t} /\ t \in OnWire
                         /\ InHands' = InHands \cup {t} /\ t \notin InHands
           /\ Count(t) => /\ OnWire' = OnWire
                          /\ InHands' = InHands \ {t} /\ t \in InHands
           /\ \/ Disconnect(t) \/ Loop(t) \/ RecvEnd(t) \/ Respond(t)
              \/ Handle(t) \/ HandleOther(t) \/ Handling(t) \/ Spawn(t)
              => OnWire' = OnWire /\ Quiet
  <1>. USE DEF OnWire, InHands, InHand, CounterInv, HttpTypeOK
  <1>1. Send(t) => OnWire' = OnWire \cup {t} /\ t \notin OnWire /\ Quiet
    BY DEF Send, Quiet
  <1>2. Recv(t) => /\ OnWire' = OnWire \ {t} /\ t \in OnWire
                   /\ InHands' = InHands \cup {t} /\ t \notin InHands
    BY DEF Recv, RecvAs, Move
  <1>3. Count(t) => /\ OnWire' = OnWire
                    /\ InHands' = InHands \ {t} /\ t \in InHands
    BY DEF Count, CountBy, Move
  <1>4. Disconnect(t) \/ Loop(t) \/ RecvEnd(t) => OnWire' = OnWire /\ Quiet
    BY DEF Disconnect, Loop, LoopUpTo, RecvEnd, Move, Quiet
  <1>5. Respond(t) => OnWire' = OnWire /\ Quiet
    BY DEF Respond, send_response_head, Move, Quiet, AnswerInv
  <1>6. Handle(t) \/ HandleOther(t) \/ Handling(t) \/ Spawn(t) => OnWire' = OnWire /\ Quiet
    BY DEF Handle, HandleOther, Handling, Spawn, StartWriteBack, Move, Quiet, httpVars
  <1>. QED
    BY <1>1, <1>2, <1>3, <1>4, <1>5, <1>6

\* The order of the answers is kept.
LEMMA NextAnswerInv ==
    ASSUME HttpTypeOK, AnswerInv, [ServerNext]_serverVars
    PROVE  AnswerInv'
  <1>1. CASE UNCHANGED httpVars
    BY <1>1 DEF httpVars, AnswerInv
  <1>2. ASSUME NEW t \in Threads, ThreadStep(t) \/ Send(t) \/ Disconnect(t)
        PROVE  AnswerInv'
    <2>. SUFFICES ASSUME ~UNCHANGED httpVars PROVE AnswerInv'
      BY <1>1
    <2>. USE DEF HttpTypeOK, AnswerInv
    <2>1. CASE Send(t) \/ Disconnect(t)
      BY <2>1 DEF Send, Disconnect
    <2>2. CASE Loop(t) \/ RecvEnd(t)
      BY <2>2 DEF Loop, LoopUpTo, RecvEnd, Move
    <2>3. CASE Recv(t)
      BY <2>3 DEF Recv, RecvAs, Move
    <2>4. CASE Respond(t)
      BY <2>4 DEF Respond, send_response_head, Move
    <2>5. CASE Handle(t) \/ HandleOther(t)
      BY <2>5 DEF Handle, HandleOther, Move
    <2>6. CASE Spawn(t)
      BY <2>6 DEF Spawn, StartWriteBack, Move, Last
    <2>7. CASE Count(t)
      BY <2>7 DEF Count, CountBy, Move
    <2>8. CASE Handling(t)
      BY <2>8 DEF Handling
    <2>. QED
      BY <1>2, <2>1, <2>2, <2>3, <2>4, <2>5, <2>6, <2>7, <2>8 DEF ThreadStep
  <1>. QED
    BY <1>1, <1>2 DEF ServerNext, ToCollect, Totals, Terminating, serverVars

\* Every number drawn is new.
LEMMA NextNumbers ==
    ASSUME CounterInv, HttpTypeOK', [ServerNext]_serverVars
    PROVE  /\ \A t \in Threads : cnt'[t] <= req_cnt'
           /\ \A t, s \in Threads : InHand(t)' /\ InHand(s)' /\ cnt'[t] = cnt'[s] => t = s
  <1>. DEFINE Numbers == /\ \A t \in Threads : cnt[t] <= req_cnt
                         /\ \A t, s \in Threads :
                                InHand(t) /\ InHand(s) /\ cnt[t] = cnt[s] => t = s
  <1>. SUFFICES Numbers'
    OBVIOUS
  <1>. USE DEF CounterInv, CountersAgree, HttpTypeOK
  <1>1. CASE UNCHANGED <<req_cnt, cnt, InHands>>
    BY <1>1 DEF InHands
  <1>2. ASSUME NEW t \in Threads, Recv(t)
        PROVE  Numbers'
    BY <1>2, ClientAssumption DEF Recv, RecvAs, Move, InHand
  <1>3. ASSUME NEW t \in Threads, Count(t)
        PROVE  Numbers'
    BY <1>3, ClientAssumption DEF Count, CountBy, Move, InHand
  <1>4. CASE UNCHANGED httpVars
    BY <1>4 DEF httpVars, InHand
  <1>. QED
    BY <1>1, <1>2, <1>3, <1>4, HttpMoves
    DEF ServerNext, ThreadStep, Quiet, ToCollect, Totals, Terminating, serverVars

\* The counters keep their types: no more is received than was sent.
LEMMA NextHttpTypeOK ==
    ASSUME CounterInv, [ServerNext]_serverVars
    PROVE  /\ HttpTypeOK'
           /\ sent' = req_cnt' + Cardinality(OnWire')
           /\ req_cnt' = done_count' + Cardinality(InHands')
  <1>. DEFINE Sums == /\ sent' = req_cnt' + Cardinality(OnWire')
                      /\ req_cnt' = done_count' + Cardinality(InHands')
              Numbers == {req_cnt', done_count', sent'} \subseteq 0 .. MaxRequests
              Places == /\ at' \in [Threads -> {"loop", "recv", "respond", "handle",
                                                "handling", "sleep", "count", "closed"}]
                        /\ client' \in [Threads -> {"ready", "sent", "waiting", "gone"}]
              Drawn == cnt' \in [Threads -> 0 .. MaxRequests]
  <1>. SUFFICES Sums /\ Numbers /\ Places /\ Drawn
    BY DEF HttpTypeOK
  <1>1. Places
    <2>1. CASE UNCHANGED httpVars
      BY <2>1 DEF httpVars, CounterInv, HttpTypeOK
    <2>. QED
      BY <2>1 DEF CounterInv, HttpTypeOK, ServerNext, ThreadStep, ToCollect, Totals, Terminating,
                  serverVars, Send, Disconnect, Loop, LoopUpTo, Recv, RecvAs, RecvEnd, Respond,
                  send_response_head, Handle, HandleOther, Handling, Spawn, StartWriteBack,
                  Count, CountBy, Move
  <1>2. CASE UNCHANGED httpVars
    <2>1. OnWire' = OnWire /\ InHands' = InHands
      BY <1>2 DEF httpVars, OnWire, InHands, InHand
    <2>. QED
      BY <1>1, <1>2, <2>1, CounterFacts DEF httpVars, HttpTypeOK
  <1>3. ASSUME NEW t \in Threads, Send(t)
        PROVE  Sums /\ Numbers /\ Drawn
    <2>1. Cardinality(OnWire') = Cardinality(OnWire) + 1 /\ InHands' = InHands
      BY <1>3, CounterFacts, HttpMoves, ThreadSets DEF Quiet
    <2>. QED
      BY <1>3, <2>1, CounterFacts, ClientAssumption DEF HttpTypeOK, Send
  <1>4. ASSUME NEW t \in Threads, Recv(t)
        PROVE  Sums /\ Numbers /\ Drawn
    <2>1. /\ Cardinality(OnWire') = Cardinality(OnWire) - 1 /\ Cardinality(OnWire) >= 1
          /\ Cardinality(InHands') = Cardinality(InHands) + 1
      BY <1>4, CounterFacts, HttpMoves, ThreadSets
    <2>2. /\ sent' = sent /\ done_count' = done_count /\ req_cnt' = req_cnt + 1
          /\ cnt' = [cnt EXCEPT ![t] = req_cnt + 1]
      BY <1>4 DEF Recv, RecvAs
    <2>. QED
      BY <2>1, <2>2, CounterFacts, ClientAssumption DEF HttpTypeOK
  <1>5. ASSUME NEW t \in Threads, Count(t)
        PROVE  Sums /\ Numbers /\ Drawn
    <2>1. /\ OnWire' = OnWire
          /\ Cardinality(InHands') = Cardinality(InHands) - 1 /\ Cardinality(InHands) >= 1
      BY <1>5, CounterFacts, HttpMoves, ThreadSets
    <2>2. /\ sent' = sent /\ req_cnt' = req_cnt /\ done_count' = done_count + 1
          /\ cnt' = [cnt EXCEPT ![t] = 0]
      BY <1>5 DEF Count, CountBy
    <2>. QED
      BY <2>1, <2>2, CounterFacts, ClientAssumption DEF HttpTypeOK
  <1>6. ASSUME NEW t \in Threads,
               \/ Disconnect(t) \/ Loop(t) \/ RecvEnd(t) \/ Respond(t)
               \/ Handle(t) \/ HandleOther(t) \/ Handling(t) \/ Spawn(t)
        PROVE  Sums /\ Numbers /\ Drawn
    <2>1. OnWire' = OnWire /\ Quiet
      BY <1>6, HttpMoves
    <2>2. sent' = sent
      BY <1>6 DEF Disconnect, Loop, LoopUpTo, RecvEnd, Respond, Handle, HandleOther, Handling,
                  Spawn, StartWriteBack, httpVars
    <2>. QED
      BY <2>1, <2>2, CounterFacts DEF HttpTypeOK, Quiet
  <1>. QED
    BY <1>1, <1>2, <1>3, <1>4, <1>5, <1>6
    DEF ServerNext, ThreadStep, ToCollect, Totals, Terminating, serverVars

\* Every step of the server keeps the account.
LEMMA NextCounterInv == CounterInv /\ [ServerNext]_serverVars => CounterInv'
  <1>. SUFFICES ASSUME CounterInv, [ServerNext]_serverVars PROVE CounterInv'
    OBVIOUS
  <1>1. /\ HttpTypeOK'
        /\ sent' = req_cnt' + Cardinality(OnWire')
        /\ req_cnt' = done_count' + Cardinality(InHands')
    BY NextHttpTypeOK
  <1>2. AnswerInv'
    BY NextAnswerInv DEF CounterInv
  <1>3. /\ \A t \in Threads : cnt'[t] <= req_cnt'
        /\ \A t, s \in Threads : InHand(t)' /\ InHand(s)' /\ cnt'[t] = cnt'[s] => t = s
    BY <1>1, NextNumbers
  <1>. QED
    BY <1>1, <1>2, <1>3 DEF CounterInv, CountersAgree, OnWire, InHands

\* However many connections advance the counters at once, no two requests in hand have
\* the same number, and the requests received are those done and those in hand.
THEOREM ServerCountersAgree == ServerSpec => []CountersAgree
  <1>1. CounterInv => CountersAgree
    BY DEF CounterInv
  <1>. QED
    BY <1>1, InitCounterInv, NextCounterInv, PTL DEF ServerSpec

=============================================================================
