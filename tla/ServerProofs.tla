---------------------------- MODULE ServerProofs ----------------------------
(***************************************************************************)
(* What the server inherits from handle_request: its threads take only     *)
(* steps of CollectEnergy, so the invariant of that module holds with the  *)
(* connections, the counters and the write-backs around it.                *)
(***************************************************************************)
EXTENDS Server, CollectEnergyProofs

\* Every step of the server is a step of handle_request or leaves its state alone.
LEMMA ServerStep == [ServerNext]_serverVars => [Next]_vars
  <1>. SUFFICES ASSUME [ServerNext]_serverVars PROVE [Next]_vars
    OBVIOUS
  <1>1. ASSUME NEW t \in Threads, Handle(t) PROVE Next
    BY <1>1, ClientAssumption DEF Handle, Request, Next
  <1>2. ASSUME NEW t \in Threads, Handling(t) PROVE Next
    BY <1>2 DEF Handling, Next
  <1>3. ASSUME NEW t \in Threads,
               \/ Send(t) \/ Disconnect(t) \/ Loop(t) \/ Recv(t) \/ RecvEnd(t)
               \/ Respond(t) \/ HandleOther(t) \/ Spawn(t) \/ Count(t)
        PROVE  UNCHANGED vars
    BY <1>3 DEF Send, Disconnect, Loop, LoopUpTo, Recv, RecvAs, RecvEnd, Respond,
                HandleOther, Spawn, StartWriteBack, Count, CountBy
  <1>4. ASSUME ToCollect \/ Totals \/ Terminating \/ UNCHANGED serverVars
        PROVE  UNCHANGED vars
    BY <1>4 DEF ToCollect, Totals, Terminating, serverVars
  <1>. QED
    BY <1>1, <1>2, <1>3, <1>4 DEF ServerNext, ThreadStep

\* The invariant of handle_request holds in the server.
LEMMA ServerInvariant == ServerSpec => []IInv
  <1>1. ServerInit => Init
    BY DEF ServerInit
  <1>. QED
    BY <1>1, InitIInv, NextIInv, ServerStep, PTL DEF ServerSpec

\* Whatever the order in which requests are numbered, answered, handled and flushed,
\* no row of the server gives away more than one share and the rest to its owner.
THEOREM ServerRowsKeepIntegrity == ServerSpec => []RowIntegrity
  BY ServerInvariant, RowIntegrityHolds, PTL

\* In the server too every row that changed carries the mark the flush looks for.
THEOREM ServerChangedRowsAreMarked == ServerSpec => []ChangedIsMarked
  <1>1. IInv => ChangedIsMarked
    BY DEF IInv
  <1>. QED
    BY <1>1, ServerInvariant, PTL

\* The server implements the ledger: write-backs and counters add no way to move energy.
THEOREM ServerImplementsLedger == ServerSpec => LedgerSpec
  <1>1. ServerInit => Ledger!Init
    BY LedgerInit DEF ServerInit
  <1>2. IInv /\ [Next]_vars => [Ledger!Next]_(Ledger!ledger)
    BY LedgerNext DEF IInv
  <1>. QED
    BY <1>1, <1>2, ServerStep, ServerInvariant, PTL DEF ServerSpec, LedgerSpec, Ledger!Spec

=============================================================================
