-------------------------- MODULE ReplicationProofs -------------------------
(* Proofs about Replication, for every log, capacity and environment. *)
EXTENDS Replication, TLAPS, SequenceTheorems

-----------------------------------------------------------------------------
(* The log *)

\* Positions are naturals: the fields of WalAssumption, one by one.
LEMMA WalTypes ==
  /\ Len(Wal) \in Nat
  /\ \A i \in Events : Lsn(i) \in Nat /\ Commit(i) \in Nat
<1>1. Wal \in Seq(Message)
  BY WalAssumption
<1>2. Len(Wal) \in Nat /\ \A i \in 1..Len(Wal) : Wal[i] \in Message
  BY <1>1, ElementOfSeq, LenProperties
<1> QED
  BY <1>2 DEF Events, Lsn, Commit, Message

\* Every position the model compares is a natural.
LEMMA PositionsAreNat == Positions \subseteq Nat
BY WalTypes DEF Positions

\* Accounting for more events never uncovers a position: a push, whatever
\* part of it takes effect, only adds to what is accounted for.
LEMMA CoveredMonotone ==
  ASSUME NEW lsn, NEW S, NEW T, S \subseteq T, Covered(lsn, S)
  PROVE  Covered(lsn, T)
BY DEF Covered

\* The position of the last event of a batch covers no more than the log up
\* to that event, transactions that overlapped in time included: it may be
\* confirmed once all of that is accounted for.
LEMMA CoveredByPrefix ==
  ASSUME NEW k \in Events, NEW S, 1..k \subseteq S
  PROVE  Covered(Lsn(k), S)
<1> SUFFICES ASSUME NEW i \in Events, Commit(i) < Lsn(k)
             PROVE  i \in S
  BY DEF Covered
<1>1. k \in 1..Len(Wal) /\ i \in 1..Len(Wal) /\ Len(Wal) \in Nat
  BY WalTypes DEF Events
<1>2. CASE i =< k
  BY <1>1, <1>2
<1>3. CASE k < i
  <2>1. Lsn(k) =< Commit(i)
    BY <1>1, <1>3, WalAssumption DEF Lsn, Commit
  <2> QED
    BY <2>1, WalTypes
<1> QED
  BY <1>1, <1>2, <1>3

\* What PostgreSQL skips at a start position is accounted for if the
\* position is covered.
LEMMA SkippedIsCovered ==
  ASSUME NEW p \in 0..Len(Wal), NEW lsn, NEW S,
         StreamsFrom(p, lsn), Covered(lsn, S)
  PROVE  1..p \subseteq S
BY WalTypes DEF StreamsFrom, Covered, Events

-----------------------------------------------------------------------------
(* Type correctness *)

TypeInv == TypeOK /\ CursorsInv

\* The first process has not started: the cursors are at the log's start.
LEMMA TypeInvInit == Init => TypeInv
<1> SUFFICES ASSUME Init PROVE TypeInv
  OBVIOUS
<1> USE WalTypes, SizeAssumption
<1>1. ControlTypeOK
  BY DEF Init, ControlInit, ControlTypeOK, CdcState, CallPhase
<1>2. feedback \in Seq(Nat) /\ Len(feedback) = 0
  BY DEF Init
<1> QED
  BY <1>1, <1>2 DEF Init, TypeInv, TypeOK, CursorsInv, EngineState, PipeState,
     ChannelPending, ChannelCap

\* The look at the state comes round: the counter stays below CheckEvery.
LEMMA NextIterationType ==
  ASSUME iteration \in 0..(CheckEvery - 1)
  PROVE  NextIteration \in 0..(CheckEvery - 1)
BY SizeAssumption DEF NextIteration

\* The batch is part of the log, and it is empty when the cursors meet.
LEMMA BatchInLog ==
  ASSUME TypeOK
  PROVE  /\ Batch \subseteq Events
         /\ Batch # {} => cleared < taken
<1>1. Len(Wal) \in Nat /\ sent \in 0..Len(Wal) /\ taken \in 0..sent /\ cleared \in 0..taken
  BY WalTypes DEF TypeOK
<1> QED
  BY <1>1 DEF Batch, Events

\* Wherever a status update moves the slot, it is at a position.
LEMMA SlotMovesToNat ==
  ASSUME confirmedFlush \in Nat, NEW lsn \in Nat, SlotMovesTo(lsn)
  PROVE  confirmedFlush' \in Nat
BY DEF SlotMovesTo, Larger

\* The RPC handlers keep the control state well typed, and so does a restart.
LEMMA ControlType ==
  /\ ControlReset => ControlTypeOK'
  /\ ControlTypeOK /\ Control => ControlTypeOK'
<1>1. ASSUME ControlReset PROVE ControlTypeOK'
  BY <1>1 DEF ControlReset, ControlTypeOK, CdcState, CallPhase
<1>2. ASSUME ControlTypeOK, Control PROVE ControlTypeOK'
  <2> PICK c \in Clients : NewCall(c) \/ FinishCall(c, Subscribed)
    BY <1>2 DEF Control
  <2> USE <1>2 DEF ControlTypeOK, CdcState, CallPhase, CompareAndSetState
  <2>1. CASE Pause(c)      BY <2>1 DEF Pause
  <2>2. CASE Resume(c)     BY <2>2 DEF Resume
  <2>3. CASE DrainCheck(c) BY <2>3 DEF DrainCheck
  <2>4. CASE DrainStore(c) BY <2>4 DEF DrainStore
  <2>5. CASE StopCheck(c)  BY <2>5 DEF StopCheck
  <2>6. CASE StopStore(c)  BY <2>6 DEF StopStore
  <2>7. CASE SendSignal(c, Subscribed)
    <3>1. Subscribed \in BOOLEAN
      BY DEF Subscribed
    <3> QED
      BY <2>7, <3>1 DEF SendSignal
  <2> QED
    BY <2>1, <2>2, <2>3, <2>4, <2>5, <2>6, <2>7 DEF NewCall, FinishCall
<1> QED
  BY <1>1, <1>2

\* A process that ends leaves the durable state well typed and the rest as
\* at the start.
LEMMA ProcessGoneType ==
  ASSUME TypeInv, ProcessGone
  PROVE  TypeInv'
<1> USE WalTypes, SizeAssumption
<1>1. ControlTypeOK'
  BY ControlType DEF ProcessGone
<1>2. applied' \subseteq Events
  BY BatchInLog DEF ProcessGone, TypeInv, TypeOK
<1>3. feedback' \in Seq(Nat) /\ Len(feedback') = 0
  BY DEF ProcessGone
<1> QED
  BY <1>1, <1>2, <1>3 DEF ProcessGone, TypeInv, TypeOK, CursorsInv, EngineState,
     PipeState, ChannelPending, ChannelCap

\* No step takes a variable out of its type, and the cursors keep their
\* order: one case per action of Next.
LEMMA TypeInvNext == TypeInv /\ [Next]_vars => TypeInv'
<1> SUFFICES ASSUME TypeInv, [Next]_vars PROVE TypeInv'
  OBVIOUS
<1> USE WalTypes, SizeAssumption
      DEF TypeInv, TypeOK, CursorsInv, EngineState, PipeState,
          ChannelPending, ChannelCap, ChannelHasRoom
<1>1. CASE Boot
  BY <1>1 DEF Boot, controlVars, engineVars, pipeVars, durableVars, ControlTypeOK
<1>2. CASE SetupOk
  BY <1>2 DEF SetupOk, controlVars, engineVars, pipeVars, durableVars, ControlTypeOK
<1>3. CASE SetupFail
  BY <1>3 DEF SetupFail, controlVars, engineVars, pipeVars, durableVars, ControlTypeOK
<1>4. CASE FailedSleep
  BY <1>4 DEF FailedSleep, controlVars, engineVars, pipeVars, durableVars, vars, ControlTypeOK
<1>5. CASE Connect
  BY <1>5 DEF Connect, controlVars, engineVars, pipeVars, durableVars, ControlTypeOK, Events
<1>6. CASE ConnectFail
  BY <1>6 DEF ConnectFail, controlVars, engineVars, pipeVars, durableVars, ControlTypeOK
<1>7. CASE EngineTop
  BY <1>7, NextIterationType DEF EngineTop, controlVars, engineVars, pipeVars, durableVars, ControlTypeOK
<1>8. CASE EnginePaused
  BY <1>8 DEF EnginePaused, controlVars, engineVars, pipeVars, durableVars, ControlTypeOK
<1>9. CASE EngineStopped
  BY <1>9 DEF EngineStopped, controlVars, engineVars, pipeVars, durableVars, ControlTypeOK
<1>10. CASE EngineDrained
  BY <1>10 DEF EngineDrained, controlVars, engineVars, pipeVars, durableVars, ControlTypeOK, CdcState
<1>11. CASE EngineShutdown
  BY <1>11 DEF EngineShutdown, controlVars, engineVars, pipeVars, durableVars, ControlTypeOK
<1>12. CASE EngineRecv
  BY <1>12 DEF EngineRecv, controlVars, engineVars, pipeVars, durableVars, ControlTypeOK
<1>13. CASE EngineSend
  BY <1>13 DEF EngineSend, controlVars, engineVars, pipeVars, durableVars, ControlTypeOK
<1>14. CASE StreamEnd
  BY <1>14 DEF StreamEnd, controlVars, engineVars, pipeVars, durableVars, ControlTypeOK
<1>15. CASE KeepaliveQuiet
  BY <1>15 DEF KeepaliveQuiet, controlVars, engineVars, pipeVars, durableVars, ControlTypeOK
<1>16. CASE KeepaliveReply
  <2>1. confirmedFlush' \in Nat
    BY <1>16, PositionsAreNat, SlotMovesToNat DEF KeepaliveReply, KeepaliveLsns
  <2>2. excused' \subseteq Events
    BY <1>16 DEF KeepaliveReply, VouchedFor
  <2> QED
    BY <1>16, <2>1, <2>2 DEF KeepaliveReply, controlVars, engineVars, pipeVars, durableVars, ControlTypeOK
<1>17. CASE KeepaliveReplyFail
  BY <1>17 DEF KeepaliveReplyFail, controlVars, engineVars, pipeVars, durableVars, ControlTypeOK
<1>18. CASE EngineFeedback
  BY <1>18 DEF EngineFeedback, controlVars, engineVars, pipeVars, durableVars, ControlTypeOK
<1>19. CASE SaveOk
  BY <1>19 DEF SaveOk, controlVars, engineVars, pipeVars, durableVars, ControlTypeOK
<1>20. CASE SaveErr
  BY <1>20 DEF SaveErr, controlVars, engineVars, pipeVars, durableVars, ControlTypeOK
<1>21. CASE StatusOk
  <2>1. confirmedFlush' \in Nat
    BY <1>21, SlotMovesToNat DEF StatusOk
  <2> QED
    BY <1>21, <2>1 DEF StatusOk, controlVars, engineVars, pipeVars, durableVars, ControlTypeOK
<1>22. CASE StatusErr
  BY <1>22 DEF StatusErr, controlVars, engineVars, pipeVars, durableVars, ControlTypeOK
<1>23. CASE PipePaused
  BY <1>23, BatchInLog DEF PipePaused, controlVars, engineVars, pipeVars, durableVars, ControlTypeOK
<1>24. CASE PipeTop
  BY <1>24 DEF PipeTop, controlVars, engineVars, pipeVars, durableVars, ControlTypeOK
<1>25. CASE PipeRecv
  BY <1>25 DEF PipeRecv, FillsBatch, controlVars, engineVars, pipeVars, durableVars, ControlTypeOK
<1>26. CASE PipeTick
  BY <1>26, BatchInLog DEF PipeTick, controlVars, engineVars, pipeVars, durableVars, ControlTypeOK
<1>27. CASE PushOk
  <2>1. applied' \subseteq Events /\ excused' \subseteq Events
    BY <1>27, BatchInLog DEF PushOk
  <2> QED
    BY <1>27, <2>1 DEF PushOk, controlVars, engineVars, pipeVars, durableVars, ControlTypeOK
<1>28. CASE PushErr
  <2>1. applied' \subseteq Events /\ excused' \subseteq Events
    BY <1>28, BatchInLog DEF PushErr
  <2> QED
    BY <1>28, <2>1 DEF PushErr, controlVars, engineVars, pipeVars, durableVars, ControlTypeOK
<1>29. CASE FeedbackSend
  <2>1. LastLsn \in Nat
    BY <1>29 DEF FeedbackSend, LastLsn, Events
  <2>2. feedback' \in Seq(Nat) /\ Len(feedback') = Len(feedback) + 1
    BY <1>29, <2>1, AppendProperties DEF FeedbackSend
  <2> QED
    BY <1>29, <2>2 DEF FeedbackSend, FeedbackHasRoom, controlVars, engineVars, pipeVars, durableVars, ControlTypeOK
<1>30. CASE FeedbackClosed
  BY <1>30 DEF FeedbackClosed, controlVars, engineVars, pipeVars, durableVars, ControlTypeOK
<1>31. CASE ProcessExit
  BY <1>31, ProcessGoneType DEF ProcessExit
<1>32. CASE Crash
  BY <1>32, ProcessGoneType DEF Crash
<1>33. CASE Control
  BY <1>33, ControlType DEF Control, controlVars, engineVars, pipeVars, durableVars
<1>34. CASE UNCHANGED vars
  BY <1>34 DEF vars, controlVars, engineVars, pipeVars, durableVars, ControlTypeOK
<1> QED
  BY <1>1, <1>2, <1>3, <1>4, <1>5, <1>6, <1>7, <1>8, <1>9, <1>10, <1>11, <1>12, <1>13, <1>14, <1>15, <1>16, <1>17, <1>18, <1>19, <1>20, <1>21, <1>22, <1>23, <1>24, <1>25, <1>26, <1>27, <1>28, <1>29, <1>30, <1>31, <1>32, <1>33, <1>34 DEF Next, StartUp, EngineWork, EngineSelect, Keepalive, PipeWork, PipeSelect

\* Spec keeps every variable in its type, whatever the log, the capacities
\* and the environment: no queue of the two tasks exceeds its capacity and
\* no cursor overtakes the one before it.
THEOREM TypeCorrectness == Spec => []TypeOK
<1>1. TypeInv => TypeOK
  BY DEF TypeInv
<1> QED
  BY <1>1, TypeInvInit, TypeInvNext, PTL DEF Spec

-----------------------------------------------------------------------------
(* Accounting *)

SafeInv == DeliveredInv /\ FeedbackInv /\ AccountedFor

\* At the start nothing is claimed: all positions are 0.
LEMMA SafeInit == Init => SafeInv
<1> SUFFICES ASSUME Init PROVE SafeInv
  OBVIOUS
<1>1. \A i \in Events : ~(Commit(i) < 0)
  BY WalTypes
<1>2. Len(feedback) = 0
  BY DEF Init
<1> QED
  BY <1>1, <1>2 DEF Init, SafeInv, DeliveredInv, FeedbackInv, AccountedFor, Covered

\* A step that moves no position and no batch cursor, and forgets nothing
\* that was accounted for, keeps every claim good.
LEMMA SafeIfUnmoved ==
  ASSUME SafeInv,
         Accounted \subseteq Accounted',
         UNCHANGED <<taken, cleared, feedback>>,
         UNCHANGED <<confirmed, checkpoint, confirmedFlush>>,
         pipe' = "feedback" => pipe = "feedback"
  PROVE  SafeInv'
<1>1. DeliveredInv'
  BY DEF SafeInv, DeliveredInv
<1>2. FeedbackInv'
  BY CoveredMonotone DEF SafeInv, FeedbackInv
<1>3. AccountedFor'
  BY CoveredMonotone DEF SafeInv, AccountedFor
<1> QED
  BY <1>1, <1>2, <1>3 DEF SafeInv

\* The slot may follow a covered position, or stay where it is.
LEMMA SlotStaysCovered ==
  ASSUME NEW lsn, NEW S, SlotMovesTo(lsn),
         Covered(lsn, S), Covered(confirmedFlush, S)
  PROVE  Covered(confirmedFlush', S)
BY DEF SlotMovesTo, Larger

\* The end of the process adds what StarRocks still applied and forgets the
\* volatile claims.
LEMMA SafeProcessGone ==
  ASSUME TypeInv, SafeInv, ProcessGone
  PROVE  SafeInv'
<1>1. Accounted \subseteq Accounted'
  BY DEF ProcessGone, Accounted
<1>2. \A i \in Events : ~(Commit(i) < 0)
  BY WalTypes
<1>3. AccountedFor'
  BY <1>1, <1>2, CoveredMonotone DEF ProcessGone, SafeInv, AccountedFor, Covered
<1>4. Len(feedback') = 0
  BY DEF ProcessGone
<1>5. FeedbackInv'
  BY <1>4 DEF FeedbackInv
<1>6. DeliveredInv'
  BY DEF ProcessGone, DeliveredInv
<1> QED
  BY <1>3, <1>5, <1>6 DEF SafeInv

\* The steps on which no claim depends.
LEMMA SafeQuiet ==
  ASSUME SafeInv,
         \/ Boot
         \/ SetupOk
         \/ SetupFail
         \/ FailedSleep
         \/ ConnectFail
         \/ EngineTop
         \/ EnginePaused
         \/ EngineStopped
         \/ EngineDrained
         \/ EngineShutdown
         \/ EngineRecv
         \/ EngineSend
         \/ StreamEnd
         \/ KeepaliveQuiet
         \/ KeepaliveReplyFail
         \/ StatusErr
         \/ PipePaused
         \/ PipeTop
         \/ PipeTick
         \/ Control
  PROVE  SafeInv'
<1>1. Accounted' = Accounted /\ UNCHANGED <<taken, cleared, feedback>>
  BY DEF Accounted, controlVars, engineVars, pipeVars, durableVars, vars,
         Boot, SetupOk, SetupFail, FailedSleep, ConnectFail,
         EngineTop, EnginePaused, EngineStopped, EngineDrained, EngineShutdown,
         EngineRecv, EngineSend, StreamEnd, KeepaliveQuiet, KeepaliveReplyFail,
         StatusErr, PipePaused, PipeTop, PipeTick, Control
<1>2. UNCHANGED <<confirmed, checkpoint, confirmedFlush>>
  BY DEF controlVars, engineVars, pipeVars, durableVars, vars,
         Boot, SetupOk, SetupFail, FailedSleep, ConnectFail,
         EngineTop, EnginePaused, EngineStopped, EngineDrained, EngineShutdown,
         EngineRecv, EngineSend, StreamEnd, KeepaliveQuiet, KeepaliveReplyFail,
         StatusErr, PipePaused, PipeTop, PipeTick, Control
<1>3. pipe' = "feedback" => pipe = "feedback"
  BY DEF controlVars, engineVars, pipeVars, durableVars, vars,
         Boot, SetupOk, SetupFail, FailedSleep, ConnectFail,
         EngineTop, EnginePaused, EngineStopped, EngineDrained, EngineShutdown,
         EngineRecv, EngineSend, StreamEnd, KeepaliveQuiet, KeepaliveReplyFail,
         StatusErr, PipePaused, PipeTop, PipeTick, Control
<1> QED
  BY <1>1, <1>2, <1>3, SafeIfUnmoved

\* A batch closes the gap between the two cursors of the pipeline.
LEMMA BatchCloses ==
  ASSUME TypeOK, NEW S, 1..cleared \subseteq S, Batch \subseteq S
  PROVE  1..taken \subseteq S
<1>1. sent \in Nat /\ taken \in 0..sent /\ cleared \in 0..taken
  BY WalTypes DEF TypeOK
<1> QED
  BY <1>1 DEF Batch

\* Every other step keeps the claims good.
LEMMA SafeNext == TypeInv /\ SafeInv /\ [Next]_vars => SafeInv'
<1> SUFFICES ASSUME TypeInv, SafeInv, [Next]_vars PROVE SafeInv'
  OBVIOUS
<1>t. TypeOK /\ CursorsInv
  BY DEF TypeInv
<1>s. DeliveredInv /\ FeedbackInv /\ AccountedFor
  BY DEF SafeInv
<1>1. CASE Connect
  <2>1. Covered(ResumeLsn, Accounted)
    BY <1>s DEF AccountedFor, ResumeLsn, Larger
  <2>2. PICK p \in 0..Len(Wal) : StreamsFrom(p, ResumeLsn) /\ cleared' = p
    BY <1>1 DEF Connect
  <2>3. Accounted' = Accounted /\ UNCHANGED <<checkpoint, confirmedFlush>>
    BY <1>1 DEF Connect, durableVars, Accounted
  <2>4. DeliveredInv'
    BY <1>1, <2>1, <2>2, <2>3, SkippedIsCovered DEF Connect, DeliveredInv
  <2>5. FeedbackInv'
    <3>1. Len(feedback') = 0
      BY <1>1 DEF Connect
    <3> QED
      BY <3>1 DEF FeedbackInv
  <2>6. AccountedFor'
    BY <1>1, <1>s, <2>3 DEF Connect, AccountedFor, Covered
  <2> QED
    BY <2>4, <2>5, <2>6 DEF SafeInv
<1>2. CASE KeepaliveReply
  <2>1. PICK k \in KeepaliveLsns :
          /\ SlotMovesTo(k)
          /\ excused' = excused \cup (VouchedFor(k) \ applied)
    BY <1>2 DEF KeepaliveReply
  <2>2. Accounted \subseteq Accounted'
    BY <1>2, <2>1 DEF KeepaliveReply, Accounted
  <2>3. Covered(k, Accounted')
    BY <1>2, <2>1 DEF KeepaliveReply, Covered, Accounted, VouchedFor
  <2>4. Covered(confirmedFlush', Accounted')
    BY <1>s, <2>1, <2>2, <2>3, SlotStaysCovered, CoveredMonotone DEF AccountedFor
  <2>5. UNCHANGED <<taken, cleared, feedback, confirmed, checkpoint, pipe>>
    BY <1>2 DEF KeepaliveReply, pipeVars
  <2>6. DeliveredInv' /\ FeedbackInv'
    BY <1>s, <2>2, <2>5, CoveredMonotone DEF DeliveredInv, FeedbackInv
  <2> QED
    BY <1>s, <2>2, <2>4, <2>5, <2>6, CoveredMonotone DEF SafeInv, AccountedFor
<1>3. CASE EngineFeedback
  <2>1. /\ UNCHANGED <<taken, cleared, pipe, checkpoint, confirmedFlush>>
        /\ Accounted' = Accounted
    BY <1>3 DEF EngineFeedback, durableVars, Accounted
  <2>2. feedback \in Seq(Nat) /\ feedback # <<>>
    BY <1>3, <1>t DEF EngineFeedback, TypeOK
  <2>3. /\ Len(feedback) \in Nat \ {0}
        /\ Len(feedback') = Len(feedback) - 1
        /\ \A n \in 1..Len(feedback') : feedback'[n] = feedback[n + 1]
        /\ confirmed' = feedback[1]
    BY <1>3, <2>2, HeadTailProperties, EmptySeq, LenProperties DEF EngineFeedback
  <2>4. FeedbackInv'
    BY <1>s, <2>1, <2>3 DEF FeedbackInv
  <2>5. Covered(confirmed', Accounted')
    BY <1>s, <2>1, <2>3 DEF FeedbackInv
  <2> QED
    BY <1>s, <2>1, <2>4, <2>5 DEF SafeInv, DeliveredInv, AccountedFor
<1>4. CASE SaveOk \/ SaveErr
  <2>1. /\ UNCHANGED <<taken, cleared, feedback, pipe, confirmed, confirmedFlush>>
        /\ Accounted' = Accounted
        /\ checkpoint' \in {checkpoint, confirmed}
    BY <1>4 DEF SaveOk, SaveErr, pipeVars, Accounted
  <2> QED
    BY <1>s, <2>1 DEF SafeInv, DeliveredInv, FeedbackInv, AccountedFor
<1>5. CASE StatusOk
  <2>1. /\ UNCHANGED <<taken, cleared, feedback, pipe, confirmed, checkpoint>>
        /\ Accounted' = Accounted
        /\ SlotMovesTo(confirmed)
    BY <1>5 DEF StatusOk, pipeVars, Accounted
  <2>2. Covered(confirmedFlush', Accounted)
    BY <1>s, <2>1, SlotStaysCovered DEF AccountedFor
  <2> QED
    BY <1>s, <2>1, <2>2 DEF SafeInv, DeliveredInv, FeedbackInv, AccountedFor
<1>6. CASE PipeRecv
  <2>1. /\ UNCHANGED <<cleared, feedback, confirmed, checkpoint, confirmedFlush>>
        /\ Accounted' = Accounted
        /\ pipe' # "feedback"
    BY <1>6 DEF PipeRecv, engineVars, durableVars, Accounted
  <2> QED
    BY <1>s, <2>1 DEF SafeInv, DeliveredInv, FeedbackInv, AccountedFor
<1>7. CASE PushOk
  <2>1. /\ UNCHANGED <<taken, cleared, feedback, confirmed, checkpoint, confirmedFlush>>
        /\ Accounted \subseteq Accounted'
        /\ Batch \subseteq Accounted'
    BY <1>7 DEF PushOk, engineVars, Accounted
  <2>2. DeliveredInv'
    BY <1>s, <1>t, <2>1, BatchCloses DEF DeliveredInv
  <2>3. FeedbackInv' /\ AccountedFor'
    BY <1>s, <2>1, CoveredMonotone DEF FeedbackInv, AccountedFor
  <2> QED
    BY <2>2, <2>3 DEF SafeInv
<1>8. CASE PushErr
  <2>1. /\ UNCHANGED <<taken, feedback, confirmed, checkpoint, confirmedFlush>>
        /\ Accounted \subseteq Accounted'
        /\ Batch \subseteq Accounted'
        /\ cleared' = taken /\ pipe' = "top"
    BY <1>8 DEF PushErr, engineVars, Accounted
  <2>2. DeliveredInv'
    BY <1>s, <1>t, <2>1, BatchCloses DEF DeliveredInv
  <2>3. FeedbackInv' /\ AccountedFor'
    BY <1>s, <2>1, CoveredMonotone DEF FeedbackInv, AccountedFor
  <2> QED
    BY <2>2, <2>3 DEF SafeInv
<1>9. CASE FeedbackSend
  <2>1. /\ UNCHANGED <<taken, confirmed, checkpoint, confirmedFlush>>
        /\ Accounted' = Accounted
        /\ cleared' = taken /\ pipe' = "top"
    BY <1>9 DEF FeedbackSend, engineVars, durableVars, Accounted
  <2>2. taken \in Events /\ 1..taken \subseteq Accounted
    BY <1>9, <1>s, <1>t, WalTypes
       DEF FeedbackSend, DeliveredInv, CursorsInv, TypeOK, Events
  <2>3. Covered(LastLsn, Accounted) /\ LastLsn \in Nat
    BY <2>2, CoveredByPrefix, WalTypes DEF LastLsn
  <2>4. /\ Len(feedback) \in Nat /\ Len(feedback') = Len(feedback) + 1
        /\ \A n \in 1..Len(feedback) : feedback'[n] = feedback[n]
        /\ feedback'[Len(feedback) + 1] = LastLsn
    BY <1>9, <1>t, <2>3, AppendProperties, LenProperties DEF FeedbackSend, TypeOK
  <2>5. FeedbackInv'
    BY <1>s, <2>1, <2>3, <2>4 DEF FeedbackInv
  <2> QED
    BY <1>s, <2>1, <2>2, <2>5 DEF SafeInv, DeliveredInv, AccountedFor
<1>10. CASE FeedbackClosed
  <2>1. /\ UNCHANGED <<taken, feedback, confirmed, checkpoint, confirmedFlush>>
        /\ Accounted' = Accounted
        /\ cleared' = taken /\ pipe' = "top" /\ pipe = "feedback"
    BY <1>10 DEF FeedbackClosed, engineVars, durableVars, Accounted
  <2> QED
    BY <1>s, <2>1 DEF SafeInv, DeliveredInv, FeedbackInv, AccountedFor
<1>11. CASE ProcessExit \/ Crash
  BY <1>11, SafeProcessGone DEF ProcessExit, Crash
<1>12. CASE \/ StartUp \/ EngineWork \/ EngineSelect \/ PipeWork \/ PipeSelect
            \/ Control \/ UNCHANGED vars
  <2>1. CASE UNCHANGED vars
    <3>1. Accounted' = Accounted /\ UNCHANGED <<taken, cleared, feedback>>
      BY <2>1 DEF vars, pipeVars, durableVars, Accounted
    <3>2. UNCHANGED <<confirmed, checkpoint, confirmedFlush, pipe>>
      BY <2>1 DEF vars, engineVars, pipeVars, durableVars
    <3> QED
      BY <3>1, <3>2, SafeIfUnmoved
  <2> QED
    BY <1>1, <1>2, <1>3, <1>4, <1>5, <1>6, <1>7, <1>8, <1>9, <1>10, <1>12, <2>1,
       SafeQuiet
       DEF StartUp, EngineWork, EngineSelect, Keepalive, PipeWork, PipeSelect
<1> QED
  BY <1>11, <1>12 DEF Next

\* The inductive invariant holds in every reachable state.
THEOREM Induction == Spec => []InductiveInv
<1>1. Init => TypeInv /\ SafeInv
  BY TypeInvInit, SafeInit
<1>2. TypeInv /\ SafeInv /\ [Next]_vars => (TypeInv /\ SafeInv)'
  BY TypeInvNext, SafeNext
<1>3. TypeInv /\ SafeInv => InductiveInv
  BY DEF TypeInv, SafeInv, InductiveInv
<1> QED
  BY <1>1, <1>2, <1>3, PTL DEF Spec

\* For every log, capacity and environment: a position that is reported,
\* saved or confirmed covers only events that were applied, given up by a
\* failed push or vouched for by a keepalive reply.
THEOREM Accounting == Spec => []AccountedFor
<1>1. InductiveInv => AccountedFor
  BY DEF InductiveInv
<1> QED
  BY <1>1, Induction, PTL

-----------------------------------------------------------------------------
(* At-least-once delivery *)

\* Nothing is excused where pushes do not fail and PostgreSQL asks for no
\* answer to its keepalives.
LEMMA NothingExcused ==
  ASSUME "sink" \notin Env, "reply" \notin Env
  PROVE  Spec => [](excused = {})
<1>1. Init => excused = {}
  BY DEF Init
<1>2. excused = {} /\ [Next]_vars => (excused = {})'
  BY DEF Next, StartUp, EngineWork, EngineSelect, Keepalive, PipeWork, PipeSelect,
     Boot, SetupOk, SetupFail, FailedSleep, Connect, ConnectFail, EngineTop,
     EnginePaused, EngineStopped, EngineDrained, EngineShutdown, EngineRecv,
     EngineSend, StreamEnd, KeepaliveQuiet, KeepaliveReply, KeepaliveReplyFail,
     EngineFeedback, SaveOk, SaveErr, StatusOk, StatusErr, PipePaused, PipeTop,
     PipeRecv, PipeTick, PushOk, PushErr, FeedbackSend, FeedbackClosed,
     ProcessExit, Crash, ProcessGone, Control, vars, durableVars
<1> QED
  BY <1>1, <1>2, PTL DEF Spec

\* There, and whatever else fails, crashes, stops or drains, what a restart
\* would skip has been applied.
THEOREM Delivery ==
  ASSUME "sink" \notin Env, "reply" \notin Env
  PROVE  Spec => []AtLeastOnce
<1>1. AccountedFor /\ excused = {} => AtLeastOnce
  BY DEF AccountedFor, AtLeastOnce, Accounted, Covered, ResumeLsn, Larger
<1> QED
  BY <1>1, Accounting, NothingExcused, PTL

-----------------------------------------------------------------------------
(* The refinement *)

\* A step applies events or moves the start of the stream, never both.
LEMMA AppliesOrMoves ==
  ASSUME TypeOK, TypeOK', [Next]_vars, "reply" \notin Env
  PROVE  \/ UNCHANGED applied
         \/ /\ UNCHANGED <<checkpoint, confirmedFlush>>
            /\ applied \subseteq applied'
<1> QED
  BY DEF Next, StartUp, EngineWork, EngineSelect, Keepalive, PipeWork, PipeSelect,
     Boot, SetupOk, SetupFail, FailedSleep, Connect, ConnectFail, EngineTop,
     EnginePaused, EngineStopped, EngineDrained, EngineShutdown, EngineRecv,
     EngineSend, StreamEnd, KeepaliveQuiet, KeepaliveReply, KeepaliveReplyFail,
     EngineFeedback, SaveOk, SaveErr, StatusOk, StatusErr, PipePaused, PipeTop,
     PipeRecv, PipeTick, PushOk, PushErr, FeedbackSend, FeedbackClosed,
     ProcessExit, Crash, ProcessGone, Control, vars, durableVars

\* Such a step is one of the abstract specification, or changes nothing
\* there, provided that at-least-once delivery holds before and after it.
LEMMA StepRefines ==
  ASSUME TypeOK, TypeOK', AtLeastOnce, AtLeastOnce', [Next]_vars,
         "reply" \notin Env
  PROVE  [Promise!Next]_(Promise!vars)
<1>1. CASE UNCHANGED applied
  <2>1. Skipped' \subseteq applied
    BY <1>1 DEF AtLeastOnce, Covered, Skipped, Events, Commit
  <2> QED
    BY <1>1, <2>1 DEF Promise!Next, Promise!Remember
<1>2. CASE UNCHANGED <<checkpoint, confirmedFlush>> /\ applied \subseteq applied'
  <2>1. UNCHANGED Skipped
    BY <1>2 DEF Skipped, ResumeLsn, Events, Commit
  <2>2. applied' \in SUBSET Events /\ applied' = applied \cup applied'
    BY <1>2 DEF TypeOK, Events
  <2> QED
    BY <2>1, <2>2 DEF Promise!Next, Promise!Deliver
<1> QED
  BY <1>1, <1>2, AppliesOrMoves

\* Replication implements the abstract specification: the start of the stream
\* moves only over events applied before.
THEOREM Refinement ==
  ASSUME "sink" \notin Env, "reply" \notin Env
  PROVE  Spec => KeepsPromise
<1>1. Init => Promise!Init
  <2> SUFFICES ASSUME Init PROVE Skipped = {} /\ applied = {}
    BY DEF Promise!Init
  <2>1. ResumeLsn = 0 /\ applied = {}
    BY DEF Init, ResumeLsn, Larger
  <2> QED
    BY <2>1, WalTypes DEF Skipped
<1>2. TypeOK /\ TypeOK' /\ AtLeastOnce /\ AtLeastOnce' /\ [Next]_vars
        => [Promise!Next]_(Promise!vars)
  BY StepRefines
<1> QED
  BY <1>1, <1>2, TypeCorrectness, Delivery, PTL DEF Spec, KeepsPromise, Promise!Spec

-----------------------------------------------------------------------------
(* Termination requests *)

\* For any number of concurrent calls: no step of a living process leaves
\* Draining and Stopped.
THEOREM Irrevocable == Spec => TerminationIrrevocable
<1>1. [Next]_vars =>
        [engine # "down" /\ state \in Terminating
           => state' \in Terminating \/ engine' = "down"]_vars
  <2> SUFFICES ASSUME [Next]_vars, state \in Terminating
               PROVE  state' \in Terminating \/ engine' = "down"
    OBVIOUS
  <2>1. CASE Control
    <3> PICK c \in Clients : NewCall(c) \/ FinishCall(c, Subscribed)
      BY <2>1 DEF Control
    <3> QED
      BY DEF NewCall, FinishCall, Pause, Resume, CompareAndSetState, DrainCheck,
         DrainStore, StopCheck, StopStore, SendSignal, Terminating
  <2>2. CASE ProcessExit \/ Crash
    BY <2>2 DEF ProcessExit, Crash, ProcessGone
  <2>3. CASE EngineDrained
    BY <2>3 DEF EngineDrained, Terminating
  <2>4. CASE UNCHANGED state
    BY <2>4
  <2>5. \/ Control \/ ProcessExit \/ Crash \/ EngineDrained \/ UNCHANGED state
    BY DEF Next, StartUp, EngineWork, EngineSelect, Keepalive, PipeWork, PipeSelect,
       Boot, SetupOk, SetupFail, FailedSleep, Connect, ConnectFail, EngineTop,
       EnginePaused, EngineStopped, EngineShutdown, EngineRecv, EngineSend,
       StreamEnd, KeepaliveQuiet, KeepaliveReply, KeepaliveReplyFail,
       EngineFeedback, SaveOk, SaveErr, StatusOk, StatusErr, PipePaused, PipeTop,
       PipeRecv, PipeTick, PushOk, PushErr, FeedbackSend, FeedbackClosed,
       vars, controlVars
  <2> QED
    BY <2>1, <2>2, <2>3, <2>4, <2>5
<1> QED
  BY <1>1, PTL DEF Spec, TerminationIrrevocable

\* Where engine and pipeline wait for each other's channel, they do until the
\* process is killed, however large the channels are and whatever is called.
THEOREM LockedUntilKilled == Spec => LockedForGood
<1>1. [Next]_vars => [ChannelsLocked => ChannelsLocked' \/ Crash]_vars
  <2> SUFFICES ASSUME [Next]_vars, ChannelsLocked, ~Crash
               PROVE  UNCHANGED <<engine, pipe, sent, taken, feedback>>
    BY DEF ChannelsLocked, ChannelHasRoom, ChannelPending, FeedbackHasRoom
  <2>1. CASE Control
    BY <2>1 DEF Control, engineVars, pipeVars
  <2>2. CASE UNCHANGED vars
    BY <2>2 DEF vars, engineVars, pipeVars
  <2>3. ~StartUp /\ ~EngineSelect /\ ~PipeSelect /\ ~ProcessExit
    BY DEF ChannelsLocked, StartUp, EngineSelect, Keepalive, PipeSelect, Boot,
       SetupOk, SetupFail, FailedSleep, Connect, ConnectFail, EngineShutdown,
       EngineRecv, EngineFeedback, KeepaliveQuiet, KeepaliveReply,
       KeepaliveReplyFail, StreamEnd, PipeRecv, PipeTick, ProcessExit
  <2>4. ~EngineWork
    BY DEF ChannelsLocked, EngineWork, EngineTop, EnginePaused, EngineStopped,
       EngineDrained, EngineSend, SaveOk, SaveErr, StatusOk, StatusErr
  <2>5. ~PipeWork
    BY DEF ChannelsLocked, PipeWork, PipePaused, PipeTop, PushOk, PushErr,
       FeedbackSend, FeedbackClosed
  <2> QED
    BY <2>1, <2>2, <2>3, <2>4, <2>5 DEF Next
<1> QED
  BY <1>1, PTL DEF Spec, LockedForGood

=============================================================================
