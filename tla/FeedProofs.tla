----------------------------- MODULE FeedProofs -----------------------------
(***************************************************************************)
(* Replication implements BatchFeed, the module that feeds Sink, for every *)
(* log, capacity and environment in which keepalives need no answer.       *)
(***************************************************************************)
EXTENDS ReplicationProofs, Extremes

-----------------------------------------------------------------------------
(* Where PostgreSQL starts *)

\* Every position has a place in the log where a stream from it starts.
LEMMA StartExists ==
  ASSUME NEW start \in Nat
  PROVE  \E p \in 0..Len(Wal) : StreamsFrom(p, start)
<1> USE WalTypes
<1> DEFINE S == {i \in 0..Len(Wal) : i = 0 \/ Commit(i) < start}
<1>1. \E p \in S : \A i \in S : i =< p
  <2>1. S \in SUBSET (0..Len(Wal)) /\ 0 \in S
    OBVIOUS
  <2> HIDE DEF S
  <2> QED
    BY <2>1, Greatest
<1>2. PICK p \in S : \A i \in S : i =< p
  BY <1>1
<1>3. ASSUME NEW i \in 1..p PROVE Commit(i) < start
  <2>1. p \in 1..Len(Wal) /\ i \in 1..Len(Wal) /\ Commit(p) < start
    BY <1>2
  <2>2. Commit(i) \in Nat /\ Commit(p) \in Nat
    BY <2>1 DEF Events
  <2>3. Commit(i) =< Commit(p)
    <3>1. CASE i = p
      BY <2>2, <3>1
    <3>2. CASE i # p
      <4>1. i < p
        BY <1>3, <3>2
      <4> QED
        BY <2>1, <4>1, WalAssumption DEF Commit
    <3> QED
      BY <3>1, <3>2
  <2> QED
    BY <2>1, <2>2, <2>3
<1>4. ASSUME NEW i \in (p + 1)..Len(Wal) PROVE start =< Commit(i)
  <2>1. i \in 1..Len(Wal) /\ i \notin S
    BY <1>2
  <2> QED
    BY <2>1 DEF Events
<1> QED
  BY <1>2, <1>3, <1>4 DEF StreamsFrom

\* ... and only one.
LEMMA StartUnique ==
  ASSUME NEW start \in Nat,
         NEW p \in 0..Len(Wal), StreamsFrom(p, start),
         NEW q \in 0..Len(Wal), StreamsFrom(q, start)
  PROVE  p = q
<1>1. ASSUME NEW a \in 0..Len(Wal), StreamsFrom(a, start),
             NEW b \in 0..Len(Wal), StreamsFrom(b, start), a < b
      PROVE  FALSE
  <2>1. b \in 1..b /\ b \in (a + 1)..Len(Wal) /\ Commit(b) \in Nat
    BY <1>1, WalTypes DEF Events
  <2> QED
    BY <1>1, <2>1 DEF StreamsFrom
<1> QED
  BY <1>1, WalTypes

\* It lies between two transactions.
LEMMA StartIsBoundary ==
  ASSUME NEW start \in Nat, NEW p \in 0..Len(Wal), StreamsFrom(p, start)
  PROVE  p \in Boundaries
<1>1. CASE p = 0 \/ p = Len(Wal)
  BY <1>1 DEF Boundaries
<1>2. CASE p # 0 /\ p # Len(Wal)
  <2>1. p \in 1..p /\ p + 1 \in (p + 1)..Len(Wal) /\ p \in Events /\ p + 1 \in Events
    BY <1>2, WalTypes DEF Events
  <2>2. Commit(p) < start /\ start =< Commit(p + 1)
    BY <2>1 DEF StreamsFrom
  <2> QED
    BY <2>1, <2>2, WalTypes DEF Boundaries
<1> QED
  BY <1>1, <1>2

\* The place where the stream would start now.
LEMMA ResumePointStarts ==
  ASSUME TypeOK
  PROVE  /\ ResumePoint \in 0..Len(Wal)
         /\ StreamsFrom(ResumePoint, ResumeLsn)
         /\ ResumePoint \in Boundaries
         /\ \A p \in 0..Len(Wal) : StreamsFrom(p, ResumeLsn) => p = ResumePoint
<1>1. ResumeLsn \in Nat
  BY DEF TypeOK, ResumeLsn, Larger
<1>2. ResumePoint \in 0..Len(Wal) /\ StreamsFrom(ResumePoint, ResumeLsn)
  BY <1>1, StartExists DEF ResumePoint
<1> QED
  BY <1>1, <1>2, StartUnique, StartIsBoundary

-----------------------------------------------------------------------------
(* What was passed *)

\* The engine is in its main loop only while a pipeline runs, and connects
\* only when none does.
RunsInv ==
  /\ Subscribed => pipe # "none"
  /\ engine \in {"down", "setup", "failed", "connect"} => pipe = "none"

FeedInv == TypeInv /\ RunsInv /\ PassedInv

\* The steps that are no move of the pipeline and no start or end of one.
\* Without a pipeline they leave the stored positions alone.
EngineMoves ==
  /\ UNCHANGED <<pipe, taken, cleared>>
  /\ pipe = "none" => UNCHANGED <<checkpoint, confirmedFlush>>

LEMMA Moves ==
  ASSUME RunsInv, [Next]_vars, "reply" \notin Env
  PROVE  \/ Connect \/ ProcessExit \/ Crash
         \/ PipePaused \/ PipeTop \/ PipeRecv \/ PipeTick
         \/ PushOk \/ PushErr \/ FeedbackSend \/ FeedbackClosed
         \/ EngineMoves
BY DEF RunsInv, Subscribed, EngineMoves,
   Next, StartUp, EngineWork, EngineSelect, Keepalive, PipeWork, PipeSelect,
   Boot, SetupOk, SetupFail, FailedSleep, ConnectFail, EngineTop,
   EnginePaused, EngineStopped, EngineDrained, EngineShutdown, EngineRecv,
   EngineSend, StreamEnd, KeepaliveQuiet, KeepaliveReply, KeepaliveReplyFail,
   EngineFeedback, SaveOk, SaveErr, StatusOk, StatusErr,
   Control, vars, pipeVars, durableVars

LEMMA RunsNext == RunsInv /\ [Next]_vars => RunsInv'
BY DEF RunsInv, Subscribed, Next, StartUp, EngineWork, EngineSelect, Keepalive,
   PipeWork, PipeSelect, Boot, SetupOk, SetupFail, FailedSleep, Connect,
   ConnectFail, EngineTop, EnginePaused, EngineStopped, EngineDrained,
   EngineShutdown, EngineRecv, EngineSend, StreamEnd, KeepaliveQuiet,
   KeepaliveReply, KeepaliveReplyFail, EngineFeedback, SaveOk, SaveErr, StatusOk,
   StatusErr, PipePaused, PipeTop, PipeRecv, PipeTick, PushOk, PushErr,
   FeedbackSend, FeedbackClosed, ProcessExit, Crash, ProcessGone, Control,
   vars, engineVars, pipeVars

\* A step that moves no position, and the batch cursor at most to the end of
\* the batch.
LEMMA PassedIfUnmoved ==
  ASSUME TypeOK, PassedInv, pipe' = "none" \/ pipe # "none",
         UNCHANGED <<confirmed, checkpoint, confirmedFlush, feedback>>,
         cleared' = cleared \/ cleared' = taken
  PROVE  PassedInv'
<1>1. 1..cleared \subseteq 1..cleared'
  BY WalTypes DEF TypeOK
<1> QED
  BY <1>1, CoveredMonotone DEF PassedInv

LEMMA PassedNext ==
  ASSUME TypeInv, PassedInv, [Next]_vars, "reply" \notin Env
  PROVE  PassedInv'
<1>t. TypeOK /\ CursorsInv
  BY DEF TypeInv
<1> SUFFICES ASSUME pipe' # "none" PROVE PassedInv'
  BY DEF PassedInv
<1>1. CASE Connect
  <2>1. PICK p \in 0..Len(Wal) : StreamsFrom(p, ResumeLsn) /\ cleared' = p
    BY <1>1 DEF Connect
  <2>2. /\ confirmed' = checkpoint /\ Len(feedback') = 0
        /\ UNCHANGED <<checkpoint, confirmedFlush>>
    BY <1>1 DEF Connect, durableVars
  <2>3. /\ ResumeLsn \in Nat /\ checkpoint \in Nat /\ confirmedFlush \in Nat
        /\ checkpoint =< ResumeLsn /\ confirmedFlush =< ResumeLsn
    BY <1>t DEF TypeOK, ResumeLsn, Larger
  <2>4. ASSUME NEW i \in Events, Commit(i) < ResumeLsn PROVE i \in 1..p
    <3>1. ~(i \in (p + 1)..Len(Wal))
      BY <2>1, <2>3, <2>4, WalTypes DEF StreamsFrom
    <3> QED
      BY <3>1, WalTypes DEF Events
  <2>5. Covered(checkpoint, 1..p) /\ Covered(confirmedFlush, 1..p)
    BY <2>3, <2>4, WalTypes DEF Covered
  <2> QED
    BY <2>1, <2>2, <2>5 DEF PassedInv
<1>2. CASE EngineFeedback
  <2>1. UNCHANGED <<cleared, pipe, checkpoint, confirmedFlush>>
    BY <1>2 DEF EngineFeedback, durableVars
  <2>2. feedback \in Seq(Nat) /\ feedback # <<>>
    BY <1>2, <1>t DEF EngineFeedback, TypeOK
  <2>3. /\ Len(feedback) \in Nat \ {0}
        /\ Len(feedback') = Len(feedback) - 1
        /\ \A n \in 1..Len(feedback') : feedback'[n] = feedback[n + 1]
        /\ confirmed' = feedback[1]
    BY <1>2, <2>2, HeadTailProperties, EmptySeq, LenProperties DEF EngineFeedback
  <2> QED
    BY <2>1, <2>3 DEF PassedInv
<1>3. CASE SaveOk \/ SaveErr
  <2>1. /\ UNCHANGED <<cleared, feedback, pipe, confirmed, confirmedFlush>>
        /\ checkpoint' \in {checkpoint, confirmed}
    BY <1>3 DEF SaveOk, SaveErr, pipeVars
  <2> QED
    BY <2>1 DEF PassedInv
<1>4. CASE StatusOk
  <2>1. /\ UNCHANGED <<cleared, feedback, pipe, confirmed, checkpoint>>
        /\ SlotMovesTo(confirmed)
    BY <1>4 DEF StatusOk, pipeVars
  <2>2. pipe # "none" => Covered(confirmedFlush', 1..cleared)
    BY <2>1, SlotStaysCovered DEF PassedInv
  <2> QED
    BY <2>1, <2>2 DEF PassedInv
<1>5. CASE FeedbackSend
  <2>1. /\ UNCHANGED <<taken, confirmed, checkpoint, confirmedFlush>>
        /\ cleared' = taken /\ pipe = "feedback"
    BY <1>5 DEF FeedbackSend, engineVars, durableVars
  <2>2. taken \in Events
    BY <1>t, <2>1, WalTypes DEF CursorsInv, TypeOK, Events
  <2>3. Covered(LastLsn, 1..taken) /\ LastLsn \in Nat
    BY <2>2, CoveredByPrefix, WalTypes DEF LastLsn
  <2>4. /\ Len(feedback) \in Nat /\ Len(feedback') = Len(feedback) + 1
        /\ \A n \in 1..Len(feedback) : feedback'[n] = feedback[n]
        /\ feedback'[Len(feedback) + 1] = LastLsn
    BY <1>5, <1>t, <2>3, AppendProperties, LenProperties DEF FeedbackSend, TypeOK
  <2>5. 1..cleared \subseteq 1..taken
    BY <1>t, WalTypes DEF TypeOK
  <2>6. /\ Covered(confirmed, 1..taken) /\ Covered(checkpoint, 1..taken)
        /\ Covered(confirmedFlush, 1..taken)
        /\ \A n \in 1..Len(feedback) : Covered(feedback[n], 1..taken)
    BY <2>1, <2>5, CoveredMonotone DEF PassedInv
  <2>7. \A n \in 1..Len(feedback') : Covered(feedback'[n], 1..taken)
    BY <2>3, <2>4, <2>6
  <2> QED
    BY <2>1, <2>6, <2>7 DEF PassedInv
<1>6. CASE ProcessExit \/ Crash
  BY <1>6 DEF ProcessExit, Crash, ProcessGone
<1>7. CASE /\ ~(Connect \/ EngineFeedback \/ SaveOk \/ SaveErr \/ StatusOk)
           /\ ~(FeedbackSend \/ ProcessExit \/ Crash)
  <2>1. /\ UNCHANGED <<confirmed, checkpoint, confirmedFlush, feedback>>
        /\ cleared' = cleared \/ cleared' = taken
        /\ pipe # "none"
    BY <1>7
       DEF Next, StartUp, EngineWork, EngineSelect, Keepalive, PipeWork, PipeSelect,
       Boot, SetupOk, SetupFail, FailedSleep, ConnectFail, EngineTop,
       EnginePaused, EngineStopped, EngineDrained, EngineShutdown, EngineRecv,
       EngineSend, StreamEnd, KeepaliveQuiet, KeepaliveReply, KeepaliveReplyFail,
       StatusErr, PipePaused, PipeTop, PipeRecv, PipeTick, PushOk, PushErr,
       FeedbackClosed, Control, vars, engineVars, pipeVars, durableVars
  <2> QED
    BY <1>t, <2>1, PassedIfUnmoved
<1> QED
  BY <1>1, <1>2, <1>3, <1>4, <1>5, <1>6, <1>7

\* Every position stands for messages passed, in every reachable state.
LEMMA PassedAlways ==
  ASSUME "reply" \notin Env
  PROVE  Spec => []FeedInv
<1>1. Init => FeedInv
  BY TypeInvInit DEF FeedInv, Init, RunsInv, Subscribed, PassedInv
<1>2. FeedInv /\ [Next]_vars => FeedInv'
  BY TypeInvNext, RunsNext, PassedNext DEF FeedInv
<1> QED
  BY <1>1, <1>2, PTL DEF Spec

-----------------------------------------------------------------------------
(* The refinement *)

\* The start of the stream lies at messages passed.
LEMMA ResumesAtPassed ==
  ASSUME TypeOK, PassedInv, pipe # "none"
  PROVE  ResumePoint =< cleared
<1>1. /\ ResumePoint \in 0..Len(Wal) /\ StreamsFrom(ResumePoint, ResumeLsn)
      /\ cleared \in Nat
  BY ResumePointStarts, WalTypes DEF TypeOK
<1>2. Covered(ResumeLsn, 1..cleared)
  BY DEF PassedInv, ResumeLsn, Larger
<1>3. 1..ResumePoint \subseteq 1..cleared
  BY <1>1, <1>2, SkippedIsCovered
<1> QED
  BY <1>1, <1>3, WalTypes

\* It stays where it is while the stored positions do.
LEMMA ResumePointStays ==
  ASSUME UNCHANGED <<checkpoint, confirmedFlush>>
  PROVE  ResumePoint' = ResumePoint
BY DEF ResumePoint, ResumeLsn, StreamsFrom, Commit

\* The batch that is pushed, and where it begins.
LEMMA FeedStep ==
  ASSUME FeedInv, FeedInv', [Next]_vars, "reply" \notin Env
  PROVE  [Feed!Next]_(Feed!vars)
<1>t. TypeOK /\ CursorsInv /\ RunsInv /\ PassedInv
  BY DEF FeedInv, TypeInv
<1>n. /\ Len(Wal) \in Nat /\ cleared \in Nat /\ taken \in Nat
      /\ cleared =< taken /\ taken =< Len(Wal) /\ taken - cleared =< FlushSize
      /\ FlushSize \in Nat
  BY <1>t, WalTypes, SizeAssumption DEF TypeOK
<1>1. CASE Connect
  <2>1. pipe = "none" /\ pipe' = "top"
    BY <1>1, <1>t DEF Connect, RunsInv
  <2>2. cleared' = ResumePoint
    BY <1>1, <1>t, ResumePointStarts DEF Connect
  <2> QED
    BY <2>1, <2>2 DEF Passed, BatchEnd, Feed!vars
<1>2. CASE ProcessExit \/ Crash
  <2>1. pipe' = "none" /\ UNCHANGED <<checkpoint, confirmedFlush>>
    BY <1>2 DEF ProcessExit, Crash, ProcessGone
  <2>2. Passed' = ResumePoint /\ BatchEnd' = ResumePoint
    BY <2>1, ResumePointStays DEF Passed, BatchEnd
  <2>3. CASE pipe = "none"
    BY <2>2, <2>3 DEF Passed, BatchEnd, Feed!vars
  <2>4. CASE pipe # "none"
    <3>1. ResumePoint \in Boundaries /\ ResumePoint =< cleared
      BY <1>t, <2>4, ResumePointStarts, ResumesAtPassed
    <3> QED
      BY <2>2, <2>4, <3>1 DEF Passed, Feed!Next, Feed!Restart
  <2> QED
    BY <2>3, <2>4
<1>3. CASE EngineMoves
  <2>1. UNCHANGED <<pipe, taken, cleared>>
    BY <1>3 DEF EngineMoves
  <2>2. pipe = "none" => ResumePoint' = ResumePoint
    BY <1>3, ResumePointStays DEF EngineMoves
  <2> QED
    BY <2>1, <2>2 DEF Passed, BatchEnd, Feed!vars
\* A batch is closed.
<1>4. ASSUME pipe \in {"top", "select"}, pipe' = "push", cleared' = cleared,
             cleared < taken', taken' \in Nat, taken' =< Len(Wal),
             taken' - cleared =< FlushSize
      PROVE  Feed!Next
  <2>1. Passed = cleared /\ BatchEnd = cleared /\ Passed' = cleared /\ BatchEnd' = taken'
    BY <1>4 DEF Passed, BatchEnd
  <2>2. PICK t \in Nat : t = taken' /\ cleared < t /\ t =< Len(Wal) /\ t - cleared =< FlushSize
    BY <1>4
  <2>3. \E n \in 1..FlushSize : cleared + n =< Len(Wal) /\ t = cleared + n
    <3>1. cleared \in Nat /\ FlushSize \in Nat /\ t \in Nat
      BY <1>n
    <3>2. cleared < t /\ t - cleared =< FlushSize
      BY <2>2
    <3>3. t - cleared \in 1..FlushSize
      BY <3>1, <3>2
    <3>4. cleared + (t - cleared) = t
      BY <3>1
    <3> QED
      BY <2>2, <3>3, <3>4
  <2> QED
    BY <2>1, <2>2, <2>3 DEF Feed!Next, Feed!Take
\* No batch is closed.
<1>5. ASSUME pipe \in {"top", "select"}, pipe' \in {"top", "select"}, cleared' = cleared
      PROVE  UNCHANGED Feed!vars
  BY <1>5 DEF Passed, BatchEnd, Feed!vars
<1>6. CASE PipePaused \/ PipeTop \/ PipeTick
  <2>1. /\ pipe \in {"top", "select"} /\ UNCHANGED <<taken, cleared>>
        /\ \/ pipe' = "push" /\ Batch # {}
           \/ pipe' \in {"top", "select"}
    BY <1>6 DEF PipePaused, PipeTop, PipeTick
  <2>2. Batch # {} => cleared < taken
    BY <1>t, BatchInLog
  <2> QED
    BY <1>n, <1>4, <1>5, <2>1, <2>2
<1>7. CASE PipeRecv
  <2>1. /\ pipe = "select" /\ pipe' \in {"push", "top"}
        /\ taken' = taken + 1 /\ cleared' = cleared /\ taken < sent
    BY <1>7 DEF PipeRecv
  <2>2. taken + 1 =< Len(Wal)
    BY <1>t, <2>1, WalTypes DEF TypeOK
  <2>3. taken + 1 - cleared =< FlushSize
    BY <1>n, <1>t, <2>1 DEF CursorsInv
  <2> QED
    BY <1>n, <1>4, <1>5, <2>1, <2>2, <2>3
\* A batch is passed.
<1>8. CASE PushErr \/ FeedbackSend \/ FeedbackClosed
  <2>1. pipe \in {"push", "feedback"} /\ pipe' = "top" /\ cleared' = taken
    BY <1>8 DEF PushErr, FeedbackSend, FeedbackClosed
  <2> QED
    BY <2>1 DEF Passed, BatchEnd, Feed!Next, Feed!Pass
<1>9. CASE PushOk
  <2>1. pipe = "push" /\ pipe' = "feedback" /\ UNCHANGED <<taken, cleared>>
    BY <1>9 DEF PushOk
  <2> QED
    BY <2>1 DEF Passed, BatchEnd, Feed!vars
<1> QED
  BY <1>t, <1>1, <1>2, <1>3, <1>6, <1>7, <1>8, <1>9, Moves

\* Where keepalives need no answer the sink is fed as BatchFeed says, whatever
\* fails, crashes, stops or drains: nothing PostgreSQL would not send again
\* was not passed.
THEOREM FeedsSink ==
  ASSUME "reply" \notin Env
  PROVE  Spec => FeedsBatches
<1>1. Init => Feed!Init
  <2> SUFFICES ASSUME Init PROVE Passed = 0 /\ BatchEnd = 0
    BY DEF Feed!Init
  <2>1. TypeOK /\ pipe = "none" /\ ResumeLsn = 0
    BY TypeInvInit DEF Init, TypeInv, ResumeLsn, Larger
  <2>2. StreamsFrom(0, 0) /\ 0 \in 0..Len(Wal)
    BY WalTypes DEF StreamsFrom, Events
  <2>3. ResumePoint = 0
    BY <2>1, <2>2, ResumePointStarts
  <2> QED
    BY <2>1, <2>3 DEF Passed, BatchEnd
<1>2. FeedInv /\ FeedInv' /\ [Next]_vars => [Feed!Next]_(Feed!vars)
  BY FeedStep
<1> QED
  BY <1>1, <1>2, PassedAlways, PTL DEF Spec, FeedsBatches, Feed!Spec

-----------------------------------------------------------------------------
(* Draining *)

\* An engine that leaves because the channel is empty leaves nothing behind
\* but the batch that the pipeline holds.
THEOREM DrainLeavesBatch == Spec => DrainEmptiesChannel
<1>1. InductiveInv /\ [Next]_vars =>
        [engine = "top" /\ engine' = "returned" /\ state = "Draining"
           => \A i \in 1..sent : i \in Accounted \cup Batch]_vars
  <2> SUFFICES ASSUME InductiveInv, [Next]_vars, engine = "top", engine' = "returned",
                      state = "Draining", NEW i \in 1..sent
               PROVE  i \in Accounted \cup Batch
    OBVIOUS
  <2>1. EngineDrained
    BY DEF Next, StartUp, EngineWork, EngineSelect, Keepalive, PipeWork, PipeSelect,
       Boot, SetupOk, SetupFail, FailedSleep, Connect, ConnectFail, EngineTop,
       EnginePaused, EngineStopped, EngineShutdown, EngineRecv, EngineSend,
       StreamEnd, KeepaliveQuiet, KeepaliveReply, KeepaliveReplyFail,
       EngineFeedback, SaveOk, SaveErr, StatusOk, StatusErr, PipePaused, PipeTop,
       PipeRecv, PipeTick, PushOk, PushErr, FeedbackSend, FeedbackClosed,
       ProcessExit, Crash, ProcessGone, Control, vars, engineVars
  <2>2. /\ sent \in Nat /\ taken \in 0..sent /\ cleared \in 0..taken
        /\ 1..cleared \subseteq Accounted
    BY WalTypes DEF InductiveInv, TypeOK, DeliveredInv
  <2>3. sent = taken
    BY <2>1, <2>2 DEF EngineDrained, ChannelPending
  <2> QED
    BY <2>2, <2>3 DEF Batch
<1> QED
  BY <1>1, Induction, PTL DEF Spec, DrainEmptiesChannel

=============================================================================
