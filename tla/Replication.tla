---------------------------- MODULE Replication -----------------------------
(***************************************************************************)
(* How dbmazz moves the WAL of one PostgreSQL slot into StarRocks and      *)
(* remembers how far it got:                                               *)
(*                                                                         *)
(*   PostgreSQL --stream--> engine --channel--> pipeline --push--> sink    *)
(*       ^                    |  ^                  |                      *)
(*       |                    |  +---- feedback ----+                      *)
(*       +-- status update ---+--> dbmazz_checkpoints                      *)
(*                                                                         *)
(* The engine (src/engine/mod.rs, src/replication/wal_handler.rs) and the  *)
(* pipeline (src/pipeline/mod.rs) are two tokio tasks of one process, which*)
(* may crash at any step and is restarted.  Each has a program counter;    *)
(* every await at which the other task, an RPC or a crash can intervene is *)
(* the boundary of an action.                                              *)
(*                                                                         *)
(* The log is a constant.  Between engine and pipeline everything is in    *)
(* log order, so queues of events are intervals of log indices:            *)
(*                                                                         *)
(*   1 .. cleared .. taken .. sent .. Len(Wal)                             *)
(*         | batch ..  | channel |                                         *)
(***************************************************************************)
EXTENDS ControlPlane, Naturals, Sequences

CONSTANTS
  Wal,           \* the messages the slot streams, in stream order
  FlushSize,     \* Config.flush_size: events per batch
  FeedbackCap,   \* capacity of the feedback channel (100 in the code)
  CheckEvery,    \* loop iterations per look at the state (256 in the code)
  Env            \* what the environment may do besides working: see below

(***************************************************************************)
(* lsn is the position a message carries in its XLogData header, commit    *)
(* the position of the commit record of its transaction.  PostgreSQL       *)
(* streams whole transactions in commit order; every change precedes the   *)
(* commit record of its transaction, and the Commit message carries the    *)
(* end of that record, which no later transaction's commit precedes.       *)
(* Transactions that overlapped in time make lsn go back and forth.        *)
(***************************************************************************)
Message == [lsn : Nat, commit : Nat]

ASSUME WalAssumption ==
  /\ Wal \in Seq(Message)
  /\ \A i, j \in 1..Len(Wal) :
       i < j => /\ Wal[i].commit =< Wal[j].commit
                /\ Wal[i].lsn =< Wal[j].commit

ASSUME SizeAssumption ==
  /\ FlushSize \in Nat \ {0}
  /\ FeedbackCap \in Nat \ {0}
  /\ CheckEvery \in Nat \ {0}

ASSUME EnvAssumption ==
  Env \subseteq {"sink",     \* Stream Load may fail, after any of its groups
                 "store",    \* saving the checkpoint may fail
                 "stream",   \* the connection to PostgreSQL may fail
                 "reply",    \* PostgreSQL asks for an answer to a keepalive
                 "setup",    \* the automatic setup may fail
                 "crash"}    \* the process may be killed

VARIABLES
  engine,          \* program counter of CdcEngine::run
  iteration,       \* iteration & 0xFF of the main loop
  sent,            \* log index of the last event put in the channel
  confirmed,       \* SharedState.confirmed_lsn
  pipe,            \* program counter of Pipeline::run
  taken,           \* log index of the last event the pipeline received
  cleared,         \* log index of the last event no longer in the batch
  feedback,        \* the feedback channel: LSNs
  checkpoint,      \* the row of dbmazz_checkpoints (durable)
  confirmedFlush,  \* confirmed_flush_lsn of the slot (durable, PostgreSQL)
  applied,         \* events StarRocks has applied (durable)
  excused          \* history: events given up by a failed push or vouched
                   \* for by a keepalive reply without being applied

engineVars  == <<engine, iteration, sent, confirmed>>
pipeVars    == <<pipe, taken, cleared, feedback>>
durableVars == <<checkpoint, confirmedFlush, applied, excused>>
vars        == <<controlVars, engineVars, pipeVars, durableVars>>

Events    == 1..Len(Wal)
Lsn(i)    == Wal[i].lsn
Commit(i) == Wal[i].commit
Positions == {Lsn(i) : i \in Events} \cup {Commit(i) : i \in Events}

Larger(a, b) == IF a < b THEN b ELSE a

EngineState == {"down", "setup", "failed", "connect", "top", "select",
                "send", "save", "status", "returned"}
PipeState   == {"none", "top", "select", "push", "feedback"}

\* run_main_loop holds a receiver of the shutdown channel.
Subscribed == engine \in {"top", "select", "send", "save", "status"}

Batch          == (cleared + 1)..taken
ChannelCap     == 2 * FlushSize
ChannelPending == sent - taken

ChannelHasRoom == ChannelPending < ChannelCap

FeedbackHasRoom == Len(feedback) < FeedbackCap

\* Each task waits for room in the channel that the other would empty: only
\* the end of the process gets them apart.
ChannelsLocked ==
  /\ engine = "send" /\ ~ChannelHasRoom
  /\ pipe = "feedback" /\ ~FeedbackHasRoom

\* What PostgreSQL streams from when asked for a start position: it never
\* goes back behind the slot.
ResumeLsn == Larger(checkpoint, confirmedFlush)

Init ==
  /\ ControlInit
  /\ engine = "down" /\ iteration = 0 /\ sent = 0 /\ confirmed = 0
  /\ pipe = "none" /\ taken = 0 /\ cleared = 0 /\ feedback = <<>>
  /\ checkpoint = 0 /\ confirmedFlush = 0
  /\ applied = {} /\ excused = {}

-----------------------------------------------------------------------------
(* Start-up *)

Boot ==
  /\ engine = "down"
  /\ engine' = "setup"
  /\ UNCHANGED <<controlVars, iteration, sent, confirmed, pipeVars, durableVars>>

SetupOk ==
  /\ engine = "setup"
  /\ engine' = "connect"
  /\ UNCHANGED <<controlVars, iteration, sent, confirmed, pipeVars, durableVars>>

SetupFail ==
  /\ "setup" \in Env
  /\ engine = "setup"
  /\ engine' = "failed"
  /\ UNCHANGED <<controlVars, iteration, sent, confirmed, pipeVars, durableVars>>

\* The engine sleeps, for ever, so that the gRPC server can report why.
FailedSleep ==
  /\ engine = "failed"
  /\ UNCHANGED vars

\* Whole transactions whose commit precedes the start position are skipped.
StreamsFrom(p, start) ==
  /\ \A i \in 1..p : Commit(i) < start
  /\ \A i \in (p + 1)..Len(Wal) : start =< Commit(i)

\* load_checkpoint, START_REPLICATION, the channels, the pipeline task and
\* the subscription to the shutdown signal.  Nothing else touches what these
\* awaits read.
Connect ==
  /\ engine = "connect"
  /\ engine' = "top"
  /\ iteration' = 0
  /\ confirmed' = checkpoint
  /\ \E p \in 0..Len(Wal) :
       /\ StreamsFrom(p, ResumeLsn)
       /\ sent' = p /\ taken' = p /\ cleared' = p
  /\ pipe' = "top"
  /\ feedback' = <<>>
  /\ UNCHANGED <<controlVars, durableVars>>

\* run() gives up with an error: main returns.
ConnectFail ==
  /\ "stream" \in Env
  /\ engine = "connect"
  /\ engine' = "returned"
  /\ UNCHANGED <<controlVars, iteration, sent, confirmed, pipeVars, durableVars>>

-----------------------------------------------------------------------------
(* The main loop of the engine *)

NextIteration == (iteration + 1) % CheckEvery

\* check_state_control_sync runs in one iteration out of CheckEvery.
EngineTop ==
  /\ engine = "top"
  /\ \/ NextIteration # 0
     \/ state = "Running"
     \/ state = "Draining" /\ ChannelPending # 0
  /\ iteration' = NextIteration
  /\ engine' = "select"
  /\ UNCHANGED <<controlVars, sent, confirmed, pipeVars, durableVars>>

\* Sleep and `continue`: the next iteration is not one that looks, so the
\* engine goes on reading the stream while it is paused.
EnginePaused ==
  /\ engine = "top"
  /\ NextIteration = 0
  /\ state = "Paused"
  /\ iteration' = 0
  /\ UNCHANGED <<controlVars, engine, sent, confirmed, pipeVars, durableVars>>

\* Mutant: the loop relies on the shutdown signal alone.
EngineIgnoresStopped == FALSE

EngineStopped ==
  /\ engine = "top"
  /\ NextIteration = 0
  /\ state = "Stopped"
  /\ engine' = "returned"
  /\ UNCHANGED <<controlVars, iteration, sent, confirmed, pipeVars, durableVars>>

\* Mutant: the look at the state does not ask for the channel.
EngineDrainedUnchecked ==
  /\ engine = "top"
  /\ NextIteration = 0
  /\ state = "Draining"
  /\ state' = "Stopped"
  /\ engine' = "returned"
  /\ UNCHANGED <<shutdown, call, iteration, sent, confirmed, pipeVars, durableVars>>

\* Drained means that the channel is empty: the batch is not looked at.
EngineDrained ==
  /\ engine = "top"
  /\ NextIteration = 0
  /\ state = "Draining"
  /\ ChannelPending = 0
  /\ state' = "Stopped"
  /\ engine' = "returned"
  /\ UNCHANGED <<shutdown, call, iteration, sent, confirmed, pipeVars, durableVars>>

EngineShutdown ==
  /\ engine = "select"
  /\ shutdown
  /\ engine' = "returned"
  /\ UNCHANGED <<controlVars, iteration, sent, confirmed, pipeVars, durableVars>>

\* An XLogData message was read and parsed; tx.send(event) waits for room.
EngineRecv ==
  /\ engine = "select"
  /\ sent < Len(Wal)
  /\ engine' = "send"
  /\ UNCHANGED <<controlVars, iteration, sent, confirmed, pipeVars, durableVars>>

EngineSend ==
  /\ engine = "send"
  /\ ChannelHasRoom
  /\ sent' = sent + 1
  /\ engine' = "top"
  /\ UNCHANGED <<controlVars, iteration, confirmed, pipeVars, durableVars>>

\* The stream ended or failed: the loop is left.
StreamEnd ==
  /\ "stream" \in Env
  /\ engine = "select"
  /\ engine' = "returned"
  /\ UNCHANGED <<controlVars, iteration, sent, confirmed, pipeVars, durableVars>>

\* Some PostgreSQL versions let a status update move the slot back.
SlotMovesTo(lsn) ==
  confirmedFlush' \in {lsn, Larger(lsn, confirmedFlush)}

\* A keepalive carries how far the server has read its WAL: not beyond the
\* commit record of a transaction it has still to finish sending.  How far
\* back it may lie is left open: a smaller position vouches for less.
KeepaliveLsns ==
  {k \in Positions : \A i \in (sent + 1)..Len(Wal) : k =< Commit(i)}

KeepaliveQuiet ==
  /\ engine = "select"
  /\ engine' = "top"
  /\ UNCHANGED <<controlVars, iteration, sent, confirmed, pipeVars, durableVars>>

VouchedFor(lsn) == {i \in Events : Commit(i) < lsn}

\* handle_keepalive answers with the server's own position as the one that
\* was written, flushed and applied.
KeepaliveReply ==
  /\ "reply" \in Env
  /\ engine = "select"
  /\ \E k \in KeepaliveLsns :
       /\ SlotMovesTo(k)
       /\ excused' = excused \cup (VouchedFor(k) \ applied)
  /\ engine' = "top"
  /\ UNCHANGED <<controlVars, iteration, sent, confirmed, pipeVars,
                 checkpoint, applied>>

\* Unlike a failed status update, a failed reply ends the engine.
KeepaliveReplyFail ==
  /\ {"reply", "stream"} \subseteq Env
  /\ engine = "select"
  /\ engine' = "returned"
  /\ UNCHANGED <<controlVars, iteration, sent, confirmed, pipeVars, durableVars>>

EngineFeedback ==
  /\ engine = "select"
  /\ feedback # <<>>
  /\ confirmed' = Head(feedback)
  /\ feedback' = Tail(feedback)
  /\ engine' = "save"
  /\ UNCHANGED <<controlVars, iteration, sent, pipe, taken, cleared, durableVars>>

SaveOk ==
  /\ engine = "save"
  /\ checkpoint' = confirmed
  /\ engine' = "status"
  /\ UNCHANGED <<controlVars, iteration, sent, confirmed, pipeVars,
                 confirmedFlush, applied, excused>>

\* The upsert failed, or it was made and its answer was lost.  It is not
\* repeated and PostgreSQL is not told.
SaveErr ==
  /\ "store" \in Env
  /\ engine = "save"
  /\ checkpoint' \in {checkpoint, confirmed}
  /\ engine' = "top"
  /\ UNCHANGED <<controlVars, iteration, sent, confirmed, pipeVars,
                 confirmedFlush, applied, excused>>

StatusOk ==
  /\ engine = "status"
  /\ SlotMovesTo(confirmed)
  /\ engine' = "top"
  /\ UNCHANGED <<controlVars, iteration, sent, confirmed, pipeVars,
                 checkpoint, applied, excused>>

\* Not sent, or sent and lost with the connection.
StatusErr ==
  /\ "stream" \in Env
  /\ engine = "status"
  /\ engine' = "top"
  /\ UNCHANGED <<controlVars, iteration, sent, confirmed, pipeVars, durableVars>>

-----------------------------------------------------------------------------
(* The pipeline task.  It lives on while run() returns, until the process  *)
(* is gone.                                                                *)

\* Mutant: a paused pipeline sleeps on its batch.
PipePausedSleeps == FALSE

\* Mutant: `break` for `continue`, the task ends with the first pause.
PipePausedEnds ==
  /\ pipe = "top"
  /\ state = "Paused"
  /\ pipe' = "none"
  /\ UNCHANGED <<controlVars, engineVars, taken, cleared, feedback, durableVars>>

\* Paused: a batch is flushed first; with an empty one the task sleeps and
\* looks again, which changes nothing.
PipePaused ==
  /\ pipe = "top"
  /\ state = "Paused"
  /\ Batch # {}
  /\ pipe' = "push"
  /\ UNCHANGED <<controlVars, engineVars, taken, cleared, feedback, durableVars>>

\* Mutant: only a running pipeline receives.
PipeTopIfRunning ==
  /\ pipe = "top"
  /\ state = "Running"
  /\ pipe' = "select"
  /\ UNCHANGED <<controlVars, engineVars, taken, cleared, feedback, durableVars>>

PipeTop ==
  /\ pipe = "top"
  /\ state # "Paused"
  /\ pipe' = "select"
  /\ UNCHANGED <<controlVars, engineVars, taken, cleared, feedback, durableVars>>

\* Mutant: a batch takes one event too many.
FillsBatchLate == taken - cleared >= FlushSize

FillsBatch == taken + 1 - cleared >= FlushSize

PipeRecv ==
  /\ pipe = "select"
  /\ taken < sent
  /\ taken' = taken + 1
  /\ pipe' = IF FillsBatch THEN "push" ELSE "top"
  /\ UNCHANGED <<controlVars, engineVars, cleared, feedback, durableVars>>

\* Mutant: only full batches are flushed.
PipeTickNoFlush ==
  /\ pipe = "select"
  /\ pipe' = "top"
  /\ UNCHANGED <<controlVars, engineVars, taken, cleared, feedback, durableVars>>

PipeTick ==
  /\ pipe = "select"
  /\ pipe' = IF Batch # {} THEN "push" ELSE "top"
  /\ UNCHANGED <<controlVars, engineVars, taken, cleared, feedback, durableVars>>

PushOk ==
  /\ pipe = "push"
  /\ applied' = applied \cup Batch
  /\ pipe' = "feedback"
  /\ UNCHANGED <<controlVars, engineVars, taken, cleared, feedback,
                 checkpoint, confirmedFlush, excused>>

\* The error is logged and the caller clears the batch all the same.
PushErr ==
  /\ "sink" \in Env
  /\ pipe = "push"
  /\ \E S \in SUBSET Batch :
       /\ applied' = applied \cup S
       /\ excused' = excused \cup (Batch \ applied')
  /\ cleared' = taken
  /\ pipe' = "top"
  /\ UNCHANGED <<controlVars, engineVars, taken, feedback,
                 checkpoint, confirmedFlush>>

\* Mutant: the position of the last event read from the stream.
LastReceivedLsn == Lsn(sent)

\* Mutant: the end of the transaction the last event belongs to.
LastTransactionEnd == Commit(taken) + 1

\* last_lsn: the position of the last event received.
LastLsn == Lsn(taken)

\* Mutant: try_send, which gives up on a full channel.
FeedbackTrySend ==
  /\ pipe = "feedback"
  /\ engine # "returned"
  /\ feedback' = IF Len(feedback) < FeedbackCap THEN Append(feedback, LastLsn)
                                                ELSE feedback
  /\ cleared' = taken
  /\ pipe' = "top"
  /\ UNCHANGED <<controlVars, engineVars, taken, durableVars>>

\* feedback_tx.send(lsn) waits for room; then the batch is cleared.
FeedbackSend ==
  /\ pipe = "feedback"
  /\ engine # "returned"
  /\ FeedbackHasRoom
  /\ feedback' = Append(feedback, LastLsn)
  /\ cleared' = taken
  /\ pipe' = "top"
  /\ UNCHANGED <<controlVars, engineVars, taken, durableVars>>

\* The engine has dropped its receiver: the LSN is lost.
FeedbackClosed ==
  /\ pipe = "feedback"
  /\ engine = "returned"
  /\ cleared' = taken
  /\ pipe' = "top"
  /\ UNCHANGED <<controlVars, engineVars, taken, feedback, durableVars>>

-----------------------------------------------------------------------------
(* The end of the process *)

\* Everything in memory is gone.  Of a push in progress StarRocks may apply
\* any part.
ProcessGone ==
  /\ ControlReset
  /\ engine' = "down" /\ iteration' = 0 /\ sent' = 0 /\ confirmed' = 0
  /\ pipe' = "none" /\ taken' = 0 /\ cleared' = 0 /\ feedback' = <<>>
  /\ \E S \in SUBSET (IF pipe = "push" THEN Batch ELSE {}) :
       applied' = applied \cup S
  /\ UNCHANGED <<checkpoint, confirmedFlush, excused>>

\* main returns after run() does and the runtime drops the pipeline task.
ProcessExit ==
  /\ engine = "returned"
  /\ ProcessGone

Crash ==
  /\ "crash" \in Env
  /\ engine # "down"
  /\ ProcessGone

-----------------------------------------------------------------------------

Control ==
  /\ engine # "down"
  /\ \E c \in Clients : NewCall(c) \/ FinishCall(c, Subscribed)
  /\ UNCHANGED <<engineVars, pipeVars, durableVars>>

StartUp ==
  \/ Boot \/ SetupOk \/ SetupFail \/ FailedSleep
  \/ Connect \/ ConnectFail

Keepalive == KeepaliveQuiet \/ KeepaliveReply \/ KeepaliveReplyFail

\* What the engine does outside its select!.
EngineWork ==
  \/ EngineTop \/ EnginePaused \/ EngineStopped \/ EngineDrained
  \/ EngineSend
  \/ SaveOk \/ SaveErr \/ StatusOk \/ StatusErr

EngineSelect ==
  \/ EngineShutdown \/ EngineRecv \/ EngineFeedback \/ Keepalive \/ StreamEnd

\* What the pipeline does outside its select!.
PipeWork ==
  \/ PipePaused \/ PipeTop
  \/ PushOk \/ PushErr
  \/ FeedbackSend \/ FeedbackClosed

PipeSelect == PipeRecv \/ PipeTick

Next ==
  \/ StartUp
  \/ EngineWork \/ EngineSelect
  \/ PipeWork \/ PipeSelect
  \/ ProcessExit \/ Crash
  \/ Control

(***************************************************************************)
(* Both tasks run until they await, every await ends (the HTTP and SQL     *)
(* calls have timeouts or fail), RPCs finish, and the container runtime    *)
(* restarts the process.  tokio::select! polls its branches in random      *)
(* order, so a branch that is ready again and again is taken in the end:   *)
(* strong fairness for each.  The batch timer always fires again and       *)
(* PostgreSQL sends keepalives to an idle connection.  Nothing obliges an  *)
(* operator to call, or the environment to fail.                           *)
(***************************************************************************)
Fairness ==
  /\ WF_vars(StartUp)
  /\ WF_vars(EngineWork)
  /\ WF_vars(PipeWork)
  /\ WF_vars(ProcessExit)
  /\ WF_vars(KeepaliveQuiet)
  /\ SF_vars(EngineShutdown)
  /\ SF_vars(EngineRecv)
  /\ SF_vars(EngineFeedback)
  /\ SF_vars(PipeRecv)
  /\ SF_vars(PipeTick)
  /\ \A c \in Clients :
       WF_vars(/\ engine # "down"
               /\ FinishCall(c, Subscribed)
               /\ UNCHANGED <<engineVars, pipeVars, durableVars>>)

Spec == Init /\ [][Next]_vars

FairSpec == Spec /\ Fairness

-----------------------------------------------------------------------------
(* Properties *)

\* Every variable keeps its type: the queues stay within their capacities
\* and the cursors in log order.
TypeOK ==
  /\ ControlTypeOK
  /\ engine \in EngineState
  /\ pipe \in PipeState
  /\ iteration \in 0..(CheckEvery - 1)
  /\ sent \in 0..Len(Wal) /\ taken \in 0..sent /\ cleared \in 0..taken
  /\ ChannelPending =< ChannelCap
  /\ taken - cleared =< FlushSize
  /\ feedback \in Seq(Nat) /\ Len(feedback) =< FeedbackCap
  /\ confirmed \in Nat /\ checkpoint \in Nat /\ confirmedFlush \in Nat
  /\ applied \subseteq Events
  /\ excused \subseteq Events

\* Everything PostgreSQL would not stream again from position lsn is in S.
Covered(lsn, S) == \A i \in Events : Commit(i) < lsn => i \in S

Accounted == applied \cup excused

\* A position that the process reports (get_status), saves or confirms
\* stands for applied events, whatever interleaving, failed save, lost status
\* update, shutdown or crash came before, but for two holes: the batch of a
\* failed push, and events still on their way when a keepalive was answered.
AccountedFor ==
  /\ Covered(confirmed, Accounted)
  /\ Covered(checkpoint, Accounted)
  /\ Covered(confirmedFlush, Accounted)

\* Why AccountedFor holds: a position enters the feedback channel only when
\* every event up to the one it names is accounted for, and by
\* WalAssumption no later event has a commit below it.
CursorsInv ==
  /\ engine = "send" => sent < Len(Wal)
  /\ pipe \in {"top", "select"} => taken - cleared < FlushSize
  /\ pipe \in {"push", "feedback"} => cleared < taken

DeliveredInv ==
  /\ 1..cleared \subseteq Accounted
  /\ pipe = "feedback" => 1..taken \subseteq Accounted

FeedbackInv == \A n \in 1..Len(feedback) : Covered(feedback[n], Accounted)

InductiveInv ==
  /\ TypeOK
  /\ CursorsInv
  /\ DeliveredInv
  /\ FeedbackInv
  /\ AccountedFor

\* At-least-once delivery (README.md:304): whatever a restart would skip
\* has been applied.
AtLeastOnce == Covered(ResumeLsn, applied)

\* The abstract view of the replication: what PostgreSQL would not stream
\* again stands for the record.
Skipped == {i \in Events : Commit(i) < ResumeLsn}

Promise == INSTANCE DeliverySpec WITH delivered <- applied, skipped <- Skipped

\* Replication implements DeliverySpec: nothing takes an applied event back,
\* and no step, be it a save, a status update or a crash between the two,
\* moves the start of the stream beyond an event that was not applied before.
KeepsPromise == Promise!Spec

\* What the sink is given.  While no pipeline runs, what was passed is what
\* the next one will not read again.
Boundaries ==
  {p \in 0..Len(Wal) : p = 0 \/ p = Len(Wal) \/ Commit(p) < Commit(p + 1)}

ResumePoint == CHOOSE p \in 0..Len(Wal) : StreamsFrom(p, ResumeLsn)

Passed == IF pipe = "none" THEN ResumePoint ELSE cleared

BatchEnd == IF pipe \in {"push", "feedback"} THEN taken ELSE Passed

Feed == INSTANCE BatchFeed WITH
          Length <- Len(Wal), MaxBatch <- FlushSize, pos <- Passed, last <- BatchEnd

\* Replication feeds its sink the way BatchFeed says, which is all that Sink
\* assumes: consecutive messages, never more than flush_size, one batch at a
\* time, and after a crash, whichever of the saved and the confirmed position
\* is ahead, all of a transaction again and none that was not passed before.
FeedsBatches == Feed!Spec

\* Why: a position, wherever it is kept, stands only for messages that the
\* pipeline of this process, or the ones before it, has passed.
PassedInv ==
  pipe # "none" =>
    /\ Covered(confirmed, 1..cleared)
    /\ Covered(checkpoint, 1..cleared)
    /\ Covered(confirmedFlush, 1..cleared)
    /\ \A n \in 1..Len(feedback) : Covered(feedback[n], 1..cleared)

\* A drain that ends without its signal leaves no message in the channel:
\* what it may leave undelivered is one batch (engine/mod.rs:279, "CDC drained").
DrainEmptiesChannel ==
  [][engine = "top" /\ engine' = "returned" /\ state = "Draining"
       => \A i \in 1..sent : i \in Accounted \cup Batch]_vars

\* Once drain or stop was requested no concurrent or later RPC, and nothing
\* the engine does, lets the process replicate as if it had not been: the
\* state changes back only with the process.
TerminationIrrevocable ==
  [][engine # "down" /\ state \in Terminating
       => state' \in Terminating \/ engine' = "down"]_vars

\* In the end the process is left alone, its setup having succeeded and its
\* two channels not waiting for each other.
Stable ==
  <>[](engine \notin {"down", "failed"} /\ state = "Running" /\ ~ChannelsLocked)

\* If it is left alone, every event of the log is applied in the end, after
\* any number of crashes, pauses and restarts: a last batch that never gets
\* full, a full channel or a pause that found the engine waiting for room
\* holds nothing back for good.
EventuallyApplied == Stable => \A i \in Events : <>(i \in applied)

\* ... and the saved checkpoint comes to rest at the end of the log, even
\* though positions go back and forth and an interrupted save is not retried.
CheckpointCatchesUp == Stable => <>[](checkpoint = Lsn(Len(Wal)))

\* Pausing does not strand a batch: what the pipeline holds is pushed while
\* the process is paused, unless it is resumed, stopped or gone first.  (A
\* pushed batch stays in memory until its position is fed back.)
PauseFlushesBatch ==
  (state = "Paused" /\ Batch # {})
    ~> (state # "Paused" \/ Batch = {} \/ pipe = "feedback" \/ engine = "down")

\* A stop or drain that was requested ends the process, even if its signal
\* was lost because the engine was still starting, or comes while the engine
\* waits for room that a paused pipeline does not make: the look at the state
\* every CheckEvery iterations catches it.  There are two exceptions, in which
\* the process lives on for ever whatever Stop answered: its setup has failed
\* and it sleeps, or its channels are locked.
TerminationTakesEffect ==
  (state \in Terminating) ~> (engine \in {"down", "failed"} \/ ChannelsLocked)

\* Channels that wait for each other do so until the process is killed,
\* whatever RPC is made: nothing in the code gives up a send.
LockedForGood == [][ChannelsLocked => ChannelsLocked' \/ Crash]_vars

\* A drain delivers what the engine had accepted before the process exits
\* (README.md:151, "Detener gracefully"; engine/mod.rs:279, "CDC drained.
\* Exiting gracefully.").
DrainDelivers ==
  [][ProcessExit /\ state = "Draining" => 1..sent \subseteq applied']_vars

\* A full channel holds the producer back until the consumer catches up,
\* not for good (ARCHITECTURE.md:89, "Backpressure via channel capacity").
BackpressureReleases == (engine = "send") ~> (engine # "send")

=============================================================================
