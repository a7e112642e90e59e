----------------------------- MODULE Lifecycle ------------------------------
(***************************************************************************)
(* The life of the process as the control plane sees it: CdcEngine::run    *)
(* (src/engine/mod.rs) from its start to the replication, the stage, the   *)
(* detail and the setup error it leaves in SharedState (src/grpc/state.rs),*)
(* and HealthService/Check (src/grpc/services.rs), which reads them.       *)
(*                                                                         *)
(* The engine writes the three under a lock each, the check reads them     *)
(* under a lock each, and the two run on different threads: an answer may  *)
(* mix values of several moments.                                          *)
(***************************************************************************)
EXTENDS Setup

CONSTANT Probes        \* health checks that may be under way at once

VARIABLES
  run,                 \* program counter of CdcEngine::run
  stopped,             \* SharedState.state is Stopped
  stage,               \* SharedState.stage
  detail,              \* SharedState.stage_detail
  setupError,          \* SharedState.setup_error is set
  serving,             \* the gRPC server runs
  probe                \* probe[p]: the health check, and its last answer

sharedVars == <<stopped, stage, detail, setupError>>
vars == <<setupVars, run, sharedVars, serving, probe>>

Run == {"down", "new", "naming", "serve", "announce", "setup", "explain",
        "failed", "source", "stream", "pipeline", "replicating"}

Stage == {"Init", "Setup", "Cdc"}

\* The details of the stages between setup and replication are one here.
Detail == {"Initializing", "Starting gRPC server", "Running automatic setup",
           "Setup failed", "Connecting", "Replicating"}

\* A check reads the state, the stage, the detail and the error, in this
\* order; "answered" holds its answer.
ProbePhase == {"idle", "stage", "detail", "error", "answered"}

NoProbe == [phase |-> "idle", stopped |-> FALSE, stage |-> "Init",
            detail |-> "Initializing", error |-> FALSE]

Probe == [phase : ProbePhase, stopped : BOOLEAN, stage : Stage,
          detail : Detail, error : BOOLEAN]

\* SharedState::new
NewShared ==
  /\ stopped' = FALSE /\ stage' = "Init" /\ detail' = "Initializing"
  /\ setupError' = FALSE

Init ==
  /\ SetupInit
  /\ run = "down"
  /\ stopped = FALSE /\ stage = "Init" /\ detail = "Initializing"
  /\ setupError = FALSE
  /\ serving = FALSE
  /\ probe = [p \in Probes |-> NoProbe]

-----------------------------------------------------------------------------
(* The engine.  set_stage writes the stage, then the detail; a stage that  *)
(* it writes again is not a step.                                          *)

Boot ==
  /\ run = "down"
  /\ run' = "new"
  /\ NewShared
  /\ UNCHANGED <<setupVars, serving, probe>>

WriteStage(from, s, to) ==
  /\ run = from
  /\ stage' = s
  /\ run' = to
  /\ UNCHANGED <<setupVars, stopped, detail, setupError, serving, probe>>

WriteDetail(from, d, to) ==
  /\ run = from
  /\ detail' = d
  /\ run' = to
  /\ UNCHANGED <<setupVars, stopped, stage, setupError, serving, probe>>

StageSetup == WriteStage("new", "Setup", "naming")

DetailStarting == WriteDetail("naming", "Starting gRPC server", "serve")

\* start_grpc_server spawns the server; binding the port takes its time.
ServeGrpc ==
  /\ run \notin {"down", "new", "naming", "serve"}
  /\ ~serving
  /\ serving' = TRUE
  /\ UNCHANGED <<setupVars, run, sharedVars, probe>>

SpawnGrpc ==
  /\ run = "serve"
  /\ run' = "announce"
  /\ UNCHANGED <<setupVars, sharedVars, serving, probe>>

RunSetup ==
  /\ run = "announce"
  /\ detail' = "Running automatic setup"
  /\ run' = "setup"
  /\ step' = "tables"
  /\ UNCHANGED <<made, leftover, visit, todo, faults, byLeftover,
                 stopped, stage, setupError, serving, probe>>

\* Mutant: the setup is not awaited.
SetupNotAwaited == WriteDetail("setup", "Connecting", "source")

SetupOk ==
  /\ step = "done"
  /\ WriteDetail("setup", "Connecting", "source")

\* Mutant: the stage first, the reason afterwards.
ReportBeforeExplain ==
  /\ step = "error"
  /\ \/ WriteDetail("setup", "Setup failed", "explain")
     \/ /\ run = "explain"
        /\ setupError' = TRUE
        /\ run' = "failed"
        /\ UNCHANGED <<setupVars, stopped, stage, detail, serving, probe>>

\* The error is stored before the stage tells of it.
SetupFails ==
  /\ step = "error"
  /\ \/ /\ run = "setup"
        /\ setupError' = TRUE
        /\ run' = "explain"
        /\ UNCHANGED <<setupVars, stopped, stage, detail, serving, probe>>
     \/ WriteDetail("explain", "Setup failed", "failed")

\* PostgresSource::new creates the slot once more and ignores the error.
OpenSource ==
  /\ run = "source"
  /\ made' = made \cup {Slot}
  /\ run' = "stream"
  /\ UNCHANGED <<leftover, step, visit, todo, faults, byLeftover,
                 sharedVars, serving, probe>>

StageCdc == WriteStage("stream", "Cdc", "pipeline")

DetailReplicating == WriteDetail("pipeline", "Replicating", "replicating")

\* A new process starts with nothing but what the servers keep.
ProcessGone ==
  /\ run' = "down"
  /\ step' = "off" /\ visit' = {} /\ todo' = {}
  /\ NewShared
  /\ serving' = FALSE
  /\ probe' = [p \in Probes |-> NoProbe]

\* run() returns with an error before it replicates.
ConnectFails ==
  /\ run \in {"source", "stream"}
  /\ faults < MaxFaults
  /\ faults' = faults + 1
  /\ ProcessGone
  /\ UNCHANGED <<made, leftover, byLeftover>>

Kill ==
  /\ run \notin {"down", "failed"}
  /\ Abandon
  /\ ProcessGone

\* The engine sleeps for ever after a failed setup; only the operator, or
\* whoever watches the health check, can end it.
Replace ==
  /\ run = "failed"
  /\ ProcessGone
  /\ UNCHANGED <<made, leftover, faults, byLeftover>>

\* The engine looks at the state in its main loop only, of which "replicating"
\* is all that is left here: what a stop does to it is Replication's.
Stop ==
  /\ serving
  /\ ~stopped
  /\ stopped' = TRUE
  /\ UNCHANGED <<setupVars, run, stage, detail, setupError, serving, probe>>

-----------------------------------------------------------------------------
(* The health check *)

Reads(p, from, to, new) ==
  /\ probe[p].phase \in from
  /\ probe' = [probe EXCEPT ![p] = [new EXCEPT !.phase = to]]
  /\ UNCHANGED <<setupVars, run, sharedVars, serving>>

CheckState(p) ==
  /\ serving
  /\ Reads(p, {"idle", "answered"}, "stage", [NoProbe EXCEPT !.stopped = stopped])

CheckStage(p) ==
  Reads(p, {"stage"}, "detail", [probe[p] EXCEPT !.stage = stage])

CheckDetail(p) ==
  Reads(p, {"detail"}, "error", [probe[p] EXCEPT !.detail = detail])

CheckError(p) ==
  Reads(p, {"error"}, "answered", [probe[p] EXCEPT !.error = setupError])

\* The status of the answer.
Serving(a) == ~a.error /\ ~a.stopped

-----------------------------------------------------------------------------

SetupSteps ==
  /\ run = "setup"
  /\ SetupWork
  /\ UNCHANGED <<run, sharedVars, serving, probe>>

CallFailure ==
  /\ run = "setup"
  /\ CallFails
  /\ UNCHANGED <<run, sharedVars, serving, probe>>

Engine ==
  \/ Boot \/ StageSetup \/ DetailStarting \/ SpawnGrpc \/ ServeGrpc
  \/ RunSetup \/ SetupSteps \/ SetupOk \/ SetupFails
  \/ OpenSource \/ StageCdc \/ DetailReplicating

Servers ==
  /\ LeftoverEnds \/ CreateTable
  /\ UNCHANGED <<run, sharedVars, serving, probe>>

Check == \E p \in Probes :
  CheckState(p) \/ CheckStage(p) \/ CheckDetail(p) \/ CheckError(p)

Next ==
  \/ Engine
  \/ CallFailure \/ ConnectFails \/ Kill \/ Replace
  \/ Servers
  \/ Stop \/ Check

Spec == Init /\ [][Next]_vars

\* The engine runs on; nothing obliges the environment.
FairSpec == Spec /\ WF_vars(Engine)

-----------------------------------------------------------------------------
(* Properties *)

\* Every variable keeps its type, and statements are pending only while the
\* engine awaits its setup.
TypeOK ==
  /\ made \subseteq Facts /\ byLeftover \subseteq made
  /\ leftover \subseteq Statements /\ todo \subseteq Statements
  /\ step \in SetupStep /\ visit \subseteq Tables
  /\ faults \in 0..MaxFaults
  /\ run \in Run /\ (todo # {} => run = "setup")
  /\ stopped \in BOOLEAN /\ stage \in Stage /\ detail \in Detail
  /\ setupError \in BOOLEAN /\ serving \in BOOLEAN
  /\ probe \in [Probes -> Probe]

\* The slot, from which on PostgreSQL keeps the changes, is created only when
\* every table is published with its full replica identity, whatever was
\* there before and wherever earlier setups broke off: PostgreSQL cannot
\* decode for a publication that is younger than the changes.
SlotLast ==
  [][Slot \notin made /\ Slot \in made'
       => Identities \cup Members \subseteq made]_vars

\* Whoever was told STAGE_CDC ("Replicando activamente", README.md:134) can
\* rely on everything that setup is for, although setup only adds what it
\* found missing and earlier processes may have left parts of it.
CdcMeansReady ==
  \A p \in Probes :
    probe[p].phase = "answered" /\ probe[p].stage = "Cdc" => Goal \subseteq made

\* An answer "Setup failed" carries the error and is NOT_SERVING, and an error
\* is only ever told of the setup stage (README.md:124-136), although the
\* check reads stage, detail and error at different moments.
FailureExplained ==
  \A p \in Probes :
    probe[p].phase = "answered" =>
      /\ probe[p].detail = "Setup failed" => probe[p].error /\ ~Serving(probe[p])
      /\ probe[p].error => probe[p].stage = "Setup"

\* A setup finds its way through whatever is there: a statement is only ever
\* refused because a leftover of an earlier process came between the look and
\* the statement (postgres.rs looks first, then makes what is missing).
RefusedByLeftover ==
  \A s \in todo : Refused(s) => s.makes \cap byLeftover # {}

\* Where failures end, a failed process is replaced and the tables exist, the
\* process replicates in the end: no state that a broken-off setup leaves
\* behind keeps the next ones from succeeding.
Recovers ==
  /\ []<>(run # "failed")
  /\ <>[](PgTables \cup SrTables \subseteq made)
  => <>[](run = "replicating")

=============================================================================
