-------------------------- MODULE LifecycleProofs ---------------------------
(***************************************************************************)
(* Theorems about Setup and Lifecycle, for every set of tables and audit   *)
(* columns, every content of the two databases before the first start,     *)
(* any number of faults and any number of concurrent health checks.        *)
(***************************************************************************)
EXTENDS Lifecycle, TLAPS

-----------------------------------------------------------------------------
(* Type correctness *)

\* What statements make is what setup is for.
LEMMA StatementsMakeGoal == \A s \in Statements : s.makes \subseteq Goal
<1> SUFFICES ASSUME NEW s \in Statements PROVE s.makes \subseteq Goal
  OBVIOUS
<1>1. CASE \E t \in Tables : s = AlterIdentity(t)
  BY <1>1 DEF AlterIdentity, Identities, Goal
<1>2. CASE s = CreatePublication
  BY <1>2 DEF CreatePublication, Goal
<1>3. CASE s = CreateSlot
  BY <1>3 DEF CreateSlot, Goal
<1>4. CASE \E t \in Tables : s = AddTable(t)
  BY <1>4 DEF AddTable, Members, Goal
<1>5. CASE \E t \in Tables, c \in AuditColumns : s = AddColumn(t, c)
  BY <1>5 DEF AddColumn, ColumnsOf, Columns, Goal
<1> QED
  BY <1>1, <1>2, <1>3, <1>4, <1>5 DEF Statements

LEMMA StatementsMakeFacts ==
  /\ \A s \in Statements : s.makes \subseteq Facts
  /\ \A t \in Tables : AlterIdentity(t) \in Statements /\ AddTable(t) \in Statements
  /\ \A t \in Tables, c \in AuditColumns : AddColumn(t, c) \in Statements
  /\ CreatePublication \in Statements /\ CreateSlot \in Statements
<1>1. \A t \in Tables, c \in AuditColumns : AddColumn(t, c) \in Statements
  BY DEF Statements
<1> QED
  BY <1>1, StatementsMakeGoal DEF Statements, Facts

\* TypeOK, and in which steps of setup nothing is pending.
TypeInv ==
  /\ TypeOK
  /\ step \in {"off", "tables", "publication", "missing", "done", "error"} => todo = {}

LEMMA TypeInit == Init => TypeInv
<1> SUFFICES ASSUME Init PROVE TypeInv
  OBVIOUS
<1>1. made \subseteq Facts
  BY PreparedAssumption DEF Init, SetupInit
<1>2. probe \in [Probes -> Probe]
  BY DEF Init, NoProbe, Probe, ProbePhase, Stage, Detail
<1>3. faults \in 0..MaxFaults
  BY FaultsAssumption DEF Init, SetupInit
<1>4. stopped \in BOOLEAN /\ setupError \in BOOLEAN /\ serving \in BOOLEAN
  BY DEF Init
<1>5. /\ byLeftover = {} /\ leftover = {} /\ todo = {} /\ visit = {}
      /\ step \in SetupStep /\ run \in Run /\ stage \in Stage /\ detail \in Detail
  BY DEF Init, SetupInit, SetupStep, Run, Stage, Detail
<1> QED
  BY <1>1, <1>2, <1>3, <1>4, <1>5 DEF TypeInv, TypeOK

\* The steps of SetupManager::run.
LEMMA TypeSetupWork ==
  ASSUME TypeInv, run = "setup", SetupWork, UNCHANGED <<run, sharedVars, serving, probe>>
  PROVE  TypeInv'
<1> USE DEF TypeInv, TypeOK, At, Goto, SetupStep, sharedVars
<1>1. CASE VerifyPgTables
  BY <1>1 DEF VerifyPgTables
<1>2. CASE VisitIdentity
  BY <1>2, StatementsMakeFacts DEF VisitIdentity
<1>3. CASE IdentityDone
  BY <1>3 DEF IdentityDone
<1>4. CASE ReadPublication
  BY <1>4, StatementsMakeFacts DEF ReadPublication
<1>5. CASE ReadMissingTables
  BY <1>5, StatementsMakeFacts DEF ReadMissingTables
<1>6. CASE ReadSlot
  BY <1>6, StatementsMakeFacts DEF ReadSlot
<1>7. CASE VerifyStarRocks
  BY <1>7 DEF VerifyStarRocks
<1>8. CASE VisitColumns
  BY <1>8, StatementsMakeFacts DEF VisitColumns
<1>9. CASE ColumnsDone
  BY <1>9 DEF ColumnsDone
<1>10. CASE Execute
  BY <1>10, StatementsMakeFacts DEF Execute
<1>11. CASE ExecuteRefused
  BY <1>11 DEF ExecuteRefused
<1> QED
  BY <1>1, <1>2, <1>3, <1>4, <1>5, <1>6, <1>7, <1>8, <1>9, <1>10, <1>11 DEF SetupWork

\* A call that fails, or a kill, takes the pending statements along.
LEMMA TypeAbandon ==
  ASSUME TypeOK, Abandon
  PROVE  /\ made' = made /\ byLeftover' = byLeftover
         /\ leftover' \subseteq Statements
         /\ faults' \in 0..MaxFaults
         /\ visit' = {} /\ todo' = {}
BY FaultsAssumption DEF TypeOK, Abandon

LEMMA TypeProcessGone ==
  ASSUME TypeOK, ProcessGone
  PROVE  /\ run' \in Run /\ step' = "off" /\ visit' = {} /\ todo' = {}
         /\ stopped' \in BOOLEAN /\ stage' \in Stage /\ detail' \in Detail
         /\ setupError' \in BOOLEAN /\ serving' \in BOOLEAN
         /\ probe' \in [Probes -> Probe]
BY DEF TypeOK, ProcessGone, NewShared, NoProbe, Probe, ProbePhase, Run, Stage, Detail

LEMMA TypeCheck ==
  ASSUME TypeOK, Check
  PROVE  /\ probe' \in [Probes -> Probe]
         /\ UNCHANGED <<setupVars, run, sharedVars, serving>>
<1>1. PICK p \in Probes :
        CheckState(p) \/ CheckStage(p) \/ CheckDetail(p) \/ CheckError(p)
  BY DEF Check
<1> USE DEF TypeOK, Reads, Probe, ProbePhase
<1>2. CASE CheckState(p)
  BY <1>2 DEF CheckState, NoProbe, Stage, Detail
<1>3. CASE CheckStage(p)
  BY <1>3 DEF CheckStage
<1>4. CASE CheckDetail(p)
  BY <1>4 DEF CheckDetail
<1>5. CASE CheckError(p)
  BY <1>5 DEF CheckError
<1> QED
  BY <1>1, <1>2, <1>3, <1>4, <1>5

LEMMA TypeNext == TypeInv /\ [Next]_vars => TypeInv'
<1> SUFFICES ASSUME TypeInv, [Next]_vars PROVE TypeInv'
  OBVIOUS
<1> USE DEF TypeInv, TypeOK
<1>1. CASE Boot
  BY <1>1 DEF Boot, NewShared, setupVars, Run, Stage, Detail
<1>2. CASE StageSetup \/ StageCdc
  BY <1>2 DEF StageSetup, StageCdc, WriteStage, setupVars, Run, Stage
<1>3. CASE DetailStarting \/ DetailReplicating
  BY <1>3 DEF DetailStarting, DetailReplicating, WriteDetail, setupVars, Run, Detail
<1>4. CASE SpawnGrpc \/ ServeGrpc \/ Stop
  BY <1>4 DEF SpawnGrpc, ServeGrpc, Stop, setupVars, sharedVars, Run
<1>5. CASE RunSetup
  BY <1>5 DEF RunSetup, SetupStep, Run, Detail
<1>6. CASE SetupSteps
  BY <1>6, TypeSetupWork DEF SetupSteps
<1>7. CASE SetupOk
  BY <1>7 DEF SetupOk, WriteDetail, setupVars, Run, Detail
<1>8. CASE SetupFails
  BY <1>8 DEF SetupFails, WriteDetail, setupVars, Run, Detail
<1>9. CASE OpenSource
  BY <1>9 DEF OpenSource, sharedVars, Run, Facts, Goal
<1>10. CASE CallFailure
  BY <1>10, TypeAbandon DEF CallFailure, CallFails, sharedVars, SetupStep
<1>11. CASE ConnectFails
  BY <1>11, TypeProcessGone, FaultsAssumption DEF ConnectFails, SetupStep
<1>12. CASE Kill
  BY <1>12, TypeAbandon, TypeProcessGone DEF Kill, SetupStep
<1>13. CASE Replace
  BY <1>13, TypeProcessGone DEF Replace, SetupStep
<1>14. CASE Servers
  BY <1>14, StatementsMakeFacts
  DEF Servers, LeftoverEnds, CreateTable, Facts, sharedVars
<1>15. CASE Check
  BY <1>15, TypeCheck DEF setupVars, sharedVars
<1>16. CASE UNCHANGED vars
  BY <1>16 DEF vars, setupVars, sharedVars
<1> QED
  BY <1>1, <1>2, <1>3, <1>4, <1>5, <1>6, <1>7, <1>8, <1>9, <1>10, <1>11, <1>12,
     <1>13, <1>14, <1>15, <1>16 DEF Next, Engine

LEMMA TypeInvariance == Spec => []TypeInv
BY TypeInit, TypeNext, PTL DEF Spec

\* Types hold, and the engine never goes on while statements of its setup are
\* pending.
THEOREM LifecycleTypeCorrectness == Spec => []TypeOK
<1>1. TypeInv => TypeOK
  BY DEF TypeInv
<1> QED
  BY <1>1, TypeInvariance, PTL

-----------------------------------------------------------------------------
(* What the health check tells *)

\* What the shared state says at each point of CdcEngine::run.
EngineInv ==
  /\ stage = "Init" => run \in {"down", "new"}
  /\ stage = "Cdc" <=> run \in {"pipeline", "replicating"}
  /\ setupError = TRUE <=> run \in {"explain", "failed"}
  /\ detail = "Setup failed" => run = "failed"
  /\ serving = TRUE => run \notin {"down", "new", "naming", "serve"}

\* What a check has read so far bounds where the engine can be by now.
ProbeInv(p) ==
  LET a == probe[p] IN
  /\ a.phase # "idle" => serving
  /\ a.phase \in {"detail", "error", "answered"} => a.stage # "Init"
  /\ a.stage = "Cdc" => run \in {"pipeline", "replicating"}
  /\ a.phase \in {"idle", "stage", "detail"} => a.detail = "Initializing"
  /\ a.phase = "error" /\ a.detail = "Setup failed" => run = "failed"
  /\ a.phase = "answered" /\ a.detail = "Setup failed" => a.error
  /\ a.phase = "answered" /\ a.error => a.stage = "Setup"

ReportInv == EngineInv /\ \A p \in Probes : ProbeInv(p)

LEMMA ReportInit == Init => ReportInv
<1> SUFFICES ASSUME Init PROVE ReportInv
  OBVIOUS
<1>1. EngineInv
  BY DEF Init, EngineInv
<1>2. ASSUME NEW p \in Probes
      PROVE  ProbeInv(p)
  BY DEF Init, NoProbe, ProbeInv
<1> QED
  BY <1>1, <1>2 DEF ReportInv

\* A process that is gone has told nobody anything.
LEMMA ReportReset == ProcessGone => ReportInv'
<1> SUFFICES ASSUME ProcessGone PROVE ReportInv'
  OBVIOUS
<1>1. EngineInv'
  BY DEF ProcessGone, NewShared, EngineInv
<1>2. ASSUME NEW p \in Probes
      PROVE  ProbeInv(p)'
  BY DEF ProcessGone, NoProbe, ProbeInv
<1> QED
  BY <1>1, <1>2 DEF ReportInv

\* The engine writes the reason of a failure before it tells of it.
LEMMA ReportEngine ==
  ASSUME TypeOK, ReportInv, Engine
  PROVE  ReportInv'
<1>1. EngineInv' /\ UNCHANGED probe
  <2> USE DEF TypeOK, ReportInv, EngineInv, sharedVars, Run
  <2>1. CASE Boot
    BY <2>1 DEF Boot, NewShared
  <2>2. CASE StageSetup \/ StageCdc
    BY <2>2 DEF StageSetup, StageCdc, WriteStage
  <2>3. CASE DetailStarting \/ DetailReplicating
    BY <2>3 DEF DetailStarting, DetailReplicating, WriteDetail
  <2>4. CASE SpawnGrpc \/ ServeGrpc
    BY <2>4 DEF SpawnGrpc, ServeGrpc
  <2>5. CASE RunSetup
    BY <2>5 DEF RunSetup
  <2>6. CASE SetupSteps
    BY <2>6 DEF SetupSteps
  <2>7. CASE SetupOk
    BY <2>7 DEF SetupOk, WriteDetail
  <2>8. CASE SetupFails
    BY <2>8 DEF SetupFails, WriteDetail
  <2>9. CASE OpenSource
    BY <2>9 DEF OpenSource
  <2> QED
    BY <2>1, <2>2, <2>3, <2>4, <2>5, <2>6, <2>7, <2>8, <2>9 DEF Engine
<1>2. /\ serving => serving'
      /\ run \in {"pipeline", "replicating"} => run' \in {"pipeline", "replicating"}
      /\ run = "failed" => run' = "failed"
  BY DEF Engine, Boot, StageSetup, StageCdc, WriteStage, DetailStarting,
         DetailReplicating, WriteDetail, SpawnGrpc, ServeGrpc, RunSetup,
         SetupSteps, SetupOk, SetupFails, OpenSource, TypeOK, sharedVars
<1>3. ASSUME NEW p \in Probes
      PROVE  ProbeInv(p)'
  BY <1>1, <1>2 DEF ReportInv, ProbeInv
<1> QED
  BY <1>1, <1>3 DEF ReportInv

\* A check reads one value at a time; the engine may have moved on between
\* any two.
LEMMA ReportCheck ==
  ASSUME TypeOK, ReportInv, Check
  PROVE  ReportInv'
<1>1. EngineInv'
  BY TypeCheck DEF ReportInv, EngineInv, sharedVars
<1>2. PICK p \in Probes :
        CheckState(p) \/ CheckStage(p) \/ CheckDetail(p) \/ CheckError(p)
  BY DEF Check
<1>3. ASSUME NEW q \in Probes, q # p
      PROVE  ProbeInv(q)'
  <2>1. probe'[q] = probe[q] /\ UNCHANGED <<run, serving>>
    BY <1>2, <1>3 DEF CheckState, CheckStage, CheckDetail, CheckError, Reads, TypeOK
  <2> QED
    BY <2>1 DEF ReportInv, ProbeInv
<1>4. ProbeInv(p)'
  <2>1. ProbeInv(p) /\ EngineInv /\ probe[p] \in Probe /\ UNCHANGED <<run, serving>>
    BY <1>2 DEF ReportInv, TypeOK, CheckState, CheckStage, CheckDetail, CheckError, Reads
  <2>2. CASE CheckState(p)
    <3>1. probe'[p] = [NoProbe EXCEPT !.stopped = stopped, !.phase = "stage"] /\ serving
      BY <2>2 DEF CheckState, Reads, TypeOK
    <3> QED
      BY <2>1, <3>1 DEF ProbeInv, NoProbe
  <2>3. CASE CheckStage(p)
    <3>1. /\ probe[p].phase = "stage"
          /\ probe'[p] = [probe[p] EXCEPT !.stage = stage, !.phase = "detail"]
      BY <2>3 DEF CheckStage, Reads, TypeOK
    <3> QED
      BY <2>1, <3>1 DEF ProbeInv, EngineInv, Probe
  <2>4. CASE CheckDetail(p)
    <3>1. /\ probe[p].phase = "detail"
          /\ probe'[p] = [probe[p] EXCEPT !.detail = detail, !.phase = "error"]
      BY <2>4 DEF CheckDetail, Reads, TypeOK
    <3> QED
      BY <2>1, <3>1 DEF ProbeInv, EngineInv, Probe
  <2>5. CASE CheckError(p)
    <3>1. /\ probe[p].phase = "error"
          /\ probe'[p] = [probe[p] EXCEPT !.error = setupError, !.phase = "answered"]
      BY <2>5 DEF CheckError, Reads, TypeOK
    <3>2. setupError => probe[p].stage = "Setup"
      BY <2>1, <3>1 DEF ProbeInv, EngineInv, Probe, Stage
    <3>3. probe[p].detail = "Setup failed" => setupError
      BY <2>1, <3>1 DEF ProbeInv, EngineInv
    <3> QED
      BY <2>1, <3>1, <3>2, <3>3 DEF ProbeInv, Probe
  <2> QED
    BY <1>2, <2>2, <2>3, <2>4, <2>5
<1> QED
  BY <1>1, <1>3, <1>4 DEF ReportInv

LEMMA ReportNext == TypeOK /\ ReportInv /\ [Next]_vars => ReportInv'
<1> SUFFICES ASSUME TypeOK, ReportInv, [Next]_vars PROVE ReportInv'
  OBVIOUS
<1>1. CASE Engine
  BY <1>1, ReportEngine
<1>2. CASE Check
  BY <1>2, ReportCheck
<1>3. CASE ConnectFails \/ Kill \/ Replace
  BY <1>3, ReportReset DEF ConnectFails, Kill, Replace
<1>4. CASE CallFailure \/ Servers \/ Stop \/ UNCHANGED vars
  <2>1. UNCHANGED <<run, stage, detail, setupError, serving, probe>>
    BY <1>4 DEF CallFailure, Servers, Stop, vars, sharedVars
  <2>2. EngineInv'
    BY <2>1 DEF ReportInv, EngineInv
  <2>3. ASSUME NEW p \in Probes
        PROVE  ProbeInv(p)'
    BY <2>1 DEF ReportInv, ProbeInv
  <2> QED
    BY <2>2, <2>3 DEF ReportInv
<1> QED
  BY <1>1, <1>2, <1>3, <1>4 DEF Next

LEMMA ReportInvariance == Spec => []ReportInv
<1>1. TypeInv => TypeOK
  BY DEF TypeInv
<1> QED
  BY <1>1, ReportInit, ReportNext, TypeInvariance, PTL DEF Spec

\* Whatever the engine writes between the four reads of a health check, an
\* answer "Setup failed" has the error, and an error the stage Setup.
THEOREM FailureIsExplained == Spec => []FailureExplained
<1>1. ReportInv => FailureExplained
  BY DEF ReportInv, ProbeInv, FailureExplained, Serving
<1> QED
  BY <1>1, ReportInvariance, PTL

-----------------------------------------------------------------------------
(* What setup leaves behind *)

\* What holds once the pending statements are made.
Planned == made \cup UNION {s.makes : s \in todo}

\* What each step of setup has behind it.
OrderInv ==
  /\ step = "identity" => \A t \in Tables \ visit : Identity(t) \in Planned
  /\ step \in {"publication", "missing", "slot", "starrocks", "columns", "done"}
       => Identities \subseteq made
  /\ step = "missing" => Publication \in made
  /\ step = "slot" => Members \subseteq Planned
  /\ step \in {"starrocks", "columns", "done"} => Members \subseteq made
  /\ step = "starrocks" => Slot \in Planned
  /\ step \in {"columns", "done"} => Slot \in made
  /\ step = "columns" => \A t \in Tables \ visit : ColumnsOf(t) \subseteq Planned
  /\ step = "done" => Columns \subseteq made

\* A slot is only ever asked for when all that must precede it is there, and
\* from the moment the engine leaves its setup everything is.
ReadyInv ==
  /\ CreateSlot \in todo \cup leftover => Identities \cup Members \subseteq made
  /\ run \in {"source", "stream", "pipeline", "replicating"} => Goal \subseteq made

\* Only one statement makes the slot.
LEMMA SlotStatement ==
  ASSUME NEW s \in Statements, Slot \in s.makes
  PROVE  s = CreateSlot
<1>1. /\ Slot # Publication
      /\ \A t \in Tables : Slot # Identity(t) /\ Slot # Published(t)
      /\ \A t \in Tables, c \in AuditColumns : Slot # Column(t, c)
  BY DEF Slot, Publication, Identity, Published, Column
<1>2. CASE \E t \in Tables : s = AlterIdentity(t)
  BY <1>1, <1>2 DEF AlterIdentity
<1>3. CASE s = CreatePublication
  BY <1>1, <1>3 DEF CreatePublication, Members
<1>4. CASE \E t \in Tables : s = AddTable(t)
  BY <1>1, <1>4 DEF AddTable
<1>5. CASE \E t \in Tables, c \in AuditColumns : s = AddColumn(t, c)
  BY <1>1, <1>5 DEF AddColumn
<1> QED
  BY <1>2, <1>3, <1>4, <1>5 DEF Statements

\* A statement that is made changes from pending to made.
LEMMA ExecuteKeepsPlan == Execute => Planned \subseteq Planned' /\ made \subseteq made'
<1> SUFFICES ASSUME Execute PROVE Planned \subseteq Planned' /\ made \subseteq made'
  OBVIOUS
<1>1. PICK s \in todo : made' = made \cup s.makes /\ todo' = todo \ {s}
  BY DEF Execute
<1> QED
  BY <1>1 DEF Planned

LEMMA OrderSetupWork ==
  ASSUME TypeOK, OrderInv, SetupWork
  PROVE  OrderInv'
<1> USE DEF OrderInv, At, Goto
<1>1. todo = {} => Planned = made
  BY DEF Planned
<1>2. CASE VerifyPgTables
  BY <1>2 DEF VerifyPgTables
<1>3. CASE VisitIdentity
  <2>1. PICK t \in visit :
          /\ todo = {} /\ step = "identity" /\ step' = "identity"
          /\ visit' = visit \ {t} /\ made' = made
          /\ todo' = IF Identity(t) \in made THEN {} ELSE {AlterIdentity(t)}
    BY <1>3 DEF VisitIdentity
  <2>2. Identity(t) \in Planned' /\ made \subseteq Planned'
    BY <2>1 DEF Planned, AlterIdentity
  <2> QED
    BY <1>1, <2>1, <2>2 DEF TypeOK
<1>4. CASE IdentityDone
  BY <1>1, <1>4 DEF IdentityDone, Identities
<1>5. CASE ReadPublication
  <2>1. CreatePublication \in todo' => Members \subseteq Planned'
    BY DEF CreatePublication, Planned
  <2> QED
    BY <1>5, <2>1 DEF ReadPublication
<1>6. CASE ReadMissingTables
  <2>1. /\ step = "missing" /\ step' = "slot" /\ made' = made
        /\ todo' = {AddTable(t) : t \in {u \in Tables : Published(u) \notin made}}
    BY <1>6 DEF ReadMissingTables
  <2>2. ASSUME NEW t \in Tables
        PROVE  Published(t) \in Planned'
    <3>1. CASE Published(t) \in made
      BY <2>1, <3>1 DEF Planned
    <3>2. CASE Published(t) \notin made
      <4>1. AddTable(t) \in todo' /\ Published(t) \in AddTable(t).makes
        BY <2>1, <3>2 DEF AddTable
      <4> QED
        BY <4>1 DEF Planned
    <3> QED
      BY <3>1, <3>2
  <2>3. Members \subseteq Planned'
    BY <2>1, <2>2 DEF Members, Planned
  <2> QED
    BY <2>1, <2>3
<1>7. CASE ReadSlot
  <2>1. CreateSlot \in todo' => Slot \in Planned'
    BY DEF CreateSlot, Planned
  <2>2. made \subseteq made' => made \subseteq Planned'
    BY DEF Planned
  <2> QED
    BY <1>1, <1>7, <2>1, <2>2 DEF ReadSlot
<1>8. CASE VerifyStarRocks
  BY <1>1, <1>8 DEF VerifyStarRocks, TypeOK
<1>9. CASE VisitColumns
  <2>1. PICK t \in visit :
          /\ todo = {} /\ step = "columns" /\ step' = "columns"
          /\ visit' = visit \ {t} /\ made' = made
          /\ todo' = {AddColumn(t, c) : c \in {d \in AuditColumns : Column(t, d) \notin made}}
    BY <1>9 DEF VisitColumns
  <2>2. ASSUME NEW c \in AuditColumns
        PROVE  Column(t, c) \in Planned'
    <3>1. CASE Column(t, c) \in made
      BY <2>1, <3>1 DEF Planned
    <3>2. CASE Column(t, c) \notin made
      <4>1. AddColumn(t, c) \in todo' /\ Column(t, c) \in AddColumn(t, c).makes
        BY <2>1, <3>2 DEF AddColumn
      <4> QED
        BY <4>1 DEF Planned
    <3> QED
      BY <3>1, <3>2
  <2>3. ColumnsOf(t) \subseteq Planned' /\ made \subseteq Planned'
    BY <2>1, <2>2 DEF ColumnsOf, Planned
  <2> QED
    BY <1>1, <2>1, <2>3
<1>10. CASE ColumnsDone
  BY <1>1, <1>10 DEF ColumnsDone, Columns
<1>11. CASE Execute
  BY <1>11, ExecuteKeepsPlan DEF Execute
<1>12. CASE ExecuteRefused
  BY <1>12 DEF ExecuteRefused
<1> QED
  BY <1>2, <1>3, <1>4, <1>5, <1>6, <1>7, <1>8, <1>9, <1>10, <1>11, <1>12 DEF SetupWork

LEMMA OrderNext == TypeOK /\ OrderInv /\ [Next]_vars => OrderInv'
<1> SUFFICES ASSUME TypeOK, OrderInv, [Next]_vars PROVE OrderInv'
  OBVIOUS
<1>1. ASSUME made \subseteq made', UNCHANGED <<step, visit, todo>>
      PROVE  OrderInv'
  BY <1>1 DEF OrderInv, Planned
<1>2. ASSUME step' \in {"off", "tables", "error"}
      PROVE  OrderInv'
  BY <1>2 DEF OrderInv
<1>3. CASE SetupSteps
  BY <1>3, OrderSetupWork DEF SetupSteps
<1>4. CASE RunSetup
  BY <1>2, <1>4 DEF RunSetup
<1>5. CASE CallFailure
  BY <1>2, <1>5 DEF CallFailure, CallFails
<1>6. CASE ConnectFails \/ Kill \/ Replace
  BY <1>2, <1>6 DEF ConnectFails, Kill, Replace, ProcessGone
<1>7. CASE Boot \/ StageSetup \/ DetailStarting \/ SpawnGrpc \/ ServeGrpc
  BY <1>1, <1>7
  DEF Boot, StageSetup, WriteStage, DetailStarting, WriteDetail, SpawnGrpc,
      ServeGrpc, setupVars
<1>8. CASE SetupOk \/ SetupFails \/ StageCdc \/ DetailReplicating \/ Stop
  BY <1>1, <1>8
  DEF SetupOk, SetupFails, StageCdc, WriteStage, DetailReplicating, WriteDetail,
      Stop, setupVars
<1>9. CASE OpenSource \/ Servers
  BY <1>1, <1>9 DEF OpenSource, Servers, LeftoverEnds, CreateTable
<1>10. CASE Check \/ UNCHANGED vars
  BY <1>1, <1>10, TypeCheck DEF vars, setupVars
<1> QED
  BY <1>3, <1>4, <1>5, <1>6, <1>7, <1>8, <1>9, <1>10 DEF Next, Engine

\* The other statements of setup are not the one for the slot.
LEMMA SlotStatementApart ==
  /\ \A t \in Tables : AlterIdentity(t) # CreateSlot /\ AddTable(t) # CreateSlot
  /\ \A t \in Tables, c \in AuditColumns : AddColumn(t, c) # CreateSlot
  /\ CreatePublication # CreateSlot
<1>1. /\ Slot # Publication
      /\ \A t \in Tables : Slot # Identity(t) /\ Slot # Published(t)
      /\ \A t \in Tables, c \in AuditColumns : Slot # Column(t, c)
  BY DEF Slot, Publication, Identity, Published, Column
<1>2. CreateSlot.makes = {Slot} /\ Publication \in CreatePublication.makes
  BY DEF CreateSlot, CreatePublication, Members
<1>3. \A t \in Tables : /\ AlterIdentity(t).makes = {Identity(t)}
                        /\ AddTable(t).makes = {Published(t)}
  BY DEF AlterIdentity, AddTable
<1>4. \A t \in Tables, c \in AuditColumns : AddColumn(t, c).makes = {Column(t, c)}
  BY DEF AddColumn
<1> QED
  BY <1>1, <1>2, <1>3, <1>4

\* The slot is decided on in one place, behind identities and publication.
LEMMA ReadySetupWork ==
  ASSUME TypeOK, OrderInv, ReadyInv, SetupWork
  PROVE  CreateSlot \in todo' \cup leftover' => Identities \cup Members \subseteq made'
<1> USE DEF ReadyInv, At, Goto
<1>1. made \subseteq made' /\ leftover' = leftover
  BY DEF SetupWork, VerifyPgTables, VisitIdentity, IdentityDone, ReadPublication,
         ReadMissingTables, ReadSlot, VerifyStarRocks, VisitColumns, ColumnsDone,
         Execute, ExecuteRefused
<1>2. CASE ReadSlot
  <2>1. Planned = made
    BY <1>2 DEF ReadSlot, Planned
  <2> QED
    BY <1>1, <1>2, <2>1 DEF ReadSlot, OrderInv
<1>3. CASE ~ReadSlot
  <2>1. CreateSlot \in todo' => CreateSlot \in todo
    BY <1>3, SlotStatementApart
    DEF TypeOK, SetupWork, VerifyPgTables, VisitIdentity, IdentityDone, ReadPublication,
        ReadMissingTables, VerifyStarRocks, VisitColumns, ColumnsDone,
        Execute, ExecuteRefused
  <2> QED
    BY <1>1, <2>1
<1> QED
  BY <1>2, <1>3

LEMMA ReadyNext == TypeInv /\ OrderInv /\ ReadyInv /\ [Next]_vars => ReadyInv'
<1> SUFFICES ASSUME TypeInv, OrderInv, ReadyInv, [Next]_vars PROVE ReadyInv'
  OBVIOUS
<1> USE DEF TypeInv, TypeOK, ReadyInv
<1>1. CASE SetupSteps
  BY <1>1, ReadySetupWork DEF SetupSteps
<1>2. CASE SetupOk
  <2>1. Goal \subseteq made
    BY <1>2 DEF SetupOk, OrderInv, Goal
  <2> QED
    BY <1>2, <2>1 DEF SetupOk, WriteDetail, setupVars
<1>3. CASE CallFailure
  BY <1>3 DEF CallFailure, CallFails, Abandon
<1>4. CASE ConnectFails \/ Replace
  BY <1>4 DEF ConnectFails, Replace, ProcessGone
<1>5. CASE Kill
  BY <1>5 DEF Kill, ProcessGone, Abandon
<1>6. CASE Servers
  BY <1>6 DEF Servers, LeftoverEnds, CreateTable
<1>7. CASE OpenSource
  BY <1>7 DEF OpenSource
<1>8. CASE Boot \/ StageSetup \/ DetailStarting \/ SpawnGrpc \/ ServeGrpc \/ RunSetup
  BY <1>8
  DEF Boot, StageSetup, WriteStage, DetailStarting, WriteDetail, SpawnGrpc,
      ServeGrpc, RunSetup, setupVars
<1>9. CASE SetupFails \/ StageCdc \/ DetailReplicating \/ Stop
  BY <1>9
  DEF SetupFails, StageCdc, WriteStage, DetailReplicating, WriteDetail, Stop, setupVars
<1>10. CASE Check \/ UNCHANGED vars
  BY <1>10, TypeCheck DEF vars, setupVars
<1> QED
  BY <1>1, <1>2, <1>3, <1>4, <1>5, <1>6, <1>7, <1>8, <1>9, <1>10 DEF Next, Engine

LEMMA OrderInvariance == Spec => [](TypeInv /\ OrderInv /\ ReadyInv)
<1>1. Init => OrderInv /\ ReadyInv
  BY DEF Init, SetupInit, OrderInv, ReadyInv
<1>2. TypeInv => TypeOK
  BY DEF TypeInv
<1> QED
  BY <1>1, <1>2, TypeInit, TypeNext, OrderNext, ReadyNext, PTL DEF Spec

\* Wherever earlier setups were cut off and whatever the servers finished for
\* them later, the slot never comes before the publication and the identities.
THEOREM SlotComesLast == Spec => SlotLast
<1>1. TypeInv /\ OrderInv /\ ReadyInv /\ [Next]_vars
        => [Slot \notin made /\ Slot \in made' => Identities \cup Members \subseteq made]_vars
  <2> SUFFICES ASSUME TypeInv, ReadyInv, Next, Slot \notin made, Slot \in made'
               PROVE  Identities \cup Members \subseteq made
    OBVIOUS
  <2>1. \A s \in todo \cup leftover :
          Slot \in s.makes => Identities \cup Members \subseteq made
    BY SlotStatement DEF TypeInv, TypeOK, ReadyInv
  <2>2. CASE SetupSteps
    <3>1. Execute
      BY <2>2
      DEF SetupSteps, SetupWork, VerifyPgTables, VisitIdentity, IdentityDone,
          ReadPublication, ReadMissingTables, ReadSlot, VerifyStarRocks,
          VisitColumns, ColumnsDone, ExecuteRefused, Goto
    <3> QED
      BY <2>1, <3>1 DEF Execute
  <2>3. CASE Servers
    <3>1. CASE LeftoverEnds
      <4>1. PICK s \in leftover : made' = made \cup s.makes
        BY <3>1 DEF LeftoverEnds
      <4> QED
        BY <2>1, <4>1
    <3>2. CASE CreateTable
      <4>1. PICK f \in PgTables \cup SrTables : made' = made \cup {f}
        BY <3>2 DEF CreateTable
      <4>2. PICK t \in Tables : f = PgTable(t) \/ f = SrTable(t)
        BY DEF PgTables, SrTables
      <4>3. PgTable(t).what # Slot.what /\ SrTable(t).what # Slot.what
        BY DEF PgTable, SrTable, Slot
      <4> QED
        BY <4>1, <4>2, <4>3
    <3> QED
      BY <2>3, <3>1, <3>2 DEF Servers
  <2>4. CASE OpenSource
    BY <2>4 DEF OpenSource, ReadyInv, Goal
  <2>5. CASE ~(SetupSteps \/ Servers \/ OpenSource)
    <3>1. made' = made
      BY <2>5, TypeCheck
      DEF Next, Engine, TypeInv, Boot, StageSetup, StageCdc, WriteStage,
          DetailStarting, DetailReplicating, WriteDetail, SpawnGrpc, ServeGrpc,
          RunSetup, SetupOk, SetupFails, CallFailure, CallFails, ConnectFails,
          Kill, Abandon, Replace, Stop, setupVars
    <3> QED
      BY <3>1
  <2> QED
    BY <2>2, <2>3, <2>4, <2>5
<1> QED
  BY <1>1, OrderInvariance, PTL DEF Spec, SlotLast

\* Whoever was told the stage Cdc can rely on all that setup is for.
THEOREM CdcIsReady == Spec => []CdcMeansReady
<1>1. ReportInv /\ ReadyInv => CdcMeansReady
  BY DEF ReportInv, ProbeInv, ReadyInv, CdcMeansReady
<1> QED
  BY <1>1, ReportInvariance, OrderInvariance, PTL

-----------------------------------------------------------------------------
(* Refused statements *)

\* Pending statements do not get in each other's way, and no table is a member
\* of a publication that is not there.
RefusalInv ==
  /\ RefusedByLeftover
  /\ \A s, r \in todo : s # r => s.makes \cap r.makes = {}
  /\ \A t \in Tables : Published(t) \in made => Publication \in made
  /\ \A t \in Tables : AddTable(t) \in todo \cup leftover => Publication \in made

LEMMA PublishedStatement ==
  ASSUME NEW s \in Statements, NEW t \in Tables, Published(t) \in s.makes
  PROVE  Publication \in s.makes \/ s = AddTable(t)
<1>1. /\ \A u \in Tables : Published(t) # Identity(u)
      /\ \A u \in Tables, c \in AuditColumns : Published(t) # Column(u, c)
      /\ Published(t) # Slot
  BY DEF Slot, Identity, Published, Column
<1>2. CASE \E u \in Tables : s = AlterIdentity(u)
  BY <1>1, <1>2 DEF AlterIdentity
<1>3. CASE s = CreatePublication
  BY <1>3 DEF CreatePublication, Members
<1>4. CASE s = CreateSlot
  BY <1>1, <1>4 DEF CreateSlot
<1>5. CASE \E u \in Tables : s = AddTable(u)
  BY <1>5 DEF AddTable
<1>6. CASE \E u \in Tables, c \in AuditColumns : s = AddColumn(u, c)
  BY <1>1, <1>6 DEF AddColumn
<1> QED
  BY <1>2, <1>3, <1>4, <1>5, <1>6 DEF Statements

\* AddTable is no other statement.
LEMMA AddTableApart ==
  ASSUME NEW t \in Tables
  PROVE  /\ \A u \in Tables : AddTable(t) # AlterIdentity(u)
         /\ AddTable(t) # CreatePublication
         /\ AddTable(t) # CreateSlot
         /\ \A u \in Tables, c \in AuditColumns : AddTable(t) # AddColumn(u, c)
<1>1. /\ \A u \in Tables : Published(t) # Identity(u)
      /\ \A u \in Tables, c \in AuditColumns : Published(t) # Column(u, c)
      /\ Published(t) # Slot /\ Published(t) # Publication
  BY DEF Slot, Identity, Published, Column, Publication
<1>2. AddTable(t).makes = {Published(t)} /\ CreateSlot.makes = {Slot}
  BY DEF AddTable, CreateSlot
<1>3. Publication \in CreatePublication.makes
  BY DEF CreatePublication, Members
<1>4. \A u \in Tables : AlterIdentity(u).makes = {Identity(u)}
  BY DEF AlterIdentity
<1>5. \A u \in Tables, c \in AuditColumns : AddColumn(u, c).makes = {Column(u, c)}
  BY DEF AddColumn
<1> QED
  BY <1>1, <1>2, <1>3, <1>4, <1>5

\* A statement is decided on only if what it makes is not there.
LEMMA RefusalDecided ==
  ASSUME TypeOK, OrderInv, RefusalInv, SetupWork, ~Execute
  PROVE  RefusalInv'
<1> USE DEF RefusalInv, RefusedByLeftover, Refused, At, Goto
<1>1. made' = made /\ leftover' = leftover /\ byLeftover' = byLeftover
  BY DEF SetupWork, VerifyPgTables, VisitIdentity, IdentityDone, ReadPublication,
         ReadMissingTables, ReadSlot, VerifyStarRocks, VisitColumns, ColumnsDone,
         ExecuteRefused
<1>2. ASSUME \A s \in todo' : s.strict => s.makes \cap made = {},
             \A s, r \in todo' : s # r => s.makes \cap r.makes = {},
             \A t \in Tables : AddTable(t) \in todo' => Publication \in made
      PROVE  RefusalInv'
  BY <1>1, <1>2
<1>3. CASE todo' = {}
  BY <1>2, <1>3
<1>4. CASE VisitIdentity
  <2>1. PICK t \in Tables : todo' \subseteq {AlterIdentity(t)}
    BY <1>4 DEF VisitIdentity, TypeOK
  <2>2. \A s \in todo' : ~s.strict
    BY <2>1 DEF AlterIdentity
  <2> QED
    BY <1>2, <2>1, <2>2, AddTableApart
<1>5. CASE ReadPublication /\ todo' # {}
  <2>1. Publication \notin made /\ todo' = {CreatePublication}
    BY <1>5 DEF ReadPublication
  <2>2. CreatePublication.makes \cap made = {}
    BY <2>1 DEF CreatePublication, Members
  <2> QED
    BY <1>2, <2>1, <2>2, AddTableApart
<1>6. CASE ReadMissingTables
  <2>1. todo' = {AddTable(t) : t \in {u \in Tables : Published(u) \notin made}}
    BY <1>6 DEF ReadMissingTables
  <2>2. \A t \in Tables : AddTable(t).makes = {Published(t)}
    BY DEF AddTable
  <2>3. \A s \in todo' : s.makes \cap made = {}
    BY <2>1, <2>2
  <2>4. \A t, u \in Tables :
          AddTable(t) # AddTable(u) => Published(t) # Published(u)
    BY DEF AddTable
  <2>5. \A s, r \in todo' : s # r => s.makes \cap r.makes = {}
    BY <2>1, <2>2, <2>4
  <2>6. Publication \in made
    BY <1>6 DEF ReadMissingTables, OrderInv
  <2> QED
    BY <1>2, <2>3, <2>5, <2>6
<1>7. CASE ReadSlot /\ todo' # {}
  <2>1. Slot \notin made /\ todo' = {CreateSlot}
    BY <1>7 DEF ReadSlot
  <2> QED
    BY <1>2, <2>1, AddTableApart DEF CreateSlot
<1>8. CASE VisitColumns
  <2>1. PICK t \in Tables :
          todo' = {AddColumn(t, c) : c \in {d \in AuditColumns : Column(t, d) \notin made}}
    BY <1>8 DEF VisitColumns, TypeOK
  <2>2. \A c \in AuditColumns : AddColumn(t, c).makes = {Column(t, c)}
    BY DEF AddColumn
  <2>3. \A s \in todo' : s.makes \cap made = {}
    BY <2>1, <2>2
  <2>4. \A c, d \in AuditColumns :
          AddColumn(t, c) # AddColumn(t, d) => Column(t, c) # Column(t, d)
    BY DEF AddColumn
  <2>5. \A s, r \in todo' : s # r => s.makes \cap r.makes = {}
    BY <2>1, <2>2, <2>4
  <2> QED
    BY <1>2, <2>1, <2>3, <2>5, AddTableApart
<1> QED
  BY <1>3, <1>4, <1>5, <1>6, <1>7, <1>8
  DEF SetupWork, VerifyPgTables, IdentityDone, VerifyStarRocks, ColumnsDone, ExecuteRefused

\* What a statement makes only the pending ones that come after could miss.
LEMMA RefusalExecute ==
  ASSUME TypeOK, RefusalInv, Execute
  PROVE  RefusalInv'
<1>1. PICK r \in todo :
        /\ made' = made \cup r.makes /\ todo' = todo \ {r}
        /\ leftover' = leftover /\ byLeftover' = byLeftover
  BY DEF Execute
<1>2. RefusedByLeftover'
  BY <1>1 DEF RefusalInv, RefusedByLeftover, Refused
<1>3. ASSUME NEW t \in Tables, Published(t) \in made'
      PROVE  Publication \in made'
  BY <1>1, <1>3, PublishedStatement DEF RefusalInv, TypeOK
<1> QED
  BY <1>1, <1>2, <1>3 DEF RefusalInv

\* What a leftover makes is on record.
LEMMA RefusalLeftover ==
  ASSUME TypeOK, RefusalInv, LeftoverEnds
  PROVE  RefusalInv'
<1>1. PICK r \in leftover :
        /\ leftover' = leftover \ {r} /\ todo' = todo
        /\ \/ made' = made \cup r.makes /\ byLeftover' = byLeftover \cup r.makes
           \/ made' = made /\ byLeftover' = byLeftover
  BY DEF LeftoverEnds
<1>2. RefusedByLeftover'
  BY <1>1 DEF RefusalInv, RefusedByLeftover, Refused
<1>3. ASSUME NEW t \in Tables, Published(t) \in made'
      PROVE  Publication \in made'
  BY <1>1, <1>3, PublishedStatement DEF RefusalInv, TypeOK
<1> QED
  BY <1>1, <1>2, <1>3 DEF RefusalInv

\* The tables themselves no statement of setup makes.
LEMMA TablesApart ==
  ASSUME NEW f \in PgTables \cup SrTables
  PROVE  f \notin Goal
<1>1. PICK t \in Tables : f = PgTable(t) \/ f = SrTable(t)
  BY DEF PgTables, SrTables
<1>2. /\ PgTable(t).what = "table in PostgreSQL" /\ SrTable(t).what = "table in StarRocks"
      /\ Publication.what = "publication" /\ Slot.what = "slot"
      /\ \A u \in Tables : /\ Identity(u).what = "replica identity full"
                          /\ Published(u).what = "in publication"
      /\ \A u \in Tables, c \in AuditColumns : Column(u, c).what = "audit column"
  BY DEF PgTable, SrTable, Identity, Publication, Published, Slot, Column
<1>3. ASSUME NEW g \in Goal
      PROVE  f # g
  <2>1. CASE g \in Identities
    BY <1>1, <1>2, <2>1 DEF Identities
  <2>2. CASE g \in Members
    BY <1>1, <1>2, <2>2 DEF Members
  <2>3. CASE g = Slot
    BY <1>1, <1>2, <2>3
  <2>4. CASE g \in Columns
    BY <1>1, <1>2, <2>4 DEF Columns, ColumnsOf
  <2> QED
    BY <2>1, <2>2, <2>3, <2>4 DEF Goal
<1> QED
  BY <1>3

LEMMA RefusalCreateTable ==
  ASSUME TypeOK, RefusalInv, CreateTable
  PROVE  RefusalInv'
<1>1. PICK f \in PgTables \cup SrTables :
        made' = made \cup {f} /\ UNCHANGED <<todo, leftover, byLeftover>>
  BY DEF CreateTable
<1>2. f \notin Goal
  BY TablesApart
<1>3. RefusedByLeftover'
  BY <1>1, <1>2, StatementsMakeGoal DEF RefusalInv, RefusedByLeftover, Refused, TypeOK
<1>4. \A t \in Tables : f # Published(t)
  BY <1>2 DEF Goal, Members
<1> QED
  BY <1>1, <1>3, <1>4 DEF RefusalInv

LEMMA RefusalNext == TypeInv /\ OrderInv /\ RefusalInv /\ [Next]_vars => RefusalInv'
<1> SUFFICES ASSUME TypeInv, OrderInv, RefusalInv, [Next]_vars PROVE RefusalInv'
  OBVIOUS
<1> USE DEF TypeInv
<1>1. CASE SetupSteps
  BY <1>1, RefusalDecided, RefusalExecute DEF SetupSteps
<1>2. CASE Servers
  BY <1>2, RefusalLeftover, RefusalCreateTable DEF Servers
<1>3. CASE CallFailure \/ Kill
  BY <1>3 DEF CallFailure, CallFails, Kill, Abandon, RefusalInv, RefusedByLeftover
<1>4. CASE ConnectFails \/ Replace
  BY <1>4 DEF ConnectFails, Replace, ProcessGone, RefusalInv, RefusedByLeftover
<1>5. CASE OpenSource
  <2>1. todo = {} /\ todo' = {} /\ leftover' = leftover /\ made' = made \cup {Slot}
    BY <1>5 DEF OpenSource, TypeOK
  <2>2. \A t \in Tables : Slot # Published(t)
    BY DEF Slot, Published
  <2> QED
    BY <2>1, <2>2 DEF RefusalInv, RefusedByLeftover
<1>6. CASE ~(SetupSteps \/ Servers \/ CallFailure \/ Kill \/ ConnectFails \/ Replace \/ OpenSource)
  <2>1. UNCHANGED <<made, todo, leftover, byLeftover>>
    BY <1>6, TypeCheck
    DEF Next, Engine, Boot, StageSetup, StageCdc, WriteStage, DetailStarting,
        DetailReplicating, WriteDetail, SpawnGrpc, ServeGrpc, RunSetup, SetupOk,
        SetupFails, Stop, vars, setupVars
  <2> QED
    BY <2>1 DEF RefusalInv, RefusedByLeftover, Refused
<1> QED
  BY <1>1, <1>2, <1>3, <1>4, <1>5, <1>6

\* A setup is only ever refused a statement that a leftover of an earlier
\* process has carried out in the meantime.
THEOREM OnlyLeftoversRefuse == Spec => []RefusedByLeftover
<1>1. Init => RefusalInv
  BY PreparedAssumption DEF Init, SetupInit, RefusalInv, RefusedByLeftover
<1>2. RefusalInv => RefusedByLeftover
  BY DEF RefusalInv
<1> QED
  BY <1>1, <1>2, RefusalNext, OrderInvariance, PTL DEF Spec

=============================================================================
