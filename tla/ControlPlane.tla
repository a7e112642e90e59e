---------------------------- MODULE ControlPlane ----------------------------
(***************************************************************************)
(* The control half of SharedState (src/grpc/state.rs) and the handlers of *)
(* CdcControlService (src/grpc/services.rs) that change it.                *)
(*                                                                         *)
(* tonic serves each RPC on its own task, so calls run concurrently with   *)
(* each other and with the engine.  Pause and Resume are one               *)
(* compare-and-swap.  DrainAndStop and Stop read the state, store the new  *)
(* one and then send the shutdown signal: three separate steps.            *)
(*                                                                         *)
(* The module has no next-state relation of its own: the engine is the     *)
(* other party to this state, and Replication composes the two.            *)
(***************************************************************************)

CONSTANT Clients        \* gRPC calls that may be in progress at once

VARIABLES
  state,                \* SharedState.state, the AtomicU8
  shutdown,             \* an unseen `true` sits in the engine's watch receiver
  call                  \* call[c]: what the RPC of client c does next

controlVars == <<state, shutdown, call>>

CdcState == {"Running", "Paused", "Draining", "Stopped"}

Terminating == {"Draining", "Stopped"}

\* "drain" and "stop": the guard was read and passed, the store is pending;
\* "signal": the store was made, shutdown_tx.send(true) is pending.
CallPhase == {"idle", "drain", "stop", "signal"}

ControlTypeOK ==
  /\ state \in CdcState
  /\ shutdown \in BOOLEAN
  /\ call \in [Clients -> CallPhase]

ControlInit ==
  /\ state = "Running"
  /\ shutdown = FALSE
  /\ call = [c \in Clients |-> "idle"]

\* A process that ends takes its SharedState and its RPCs along; the next
\* process creates a new one.
ControlReset ==
  /\ state' = "Running"
  /\ shutdown' = FALSE
  /\ call' = [c \in Clients |-> "idle"]

-----------------------------------------------------------------------------

\* Mutant: a plain store where the code compares and swaps.
BlindSetState(expected, new) == state' = new

CompareAndSetState(expected, new) ==
  /\ state = expected
  /\ state' = new

\* A rejected call changes nothing: it is a stuttering step.
Pause(c) ==
  /\ call[c] = "idle"
  /\ CompareAndSetState("Running", "Paused")
  /\ UNCHANGED <<shutdown, call>>

Resume(c) ==
  /\ call[c] = "idle"
  /\ CompareAndSetState("Paused", "Running")
  /\ UNCHANGED <<shutdown, call>>

DrainCheck(c) ==
  /\ call[c] = "idle"
  /\ state \in {"Running", "Paused"}
  /\ call' = [call EXCEPT ![c] = "drain"]
  /\ UNCHANGED <<state, shutdown>>

\* The store is unconditional: what DrainCheck saw may have changed since.
DrainStore(c) ==
  /\ call[c] = "drain"
  /\ state' = "Draining"
  /\ call' = [call EXCEPT ![c] = "signal"]
  /\ UNCHANGED shutdown

StopCheck(c) ==
  /\ call[c] = "idle"
  /\ state # "Stopped"
  /\ call' = [call EXCEPT ![c] = "stop"]
  /\ UNCHANGED <<state, shutdown>>

StopStore(c) ==
  /\ call[c] = "stop"
  /\ state' = "Stopped"
  /\ call' = [call EXCEPT ![c] = "signal"]
  /\ UNCHANGED shutdown

\* The receiver made with the channel is dropped at once, so a send that
\* finds no subscriber fails, the value stays `false` and the error is
\* ignored: the signal is lost unless the engine has already subscribed.
SendSignal(c, subscribed) ==
  /\ call[c] = "signal"
  /\ shutdown' = (shutdown \/ subscribed)
  /\ call' = [call EXCEPT ![c] = "idle"]
  /\ UNCHANGED state

\* A call in progress runs to its end; whether a new one is made is up to
\* the operator.
FinishCall(c, subscribed) ==
  \/ DrainStore(c)
  \/ StopStore(c)
  \/ SendSignal(c, subscribed)

NewCall(c) ==
  \/ Pause(c)
  \/ Resume(c)
  \/ DrainCheck(c)
  \/ StopCheck(c)

=============================================================================
