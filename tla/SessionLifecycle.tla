-------------------------- MODULE SessionLifecycle --------------------------
(***************************************************************************)
(* What the tool-calling half of the server promises about every Copilot   *)
(* session it opens, with no mention of requests, tokens, goroutines or    *)
(* clocks.  A session is opened once, is served by one HTTP turn at a      *)
(* time, waits in the registry between turns, and once it starts to be     *)
(* torn down it is never served or parked again.                           *)
(*                                                                         *)
(* ToolSessions.tla implements this module for all sessions at once, under *)
(* the mapping phase <- PhaseOf; ToolTurns.tla implements it for the one   *)
(* session it follows, under phase <- PhaseNow.                            *)
(***************************************************************************)
EXTENDS Naturals, FiniteSets

CONSTANTS
  Sessions,    \* every Copilot session the server may open
  MaxParked    \* the registry's cap on parked sessions

VARIABLE phase \* the phase each session is in

Phases == {"unborn", "serving", "parked", "retiring", "closed"}

LifecycleTypeOK == phase \in [Sessions -> Phases]

ParkedNow == {s \in Sessions : phase[s] = "parked"}

LifecycleInit == phase = [s \in Sessions |-> "unborn"]

\* A turn-1 request opens a session and serves it.
Open(s) ==
  /\ phase[s] = "unborn"
  /\ phase' = [phase EXCEPT ![s] = "serving"]

\* A turn that emitted tool calls parks its session: there is room.
Park(s) ==
  /\ phase[s] = "serving"
  /\ Cardinality(ParkedNow) < MaxParked
  /\ phase' = [phase EXCEPT ![s] = "parked"]

\* ... or there is none, and one parked session v makes way for s.
ParkEvicting(s, v) ==
  /\ phase[s] = "serving"
  /\ phase[v] = "parked"
  /\ Cardinality(ParkedNow) = MaxParked
  /\ phase' = [phase EXCEPT ![s] = "parked", ![v] = "retiring"]

\* A later turn takes a parked session over.
Claim(s) ==
  /\ phase[s] = "parked"
  /\ phase' = [phase EXCEPT ![s] = "serving"]

\* A turn gives up or finishes its session.
Retire(s) ==
  /\ phase[s] = "serving"
  /\ phase' = [phase EXCEPT ![s] = "retiring"]

\* A set of parked sessions expires.
Expire(S) ==
  /\ S # {}
  /\ S \subseteq ParkedNow
  /\ phase' = [s \in Sessions |-> IF s \in S THEN "retiring" ELSE phase[s]]

\* The teardown of a session completes.
Close(s) ==
  /\ phase[s] = "retiring"
  /\ phase' = [phase EXCEPT ![s] = "closed"]

LifecycleNext ==
  \/ \E s \in Sessions : Open(s) \/ Park(s) \/ Claim(s) \/ Retire(s) \/ Close(s)
  \/ \E s, v \in Sessions : ParkEvicting(s, v)
  \/ \E S \in SUBSET Sessions : Expire(S)

LifecycleSpec == LifecycleInit /\ [][LifecycleNext]_phase

=============================================================================
