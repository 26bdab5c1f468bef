---------------------------- MODULE OperatorRun ----------------------------
(***************************************************************************)
(* What one run of a runbook operator promises (spec sections 3 and 4.6): *)
(* the run is announced with a start capture, records at most one frame  *)
(* per declared step, and then reports exactly one terminal outcome,     *)
(* followed by the end capture.  "success" is reported only once every   *)
(* step has its frame; "skipped" only when no step was recorded.  A loop *)
(* iteration that replaces the previous iteration's frame is a stutter   *)
(* step of this specification.                                            *)
(***************************************************************************)
EXTENDS Naturals, Sequences

CONSTANT NumSteps

VARIABLES status,    \* "idle", "running" or the reported outcome
          recorded,  \* number of declared steps that have a frame
          events     \* lifecycle captures emitted so far

vars == <<status, recorded, events>>

Outcomes == {"success", "skipped", "failed"}

Init ==
  /\ status = "idle"
  /\ recorded = 0
  /\ events = <<>>

Start ==
  /\ status = "idle"
  /\ status' = "running"
  /\ events' = <<"start">>
  /\ UNCHANGED recorded

RecordStep ==
  /\ status = "running"
  /\ recorded < NumSteps
  /\ recorded' = recorded + 1
  /\ UNCHANGED <<status, events>>

Report(outcome) ==
  /\ status = "running"
  /\ outcome = "success" => recorded = NumSteps
  /\ outcome = "skipped" => recorded = 0
  /\ status' = outcome
  /\ events' = events \o <<outcome, "end">>
  /\ UNCHANGED recorded

Next ==
  \/ Start
  \/ RecordStep
  \/ \E o \in Outcomes : Report(o)

Spec == Init /\ [][Next]_vars

=============================================================================
