------------------------------- MODULE Batch -------------------------------
(***************************************************************************)
(* operators.RunN of src/operator.go: the loaded, sorted operators are    *)
(* run one after the other; each run's outcome is tallied in runNResult   *)
(* and announced through the operator's capturers; an operator with       *)
(* failFast ends the batch at its first failure; all operators are closed *)
(* when RunN returns.  One operator's run (operator.run) is abstracted to *)
(* its outcome, as specified by OperatorRun.  After RunN the summary is  *)
(* printed by runNResult.Out of src/result.go.  result.go declares        *)
(* runNResult again, with the field Failure for operator.go's Failed; Out *)
(* is read over the tallies RunN keeps.                                   *)
(***************************************************************************)
EXTENDS Integers, Sequences, FiniteSets

CONSTANT NumOps   \* len(ops.ops), after filtering, sorting and sharding

ASSUME NumOps \in Nat

Ops == 1..NumOps

Outcomes == {"success", "skipped", "failed"}

VARIABLES
  failFast,  \* o.failFast of each operator (fixed for a behaviour)
  pc,        \* "idle", "running", "run", "end", "closing", "done"
             \* or "reported"
  k,         \* index of the next operator to run
  result,    \* ops.result
  captures,  \* lifecycle captures emitted for each operator
  closed,    \* operators closed by ops.Close
  summary    \* the summary line runNResult.Out printed, or NoSummary

vars == <<failFast, pc, k, result, captures, closed, summary>>

NoSummary == [printed |-> FALSE]

\* Mutant: Total counts one operator too many.
ClearResultOffByOne ==
  [Total |-> NumOps + 1, Success |-> 0, Failed |-> 0, Skipped |-> 0]

\* clearResult: a fresh result whose Total is the number of operators.
ClearResult ==
  [Total |-> NumOps, Success |-> 0, Failed |-> 0, Skipped |-> 0]

Init ==
  /\ failFast \in [Ops -> BOOLEAN]
  /\ pc = "idle"
  /\ k = 1
  /\ result = [Total |-> 0, Success |-> 0, Failed |-> 0, Skipped |-> 0]
  /\ captures = [o \in Ops |-> <<>>]
  /\ closed = {}
  /\ summary = NoSummary

\* RunN starts: clearResult.
Start ==
  /\ pc = "idle"
  /\ pc' = "running"
  /\ result' = ClearResult
  /\ UNCHANGED <<failFast, k, captures, closed, summary>>

\* Tally field and capture of an outcome.
Tally == [success |-> "Success", skipped |-> "Skipped", failed |-> "Failed"]

\* The next operator is announced: captureStart.
CaptureStart ==
  /\ pc = "running"
  /\ k <= NumOps
  /\ captures' = [captures EXCEPT ![k] = <<"start">>]
  /\ pc' = "run"
  /\ UNCHANGED <<failFast, k, result, closed, summary>>

\* Mutant: the failFast return forgets its own captureEnd.
RunFailedNoEndOnFailFast ==
  /\ pc = "run"
  /\ result' = [result EXCEPT !.Failed = @ + 1]
  /\ captures' = [captures EXCEPT ![k] = Append(@, "failed")]
  /\ pc' = IF failFast[k] THEN "closing" ELSE "end"
  /\ UNCHANGED <<failFast, k, closed, summary>>

\* Mutant: ops.Close is called after the loop instead of being deferred,
\* so the failFast return skips it.
RunFailedCloseNotDeferred ==
  /\ pc = "run"
  /\ result' = [result EXCEPT !.Failed = @ + 1]
  /\ captures' = [captures EXCEPT ![k] =
                    IF failFast[k] THEN @ \o <<"failed", "end">>
                                   ELSE Append(@, "failed")]
  /\ pc' = IF failFast[k] THEN "done" ELSE "end"
  /\ UNCHANGED <<failFast, k, closed, summary>>

\* o.run returned an error: captureFailed and the Failed tally; a failFast
\* operator then emits captureEnd itself and RunN returns.
RunFailed ==
  /\ pc = "run"
  /\ result' = [result EXCEPT !.Failed = @ + 1]
  /\ captures' = [captures EXCEPT ![k] =
                    IF failFast[k] THEN @ \o <<"failed", "end">>
                                   ELSE Append(@, "failed")]
  /\ pc' = IF failFast[k] THEN "closing" ELSE "end"
  /\ UNCHANGED <<failFast, k, closed, summary>>

\* o.run returned nil: o.Skipped() picks the Skipped or the Success tally
\* and captureSkipped or captureSuccess.
RunPassed ==
  /\ pc = "run"
  /\ \E outcome \in {"skipped", "success"} :
       /\ result' = [result EXCEPT ![Tally[outcome]] = @ + 1]
       /\ captures' = [captures EXCEPT ![k] = Append(@, outcome)]
  /\ pc' = "end"
  /\ UNCHANGED <<failFast, k, closed, summary>>

\* captureEnd at the bottom of the loop body; the next operator follows.
CaptureEnd ==
  /\ pc = "end"
  /\ captures' = [captures EXCEPT ![k] = Append(@, "end")]
  /\ k' = k + 1
  /\ pc' = "running"
  /\ UNCHANGED <<failFast, result, closed, summary>>

\* The loop is over.
LoopDone ==
  /\ pc = "running"
  /\ k > NumOps
  /\ pc' = "closing"
  /\ UNCHANGED <<failFast, k, result, captures, closed, summary>>

\* The deferred ops.Close closes every operator of the batch, run or not.
Close ==
  /\ pc = "closing"
  /\ closed' = Ops
  /\ pc' = "done"
  /\ UNCHANGED <<failFast, k, result, captures, summary>>

\* Mutant: a single failure is printed as a success.
HasFailureFromTwo(r) == r.Failed > 1

\* runNResult.HasFailure.
HasFailure(r) == r.Failed > 0

\* runNResult.Out, once RunN has returned: "N scenario(s), M skipped, K
\* failure(s)", red when HasFailure and green otherwise.
Out ==
  /\ pc = "done"
  /\ pc' = "reported"
  /\ summary' = [printed |-> TRUE, scenarios |-> result.Total,
                  skipped |-> result.Skipped, failures |-> result.Failed,
                  red |-> HasFailure(result)]
  /\ UNCHANGED <<failFast, k, result, captures, closed>>

\* The batch has been run and reported.
Terminated ==
  /\ pc = "reported"
  /\ UNCHANGED vars

Next ==
  \/ Start
  \/ CaptureStart
  \/ RunFailed
  \/ RunPassed
  \/ CaptureEnd
  \/ LoopDone
  \/ Close
  \/ Out
  \/ Terminated

Spec == Init /\ [][Next]_vars /\ WF_vars(Next)

-----------------------------------------------------------------------------
(* Properties.                                                             *)

TypeOK ==
  /\ failFast \in [Ops -> BOOLEAN]
  /\ pc \in {"idle", "running", "run", "end", "closing", "done", "reported"}
  /\ k \in 1..(NumOps + 1)
  /\ result \in [{"Total", "Success", "Failed", "Skipped"} -> 0..NumOps]
  /\ captures \in [Ops -> Seq({"start", "end"} \cup Outcomes)]
  /\ closed \in {{}, Ops}
  /\ summary \in {NoSummary} \cup
       [printed : {TRUE}, scenarios : 0..NumOps, skipped : 0..NumOps,
        failures : 0..NumOps, red : BOOLEAN]

\* RunN has returned.
Returned == pc \in {"done", "reported"}

(* Every operator whose run was announced with captureStart received     *)
(* exactly one outcome and then captureEnd by the time RunN returns: the *)
(* failFast return emits its own captureEnd, apart from the one at the   *)
(* bottom of the loop; operators after it were never announced.          *)
CapturesBalanced ==
  Returned =>
    \A o \in Ops :
      captures[o] \in {<<>>} \cup {<<"start", x, "end">> : x \in Outcomes}

(* RunN returns, and every operator is then closed.                      *)
Termination == <>(pc = "done" /\ closed = Ops)

(* After RunN, total = success + failure + skipped (spec section 8).     *)
TotalIsSumOfTallies ==
  Returned =>
    result.Total = result.Success + result.Failed + result.Skipped

=============================================================================
