------------------------------ MODULE Operator ------------------------------
(***************************************************************************)
(* One run of a runbook operator: operator.Run, run and runInternal of    *)
(* src/operator.go, with the recording of step frames into the store     *)
(* (operator.record, recortAsListed, recortAsMapped).                     *)
(*                                                                         *)
(* The runbook is chosen in Init from StepConfigs: each step has an       *)
(* optional `if`, an optional dispatch runner, a set of post-hooks and an *)
(* optional loop.  Expression results (`if`, `count`, `until`, `test`)   *)
(* and runner results are nondeterministic: any of the outcomes the code *)
(* can observe.  A frame is tagged with the step and loop iteration that *)
(* recorded it, so that properties can tell frames apart.                 *)
(***************************************************************************)
EXTENDS Integers, Sequences, FiniteSets, TLC

CONSTANTS
  NumSteps,     \* number of steps of the runbook
  StepConfigs,  \* the step shapes a runbook may contain
  MaxCount,     \* largest loop count of any configuration
  NumBefore,    \* number of beforeFuncs
  NumAfter,     \* number of afterFuncs
  CanCancel     \* whether the context passed to Run may be cancelled

ASSUME NumSteps \in Nat /\ NumBefore \in Nat /\ NumAfter \in Nat
ASSUME MaxCount \in Nat \ {0} /\ CanCancel \in BOOLEAN

\* Post-hooks in the order stepFn applies them.
Hooks == <<"dump", "bind", "test">>

\* store.loopIndex == nil
NoLoop == -1

LoopConfigs ==
  [present : BOOLEAN, count : 0..MaxCount, until : BOOLEAN]

StepConfig ==
  [cond : BOOLEAN, runner : BOOLEAN, hooks : SUBSET {"dump", "bind", "test"},
   loop : LoopConfigs]

ASSUME StepConfigs \subseteq StepConfig

VARIABLES
  book,          \* the steps of the runbook (fixed for a behaviour)
  useMap,        \* `steps:` written as a map (fixed)
  hasCond,       \* the runbook has a top-level `if` (fixed)
  skipTest,      \* operator option skipTest (fixed)
  pc,            \* control point of runInternal
  i,             \* index of the current step (1-based)
  j, c,          \* loop iteration and evaluated loop count
  h,             \* index in Hooks of the post-hook about to run
  fn,            \* index of the before/after func about to run
  runned,        \* stepFn's local `runned`
  retrySuccess,  \* the loop's local `retrySuccess`
  loopIndex,     \* store.loopIndex
  frames,        \* store.steps   (list mode)
  stepMap,       \* store.stepMap (map mode), keyed by step position
  skipped,       \* operator.skipped
  err,           \* runInternal returned an error
  events,        \* lifecycle captures emitted by Run
  cancelledAt,   \* control point at which the context was cancelled
  closed         \* operator.Close has closed the gRPC runners

fixed == <<book, useMap, hasCond, skipTest>>
ctl   == <<pc, i, j, c, h, fn, runned, retrySuccess, loopIndex>>
store == <<frames, stepMap>>
out   == <<skipped, err, events, closed>>
vars  == <<fixed, ctl, store, out, cancelledAt>>

Cfg == book[i]

NotCancelled == "none"

\* The context is done.
cancelled == cancelledAt # NotCancelled

Frame(res) == [step |-> i, iter |-> loopIndex, res |-> res]

Frames == IF useMap THEN stepMap ELSE frames

-----------------------------------------------------------------------------
(* Recording a frame.                                                      *)

\* Mutant: the previous frame is dropped on every loop iteration.
RecordListFromFirstIteration(v) ==
  frames' = Append(IF loopIndex >= 0 THEN SubSeq(frames, 1, Len(frames) - 1)
                                     ELSE frames, v)

\* recortAsListed: inside iteration k > 0 the frame of iteration k-1 is
\* removed before the new one is appended.
RecordList(v) ==
  frames' = Append(IF loopIndex > 0 THEN SubSeq(frames, 1, Len(frames) - 1)
                                    ELSE frames, v)

\* recortAsMapped: the key is the one of steps[len(stepMap)]; inside
\* iteration k > 0 the key of steps[len(stepMap)-1] is deleted first.
RecordMap(v) ==
  LET m == IF loopIndex > 0
           THEN [x \in DOMAIN stepMap \ {Cardinality(DOMAIN stepMap)} |-> stepMap[x]]
           ELSE stepMap
      k == Cardinality(DOMAIN m) + 1
  IN  /\ Assert(k <= NumSteps, "recortAsMapped: o.steps index out of range")
      /\ stepMap' = (k :> v) @@ m

Record(v) ==
  IF useMap THEN RecordMap(v) /\ UNCHANGED frames
            ELSE RecordList(v) /\ UNCHANGED stepMap

RecordIfNotRunned ==
  IF runned THEN UNCHANGED store ELSE Record(Frame(FALSE))

-----------------------------------------------------------------------------
(* Control transfers shared by several actions.                           *)

\* Go to step k, or past the last step to the afterFuncs.  Every step but
\* the first begins with the interval sleep.
GoToStep(k) ==
  IF k <= NumSteps
  THEN pc' = (IF k > 1 THEN "sleep" ELSE "guard") /\ i' = k /\ fn' = fn
  ELSE /\ i' = k
       /\ IF NumAfter > 0 THEN pc' = "after" /\ fn' = 0
                          ELSE pc' = "end" /\ fn' = fn

\* runInternal returns an error; the deferred reset clears loopIndex.
Fail ==
  /\ pc' = "end"
  /\ err' = TRUE
  /\ loopIndex' = NoLoop

\* The next configured post-hook at or after index from.
NextHook(from) ==
  LET hs == {m \in from..Len(Hooks) : Hooks[m] \in Cfg.hooks}
  IN  IF hs = {} THEN pc' = "bodyend" /\ h' = h
                 ELSE pc' = "hook" /\ h' = (CHOOSE m \in hs : \A n \in hs : m <= n)

\* stepFn returned nil: the loop checks `until` or counts the iteration.
BodyDone ==
  IF Cfg.loop.present
  THEN IF Cfg.loop.until
       THEN pc' = "until" /\ UNCHANGED <<i, j, fn, loopIndex>>
       ELSE pc' = "loop" /\ j' = j + 1 /\ UNCHANGED <<i, fn, loopIndex>>
  ELSE GoToStep(i + 1) /\ UNCHANGED <<j, loopIndex>>

-----------------------------------------------------------------------------
(* Actions.                                                                *)

\* Run: captureStart, then runInternal.
StartRun ==
  /\ pc = "idle"
  /\ pc' = "cond"
  /\ events' = <<"start">>
  /\ UNCHANGED <<fixed, i, j, c, h, fn, runned, retrySuccess, loopIndex>>
  /\ UNCHANGED <<store, skipped, err, closed, cancelledAt>>

GoBefore ==
  IF NumBefore > 0 THEN pc' = "before" /\ i' = i /\ fn' = 0 ELSE GoToStep(1)

\* Mutant: a false top-level `if` returns without setting o.skipped.
OperatorCondNoSkipFlag ==
  /\ pc = "cond"
  /\ \/ GoBefore /\ UNCHANGED <<out, loopIndex>>
     \/ hasCond /\ pc' = "end" /\ UNCHANGED <<i, fn, out, loopIndex>>
     \/ hasCond /\ Fail /\ UNCHANGED <<i, fn, skipped, events, closed>>
  /\ UNCHANGED <<fixed, j, c, h, runned, retrySuccess, store, cancelledAt>>

\* The top-level `if`: true (or absent) goes on, false marks the run
\* skipped, an evaluation error fails it.
OperatorCond ==
  /\ pc = "cond"
  /\ \/ GoBefore /\ UNCHANGED <<out, loopIndex>>
     \/ hasCond /\ skipped' = TRUE /\ pc' = "end"
        /\ UNCHANGED <<i, fn, err, events, closed, loopIndex>>
     \/ hasCond /\ Fail /\ UNCHANGED <<i, fn, skipped, events, closed>>
  /\ UNCHANGED <<fixed, j, c, h, runned, retrySuccess, store, cancelledAt>>

\* One of the beforeFuncs; its error aborts the run before any step.
BeforeFunc ==
  /\ pc = "before"
  /\ fn < NumBefore
  /\ \/ /\ IF fn + 1 = NumBefore THEN GoToStep(1)
                                 ELSE fn' = fn + 1 /\ UNCHANGED <<pc, i>>
        /\ UNCHANGED <<err, loopIndex>>
     \/ Fail /\ UNCHANGED <<i, fn>>
  /\ UNCHANGED <<fixed, j, c, h, runned, retrySuccess, store, cancelledAt>>
  /\ UNCHANGED <<skipped, events, closed>>

\* `if i != 0 { time.Sleep(o.interval) }`: the sleep does not watch ctx,
\* so a cancellation during it is not observed here.
Interval ==
  /\ pc = "sleep"
  /\ pc' = "guard"
  /\ UNCHANGED <<fixed, i, j, c, h, fn, runned, retrySuccess, loopIndex>>
  /\ UNCHANGED <<store, out, cancelledAt>>

\* A step's `if`: false records a nil frame and moves on; otherwise the
\* loop is set up (count evaluated) or stepFn is entered.
Guard ==
  /\ pc = "guard"
  /\ \/ Cfg.cond /\ Fail /\ UNCHANGED <<i, j, c, fn, runned, retrySuccess, store>>
     \/ Cfg.cond /\ Record(Frame(FALSE)) /\ GoToStep(i + 1)
        /\ UNCHANGED <<j, c, runned, retrySuccess, err, loopIndex>>
     \/ Cfg.loop.present
        /\ pc' = "loop" /\ j' = 0 /\ c' = Cfg.loop.count
        /\ retrySuccess' = ~Cfg.loop.until
        /\ UNCHANGED <<i, fn, runned, store, err, loopIndex>>
     \/ Cfg.loop.present /\ Fail
        /\ UNCHANGED <<i, j, c, fn, runned, retrySuccess, store>>
     \/ ~Cfg.loop.present /\ pc' = "dispatch" /\ runned' = FALSE
        /\ UNCHANGED <<i, j, c, fn, retrySuccess, store, err, loopIndex>>
  /\ UNCHANGED <<fixed, h, skipped, events, closed, cancelledAt>>

\* The loop ends: without a successful `until` the step fails.
LoopExit ==
  IF retrySuccess THEN loopIndex' = NoLoop /\ GoToStep(i + 1) /\ UNCHANGED err
                  ELSE Fail /\ UNCHANGED <<i, fn>>

\* Mutant: the break test is `j > c`.
LoopIterOffByOne ==
  /\ pc = "loop"
  /\ \/ IF j > c
        THEN LoopExit /\ UNCHANGED runned
        ELSE /\ loopIndex' = j /\ pc' = "dispatch" /\ runned' = FALSE
             /\ UNCHANGED <<i, fn, err>>
     \/ cancelled /\ LoopExit /\ UNCHANGED runned
  /\ UNCHANGED <<fixed, j, c, h, retrySuccess, store, cancelledAt>>
  /\ UNCHANGED <<skipped, events, closed>>

\* Mutant: store.loopIndex is not set for the iteration.
LoopIterNoIndex ==
  /\ pc = "loop"
  /\ \/ IF j >= c
        THEN LoopExit /\ UNCHANGED runned
        ELSE /\ pc' = "dispatch" /\ runned' = FALSE
             /\ UNCHANGED <<i, fn, err, loopIndex>>
     \/ cancelled /\ LoopExit /\ UNCHANGED runned
  /\ UNCHANGED <<fixed, j, c, h, retrySuccess, store, cancelledAt>>
  /\ UNCHANGED <<skipped, events, closed>>

\* Mutant: an exhausted count `continue`s instead of breaking.
LoopIterContinue ==
  /\ pc = "loop"
  /\ \/ IF j >= c
        THEN UNCHANGED <<pc, i, fn, err, loopIndex, runned>>
        ELSE /\ loopIndex' = j /\ pc' = "dispatch" /\ runned' = FALSE
             /\ UNCHANGED <<i, fn, err>>
     \/ cancelled /\ LoopExit /\ UNCHANGED runned
  /\ UNCHANGED <<fixed, j, c, h, retrySuccess, store, cancelledAt>>
  /\ UNCHANGED <<skipped, events, closed>>

\* `for s.loop.Loop(ctx)`: Loop waits and returns true, or false once the
\* context is done (the select may still pick the timer then); inside,
\* `j >= c` breaks, otherwise loopIndex is set and stepFn runs.
LoopIter ==
  /\ pc = "loop"
  /\ \/ IF j >= c
        THEN LoopExit /\ UNCHANGED runned
        ELSE /\ loopIndex' = j /\ pc' = "dispatch" /\ runned' = FALSE
             /\ UNCHANGED <<i, fn, err>>
     \/ cancelled /\ LoopExit /\ UNCHANGED runned
  /\ UNCHANGED <<fixed, j, c, h, retrySuccess, store, cancelledAt>>
  /\ UNCHANGED <<skipped, events, closed>>

\* stepFn's dispatch: expand, parse and Run the step's runner, which
\* records one frame on success.  A done context makes the runner fail.
Dispatch ==
  /\ pc = "dispatch"
  /\ \/ Cfg.runner /\ ~cancelled /\ Record(Frame(TRUE)) /\ runned' = TRUE
        /\ NextHook(1) /\ UNCHANGED <<err, loopIndex>>
     \/ Cfg.runner /\ Fail /\ UNCHANGED <<h, runned, store>>
     \/ ~Cfg.runner /\ NextHook(1) /\ UNCHANGED <<runned, store, err, loopIndex>>
  /\ UNCHANGED <<fixed, i, j, c, fn, retrySuccess, skipped, events, closed>>
  /\ UNCHANGED cancelledAt

\* A post-hook: dump and bind record a nil frame if nothing ran yet; test
\* is skipped under skipTest (still recording) or asserts its condition.
Hook ==
  LET name == Hooks[h] IN
  /\ pc = "hook"
  /\ \/ name \in {"dump", "bind"} /\ RecordIfNotRunned /\ runned' = TRUE
        /\ NextHook(h + 1) /\ UNCHANGED <<i, j, fn, err, loopIndex>>
     \/ name = "test" /\ skipTest /\ RecordIfNotRunned /\ BodyDone
        /\ UNCHANGED <<h, runned, err>>
     \/ name = "test" /\ ~skipTest /\ RecordIfNotRunned /\ runned' = TRUE
        /\ BodyDone /\ UNCHANGED <<h, err>>
     \/ ~(name = "test" /\ skipTest) /\ Fail
        /\ UNCHANGED <<i, j, fn, h, runned, store>>
  /\ UNCHANGED <<fixed, c, retrySuccess, skipped, events, closed, cancelledAt>>

\* End of stepFn: a step that neither ran a runner nor a hook is an
\* "invalid runner" error.
BodyEnd ==
  /\ pc = "bodyend"
  /\ \/ ~runned /\ Fail /\ UNCHANGED <<i, j, fn>>
     \/ runned /\ BodyDone /\ UNCHANGED err
  /\ UNCHANGED <<fixed, c, h, runned, retrySuccess, store, cancelledAt>>
  /\ UNCHANGED <<skipped, events, closed>>

\* `until` evaluated against the store with current = latest(): true
\* ends the loop successfully, false counts the iteration, an evaluation
\* error fails the step.
Until ==
  /\ pc = "until"
  /\ \/ retrySuccess' = TRUE /\ loopIndex' = NoLoop /\ GoToStep(i + 1)
        /\ UNCHANGED <<j, err>>
     \/ pc' = "loop" /\ j' = j + 1
        /\ UNCHANGED <<i, fn, retrySuccess, err, loopIndex>>
     \/ Fail /\ UNCHANGED <<i, j, fn, retrySuccess>>
  /\ UNCHANGED <<fixed, c, h, runned, store, skipped, events, closed, cancelledAt>>

\* One of the afterFuncs, run only after every step returned nil.
AfterFunc ==
  /\ pc = "after"
  /\ fn < NumAfter
  /\ \/ /\ fn' = fn + 1
        /\ pc' = (IF fn + 1 = NumAfter THEN "end" ELSE "after")
        /\ UNCHANGED <<err, loopIndex>>
     \/ Fail /\ UNCHANGED fn
  /\ UNCHANGED <<fixed, i, j, c, h, runned, retrySuccess, store, cancelledAt>>
  /\ UNCHANGED <<skipped, events, closed>>

Outcome == IF err THEN "failed" ELSE IF skipped THEN "skipped" ELSE "success"

\* operator.Close: every gRPC runner is closed.
CloseRunners == closed' = TRUE

\* Run after runInternal: captureFailed, captureSkipped or captureSuccess,
\* then the deferred Close and captureEnd.
Finish ==
  /\ pc = "end"
  /\ pc' = "done"
  /\ events' = events \o <<Outcome, "end">>
  /\ CloseRunners
  /\ UNCHANGED <<fixed, i, j, c, h, fn, runned, retrySuccess, loopIndex>>
  /\ UNCHANGED <<store, skipped, err, cancelledAt>>

\* The caller cancels the context while the run is in progress.
Cancel ==
  /\ CanCancel
  /\ ~cancelled
  /\ pc \notin {"idle", "done"}
  /\ cancelledAt' = pc
  /\ UNCHANGED <<fixed, ctl, store, out>>

\* Run has returned.
Terminated ==
  /\ pc = "done"
  /\ UNCHANGED vars

Init ==
  /\ book \in [1..NumSteps -> StepConfigs]
  /\ useMap \in BOOLEAN
  /\ hasCond \in BOOLEAN
  /\ skipTest \in BOOLEAN
  /\ pc = "idle"
  /\ i = 1 /\ j = 0 /\ c = 0 /\ h = 1 /\ fn = 0
  /\ runned = FALSE
  /\ retrySuccess = FALSE
  /\ loopIndex = NoLoop
  /\ frames = <<>>
  /\ stepMap = <<>>
  /\ skipped = FALSE
  /\ err = FALSE
  /\ events = <<>>
  /\ cancelledAt = NotCancelled
  /\ closed = FALSE

\* A step of the goroutine that runs the operator.
Step ==
  \/ StartRun
  \/ OperatorCond
  \/ BeforeFunc
  \/ Interval
  \/ Guard
  \/ LoopIter
  \/ Dispatch
  \/ Hook
  \/ BodyEnd
  \/ Until
  \/ AfterFunc
  \/ Finish

Next ==
  \/ Step
  \/ Cancel
  \/ Terminated

\* The goroutine running the operator keeps taking steps: runner calls,
\* sleeps, hooks and funcs return.  Cancellation is up to the caller and
\* is not assumed to happen.
Spec == Init /\ [][Next]_vars /\ WF_vars(Step)

-----------------------------------------------------------------------------
(* Properties.                                                             *)

FrameRecords ==
  [step : 1..NumSteps, iter : {NoLoop} \cup 0..(MaxCount - 1), res : BOOLEAN]

ControlPoints ==
  {"idle", "cond", "before", "sleep", "guard", "loop", "dispatch", "hook", "bodyend",
   "until", "after", "end", "done"}

TypeOK ==
  /\ book \in [1..NumSteps -> StepConfigs]
  /\ pc \in ControlPoints
  /\ i \in 1..(NumSteps + 1)
  /\ j \in 0..MaxCount /\ c \in 0..MaxCount
  /\ h \in 1..Len(Hooks)
  /\ fn \in 0..(IF NumBefore > NumAfter THEN NumBefore ELSE NumAfter)
  /\ loopIndex \in {NoLoop} \cup 0..(MaxCount - 1)
  /\ frames \in Seq(FrameRecords) /\ Len(frames) <= NumSteps
  /\ DOMAIN stepMap \subseteq 1..NumSteps
  /\ \A k \in DOMAIN stepMap : stepMap[k] \in FrameRecords
  /\ {runned, retrySuccess, skipped, err, closed} \subseteq BOOLEAN
  /\ cancelledAt \in {NotCancelled} \cup (ControlPoints \ {"idle", "done"})

\* store.latest(): the most recently recorded frame.
Latest ==
  IF useMap THEN stepMap[Cardinality(DOMAIN stepMap)] ELSE frames[Len(frames)]

\* Control points inside the handling of step i.
InStep == {"sleep", "guard", "loop", "dispatch", "hook", "bodyend", "until"}

(* Frames and steps stay 1-to-1 (spec invariant 2): whatever loops,      *)
(* skipped `if`s, hook-only steps and skipTest did, the frame at list    *)
(* position k (steps[k-1]) or under the key of step k (stepMap) was      *)
(* recorded by step k, and while step i runs, exactly the steps before   *)
(* it, and possibly step i itself, have a frame.  It is what operator.   *)
(* record's deletion of the previous iteration, and recortAsMapped's     *)
(* positional key arithmetic, must preserve.                              *)
StoreMatchesSteps ==
  /\ \A k \in DOMAIN Frames : Frames[k].step = k
  /\ pc \in InStep => DOMAIN Frames \in {1..(i - 1), 1..i}

(* When a loop's `until` is evaluated, store.latest() (the `current` of  *)
(* the condition) is the frame of the iteration that has just run, not   *)
(* one left by an earlier iteration or an earlier step.                  *)
UntilSeesThisIteration ==
  pc = "until" => Latest.step = i /\ Latest.iter = j

(* A loop leaves the frame of its last iteration visible (spec section 8: *)
(* with count N and no until, the N frames replace one another and the   *)
(* one left is from iteration N-1; with until, it is from the iteration  *)
(* whose until held): whenever the step loop moves past a looping step   *)
(* without an error, that step's frame carries the iteration the loop    *)
(* counter and record's deletion of the previous frame agree on.          *)
LoopLeavesLastFrame ==
  [][ /\ pc \in {"loop", "until"} /\ Cfg.loop.present /\ c > 0
      /\ i' = i + 1 /\ ~err'
      => /\ i \in DOMAIN Frames'
         /\ Frames'[i].iter = IF Cfg.loop.until THEN j ELSE c - 1 ]_vars

(* Run implements OperatorRun: one start capture, at most one frame per  *)
(* step, then exactly one outcome and the end capture; success only with *)
(* a frame for every step, skipped only with none.                        *)
AbsStatus ==
  CASE pc = "idle" -> "idle"
    [] pc = "done" -> Outcome
    [] OTHER       -> "running"

Abs == INSTANCE OperatorRun
         WITH status <- AbsStatus,
              recorded <- Cardinality(DOMAIN Frames),
              events <- events

OperatorRunSpec == Abs!Spec

(* Every run returns: loops are bounded by their evaluated count and     *)
(* every runner, hook and func call returns.                             *)
Termination == <>(pc = "done")

(* A loop whose count evaluates to 0 succeeds immediately (spec 4.3,     *)
(* "count=0 yields immediate success"; spec 8, "count=0 -> loop records   *)
(* no frame, succeeds"): leaving the loop of a step whose count is 0      *)
(* never fails runInternal, whether or not the step has an until.         *)
ZeroCountLoopSucceeds ==
  [][pc = "loop" /\ c = 0 => ~err']_vars

(* A cancellation during a step makes the run fail (spec section 5: the  *)
(* cancelled call returns an error that propagates up unmodified, and the *)
(* remaining steps and the afterFuncs are skipped): a run whose context   *)
(* was cancelled while a step was being handled never reports success.   *)
CancelledRunFails ==
  pc = "done" /\ cancelledAt \in InStep => Outcome = "failed"

=============================================================================
