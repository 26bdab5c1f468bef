# TLA+ models of runn's runbook engine

These modules model runn's runbook engine as it is implemented in
`src/operator.go`, `src/runbook.go`, `src/result.go` and `src/cmdout.go`, and check it with TLC. `spec.md` describes the intended
behaviour. Every action is translated from the Go code. `PROJECT.json` maps
each definition to the source lines it models.

## The system and its parts

| Part | Source | State | Operations |
|---|---|---|---|
| Step / step builder | `step` (27-51), `AppendStep` (230-393), `pop` (947-953) | a step's `if`, loop, one dispatch key, dump/bind/test | classify a raw step map; reserved keys; pick a dispatch key |
| Operator construction | `New` (131-228) | runners, steps, hooks, flags | options, root generation, duplicate runner names, runner errors, append steps |
| Store recording | `record`, `recortAsListed`, `recortAsMapped` (91-114) | `store.steps` (list) or `store.stepMap` (map) | append a frame, replace the previous loop iteration's frame |
| Operator run | `Run`, `run`, `runInternal` (395-715) | step index, loop counters, `loopIndex`, `skipped`, captures | top-level `if`; beforeFuncs; per step: interval sleep, `if`, loop (count/until/Loop(ctx)), dispatch, dump, bind, test; afterFuncs; captures and Close |
| Batch (RunN) | `RunN`, `Close`, `clearResult` (829-898) | `runNResult` tallies | run operators in order, tally outcomes, failFast return, close all |
| Batch loading | `Load`, `skipIncluded`, `partOperators`, `sortOperators`, `sampleOperators` (717-953) | list of operators | filter, drop included books, sort, shard, sample |
| Runbook builder | `src/runbook.go` | runner keys, steps | `setRunner` key allocation, curl/command parsing |
| Output | `runNResult.Out`, `HasFailure` (`src/result.go`), `cmdOut.CaptureResult` (`src/cmdout.go`) | the summary line, one line per scenario | print the summary after RunN, red when a scenario failed (modelled); print a scenario's ok/skip/error line (not modelled) |
| CLI | `src/cmd/reportportal.go` | none | flag/env resolution, one upload |

These parts interact as follows:

- The operator drives the **store**. Every step records exactly one frame, and loop iterations replace the frame they recorded before.
- The operator reads the store back through `store.latest()` for `until`, and through the step keys for later expressions.
- The **capturers** observe the run: start, then one of failed/skipped/success, then end.
- **RunN** runs many operators in sequence and aggregates their outcomes.
- The **output**: `runNResult.Out` writes the summary after RunN. `cmdOut.CaptureResult` would write each scenario's line, but `operator.go` never calls it.
- Runners, the expression engine, the capture fan-out and the include runner are not in `src/`. They are modelled only as nondeterministic outcomes.

Hard behaviours in this code:

- **Loop bookkeeping.** The frame of the previous iteration is deleted based on `loopIndex > 0`. Map mode computes keys from `len(stepMap)`.
- **Store alignment.** A step that records no frame shifts every later frame by one.
- **Cancellation.** `ctx` is cancelled by another goroutine, but it is only observed inside runners and `Loop(ctx)`. The interval sleep between steps is `time.Sleep`, which does not watch it.
- **failFast.** The early return from `RunN` emits its own `captureEnd`, apart from the one at the bottom of the loop.
- **Termination of loops.**

## Modules

- **`OperatorRun.tla`: abstract.** What one run promises.
  - It starts with a `start` capture.
  - It records at most one frame per step.
  - It then reports exactly one outcome, followed by `end`.
  - `success` requires every step to have a frame. `skipped` requires no frame.
- **`Operator.tla`: detailed.** One operator's `Run`, as a single goroutine with a program counter `pc`, plus an environment action `Cancel`.
  - **Per-behaviour choices.** The runbook `book` (one `StepConfig` per step) is fixed per behaviour. So are list or map mode (`useMap`), the top-level `if` (`hasCond`) and `skipTest`.
  - **Actions.** `StartRun` (captureStart), `OperatorCond` (459-472), `BeforeFunc`, `Interval` (the `time.Sleep(o.interval)` before every step but the first), `Guard` (the step `if` and the loop setup), `LoopIter` (the `for s.loop.Loop(ctx)` head and the count break), `Dispatch` (the runner call), `Hook` (dump/bind/test), `BodyEnd` ("invalid runner"), `Until`, `LoopExit` (the `!retrySuccess` failure), `AfterFunc` and `Finish` (the outcome capture, Close, captureEnd).
  - **Nondeterministic outcomes.** Expression results (true, false or error) are chosen with `\E`. So are runner success or failure and the loop count.
  - **Frames.** A frame is a ghost record `[step, iter, res]`. The properties use it to tell which step and which iteration wrote it.
  - **Map mode.** `RecordMap` uses `Assert` for the Go index-out-of-range panic at line 112.
  - **Refinement.** `Abs == INSTANCE OperatorRun` maps status to the outcome and `recorded` to the number of frames. `OperatorRunSpec` is checked as a PROPERTY.
- **`Batch.tla`.** `RunN`. Each operator's run is abstracted to one of its three outcomes, as OperatorRun allows. The per-operator `failFast` flag is fixed per behaviour.
  - One iteration of the loop is three steps: `CaptureStart`, then `RunFailed` or `RunPassed` (the tally and the outcome capture; on the failFast path `RunFailed` also emits `captureEnd` and RunN returns), then `CaptureEnd`.
  - `Out` is `runNResult.Out` after RunN has returned. The summary is abstracted to its three counts and its colour (`HasFailure`).
  - `result.go` declares `runNResult` a second time, with atomic fields and `Failure` for operator.go's `Failed`, so `Out` is read over the tallies RunN keeps. This link is an assumption of the model, so no property is stated about the summary.
- **`Load.tla`.** `Load` and its helpers, as one state machine.
  - `NewBook` is one iteration over the runbooks: `New` may fail, which fails `Load`, and with `skipIncluded` the include paths of the book's steps go into `skipPaths`.
  - `FilterBook` visits `om` in any order, because Go map order is arbitrary; it drops paths that do not match RUNN_RUN or are in `skipPaths`.
  - `SortAndShard` is `sortOperators` followed by `partOperators`, a RECURSIVE operator that translates the loop with its `math.Mod` test.
  - `SampleStart` and `SamplePick` are `sampleOperators`; `rand.Intn` is a nondeterministic index.
  - A runbook is its path, a number whose order stands for string order. `om` is keyed by path, so the `desc` tie-break of the sort never applies.
  - The properties compare the result with reference definitions: `Ascending` (the sorted ordering of a set) and `Stripe` (positions modulo n).
- **`StepBuilder.tla`.** `New` (`GenerateRoot`, whose error New returns first, the three duplicate-name loops and the runner errors) and `operator.AppendStep` with `pop`.
  - `CheckRunnerName` is one iteration of a keys loop, over a runner map's names in any order; `NextRunnerMap` moves from the http to the db to the grpc map. The `keys` set is shared by the three loops, as in the code.
  - A raw step map is a function from its keys to the shape of their values, `"ok"` or `"bad"`.
  - `AppendStep` rejects a step with an ill-typed section. Otherwise `pop` takes any remaining key as the dispatch key, classified as include, exec, or an http/db/grpc runner in the code's `detected` order.
- **`RunbookBuilder.tla`.** `runbook.AppendStep` of `src/runbook.go`.
  - A curl step finds or allocates a runner key with `setRunner`. A key is `<<prefix, n>>`, where n = 0 means the bare prefix.
  - `CreateHTTPStepMapSlice` may fail after the runner was appended.
  - Other tokens give an exec step.
- **`MC_*.tla`.** These give the finite sets that the cfgs use.

## Runs

| Run | cfg | Expect | What it shows |
|---|---|---|---|
| operator_store | `MC_Operator.cfg` | pass | Consider every 2-step runbook where each step is one of: no loop, or count 1 or 2 with or without until; with or without a false/erroring `if`; with hooks {}, {test} or {dump,bind,test}. Both list and map mode are covered, with one before and one after func. For all of these, frames stay 1-to-1 with steps, `until` sees the current step and iteration, a finished loop leaves its last iteration's frame, and Run refines OperatorRun. About 1.5M states. |
| operator_termination | `MC_Operator_live.cfg` | pass | Run always returns, with cancellation allowed at any point. |
| loop_count_zero | `MC_Operator_zero.cfg` | violation | A count-0 loop fails when it has until, where the spec says count 0 succeeds. (Without until it succeeds with no frame, as the spec says.) |
| cancelled_run | `MC_Operator_cancel.cfg` | violation | A run cancelled during a step can still report success. The cancel goes unnoticed during the interval sleep and in a step with no ctx-aware call, and the afterFuncs run. A cancelled loop without until also passes. |
| batch | `MC_Batch.cfg` | pass | Every operator RunN announces gets exactly one outcome and then `end`, also on the failFast return with its own `captureEnd`; no operator after it is announced. RunN returns, and all operators are then closed. |
| batch_total | `MC_Batch_total.cfg` | violation | After a failFast return, `Total` exceeds Success+Failed+Skipped. |
| load | `MC_Load.cfg` | pass | Take up to three loaded runbooks with every include relation of at most one include each, RUNN_RUN matching all or two books, no shard or shard 0/1 of 2, and sample 0 or 2. Without sampling, the batch equals the reference whatever the map order. The shards partition the batch. A sample holds distinct operators of the batch. |
| load_sample_order | `MC_Load_sample.cfg` | violation | A sampled batch runs in draw order, not in path order. |
| load_skip_included | `MC_Load_skip.cfg` | violation | A loaded runbook reached only through a runbook outside the loaded set is not skipped. |
| step_builder | `MC_StepBuilder.cfg` | pass | New's duplicate-name loops let through only books whose runner names are disjoint across http, db and grpc, in every map iteration order. New accepts every well-formed runbook, whichever key `pop` returns. This includes an exec step with the deprecated `retry`. |
| step_ill_formed | `MC_StepBuilder_wellformed.cfg` | violation | New accepts a step with no dispatch entry and no post-hook. It also accepts a step with two dispatch entries, running one chosen by map order. |
| runbook_builder | `MC_RunbookBuilder.cfg` | pass | Up to four curl or exec steps over three DSNs give unique keys `req`, `req2`, `req3`. There is one runner per DSN, and every HTTP step names its own DSN's runner. |

The violations are recorded as findings in `PROJECT.json`.

## Bounds

- **Operator: two steps (`NumSteps = 2`).** This is the least number of steps for which a misaligned frame becomes visible as a wrong step in the next slot.
- **Operator: loop counts 1 and 2 (`MaxCount = 2`).** Two iterations exercise the replacement of the previous iteration's frame, which a single iteration never does.
- **Operator: count 0.** This count is only enabled in the run about it. A count-0 loop without until records no frame, as spec 8 says, so later frames shift; `StoreMatchesSteps` is checked with counts of at least 1.
- **Operator: one before func and one after func.** These exercise the hook loops and their failure paths.
- **Batch: three operators in RunN.** This lets a failFast stop leave a later operator unrun.
- **Load: three runbooks.** Three is the least number for an include chain A → B → C with B outside the loaded set. It also allows a shard index of 2 to fall outside `0..n-1` under a modulus-by-length slip, and a sample of 2 to be drawn from 3.
- **StepBuilder: two steps drawn from nine step maps.** The maps cover every accepting and rejecting path of `AppendStep`. There are five runner configurations: one disjoint, and names shared between http and db, db and grpc (once with two names in each map, so the loops meet them in either order), and http and grpc.
- **RunbookBuilder: four steps over three DSNs.** Three DSNs share the `req` prefix, so the keys `req`, `req2` and `req3` and the reuse of a known DSN all occur. The builder is a passive object that may stop receiving calls at any time, so that run does not check deadlock.

## Fairness

`Spec` assumes weak fairness of `Step`, the operator's own goroutine. `Run` is synchronous code with no blocking waits except on runners, and their outcome is chosen nondeterministically, so every enabled step eventually happens. `Cancel` is the environment and is not assumed to happen. `Batch` is one sequential goroutine, so it uses weak fairness on `Next`.

## Not modelled

- **Operator construction.** Option application and the id are not modelled, and root generation appears only as its possible error. The options and the book loader are not in `src/`.
- **Formatting and I/O.** The wording, colours and pluralisation of `Out` are left out. `cmdOut.CaptureResult` and its verbose per-step lines are not modelled, because `operator.go` never calls `CaptureResult`. `RunResult` in `src/result.go` has no `StepResults` or `Skipped`, which `cmdout.go` reads, so those files do not belong to the same version of the package as `operator.go`. No property depends on the text.
- **ReportPortal CLI.** `src/cmd/reportportal.go` resolves flag/env settings, checks the file and makes a single HTTP upload. The spec puts it out of scope. A model would have only its early returns and the 2xx test, and its one hazard (no timeout) would need a run of its own beyond the project's twelve. Its hazards are listed in `PROJECT.json`, including an `http.Client` without a timeout, so a silent server blocks the command forever.
- **Runners, the expression engine, capture fan-out and includes.** These are not in `src/`. They appear only as nondeterministic outcomes.
- **Command text of exec steps.** `joinCommands` in `src/runbook.go` is modelled only as an exec step. Its quoting hazard (a token without a space is never quoted) is listed in `PROJECT.json` without a property.
- **Further work.**
  - Compose `Batch` with `OperatorRun` instances in place of the outcome choice. This is not done because RunN calls `o.run` and emits the captures itself, so the composed model would check nothing that `Batch` and the refinement do not already check.
  - Model include steps as a nested operator. This is not done because the include runner is not in `src/`.
  - Cancellation also breaks the alignment of frames and steps. If `MC_Operator.cfg` sets `CanCancel = TRUE`, `StoreMatchesSteps` fails: a cancelled loop without `until` leaves its step with no frame. This is the same defect that the `cancelled_run` finding reports.
