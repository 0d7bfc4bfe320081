# Formal models of proxystore-benchmarks

TLA+ models of the control logic in `src/psbench`. TLC checks them on small
instances, and TLAPS proves the main safety invariants for every value of
the constants.

## 1. The system and its parts

| Part | Source | State and operations | Module |
|---|---|---|---|
| Stream-scaling driver `Benchmark.run` | `benchmarks/stream_scaling/main.py` 108-209 | main-thread location, consumer position, deque of futures, popped future, completed counter, pending exception; submit, append, window check, popleft, result, count, except `KeyboardInterrupt`, finally join, final drain | `StreamScaling` |
| Compute tasks `compute_task` and the executor futures | main.py 31-35 | per task: none, running, done or failed | `StreamScaling` (`TaskFinish`, `TaskFail`) |
| Generator task | `generator.py` (not under src/) | items published, `stop_generator` set, stream closed, generator future | `StreamScaling` (`Gen*`, spec-modelled) |
| Benchmark context manager | main.py 57-106 | `max_workers` from the executor; ExitStack of consumer, executor and store: enter, unwind on a failing enter, `pop_all`, `__exit__` | `BenchmarkLifecycle` (composed with `StreamScaling`) |
| ProxyStore CLI options | `argparse.py` 80-178 | `sys.argv`, the `required=` flag, the regex-derived required options | `ProxyStoreCLI` |
| Store construction | `proxystore.py` 19-77 | backend dispatch and the attributes each connector reads | `ProxyStoreCLI` (`InitStore`, `Uses`) |
| Other option groups (Globus Compute, IPFS, logging) | `argparse.py` 8-77 | flags only; IPFS uses the same regex trick | not modelled (IPFS planned) |
| CSV results logger | `results.py` (not under src/), `tests/results_test.py` | CSV header and rows | not modelled (planned, spec-modelled) |
| Executor configs, test fixtures | tests only | none | not modelled |
| `pregenerate` | main.py 38-54 | none: float arithmetic that only changes timing | not modelled |

### How the parts interact

`run()` first submits the generator task to the executor. The generator
publishes `task_count` items to a stream and then closes it. Between items
it polls the `stop_generator` future.

The main thread iterates over the stream consumer. For each item it submits
`compute_task` and appends the future to a deque. When the deque holds
`compute_workers = max_workers - 1` futures, it pops the oldest one and
waits for it. The window therefore leaves one worker for the generator.

A `KeyboardInterrupt` inside the loop is caught: it sets `stop_generator`
and falls through to the `finally` clause. That clause joins the generator.
After it, the remaining futures are drained and a `RunResult` is built.

The CLI part is separate. `add_proxystore_options` scans
`' '.join(sys.argv)` with regexes to decide which backend options to mark
`required`. argparse then parses the arguments: the last occurrence of a
flag wins, unique prefixes of long flags are accepted, and a missing
required flag exits. `init_store_from_args` then builds the connector from
the parsed attributes.

### The hard behaviours

Each of these is listed with its line in `PROJECT.json` under "hazards".

- **Interrupt between two statements.** A `KeyboardInterrupt` can land
  between `executor.submit` and `append`, or between `popleft()` and
  `result()` and the counter update. A future then leaves the deque without
  being awaited.
- **Window boundary.** The check `len >= compute_workers` keeps the window
  within the workers. A window one too wide oversubscribes the executor.
- **`max_workers = 1`.** This raises `ZeroDivisionError` at line 110.
- **A failing compute task.** The error re-raises from `result()`, but the
  generator is not stopped, because the except clause catches only
  `KeyboardInterrupt`.
- **A failing generator.** The stream is never closed, so the consumer loop
  blocks.
- **An interrupt outside the try body.** The generator is submitted at
  line 120 but the try starts at line 144. An interrupt in between
  propagates and leaves the generator running and never told to stop.
- **A second interrupt in the except handler.** The handler logs before it
  calls `stop_generator.set_result(True)`. A second interrupt in between
  skips the stop signal, and the `finally` clause then joins a generator
  that publishes every remaining item.
- **FIFO order.** Results are collected in stream order only if
  `popleft()` always takes the oldest future, through appends, pops,
  interrupts and the final drain.
- **Entering and leaving the resources.** `__enter__` enters consumer,
  executor and store through an ExitStack. A failing enter must exit the
  ones already entered, newest first. `__exit__` closes the store first,
  then waits in the executor's shutdown for the tasks `run()` left behind.
- **The regexes against argparse.** The regexes see the raw `sys.argv`,
  argparse sees the parsed arguments, and the two can disagree: through
  abbreviations, repeated flags, or `parse_args(list)`.

## 2. Modules

### `StreamScaling`

The main thread is a program counter `pc`. There is one action per
statement group between which Python can raise `KeyboardInterrupt`:

| Action | Code |
|---|---|
| `Start` | 109-130: producer interval (raises for `max_workers = 1`) and generator submit |
| `EnterTry` | 131-144 |
| `NextItem`, `LoopExit` | 145: the `for` over the consumer. It blocks while the stream is empty and open. |
| `SubmitCompute` | 146-155 |
| `AppendTask` | 160-164: append and window check |
| `PopOldest` | 165 |
| `AwaitOldest` | 166: a failed future re-raises, so control goes to `finally` with `exc` set |
| `CountOldest` | 167 |
| `Interrupt` | lands in `TryBody` (goes to `except`), in the except handler (goes to `finally` with `exc` set), or elsewhere (propagates) |
| `CatchInterrupt` | 168-172: the except handler sets `stop_generator` and goes on to `finally` |
| `JoinGenerator` | 173-183 |
| `DrainOne`, `DrainEnd` | 185-209 |

`TaskFinish(t)` and `TaskFail(t)` are the executor completing a compute
future. `GenPublish`, `GenFinish` and `GenFail` are the generator task.

Data is abstracted:
- item `k` is the integer `k`, and its compute task is task `k`;
- payloads, timing and logging are left out.

The constants are:
- `WorkerChoices`: the possible `max_workers`;
- `TaskCount`;
- the bounds `MaxInterrupts` and `MaxFailures`;
- `CanFail`: which tasks may fail.

**Fairness.**
- `WF(Main)`: the main thread runs whenever it is not blocked.
- `WF(TaskFinish(t))`: `compute_task` only sleeps, so an accepted task finishes.
- `WF(GenPublish)` and `WF(GenFinish)`: the generator publishes at a fixed
  interval and closes the stream.

Interrupts and failures are not fair. They may happen, and never must.

`CHECK_DEADLOCK FALSE` is set in every cfg because `run()` returns: its
final states have no successor by design.

### `ProxyStoreCLI`

An argument list `argv` is a sequence of up to `MaxArgs` flag occurrences.
Each occurrence has a destination, a spelling and a value:
- spellings: `full` is `--ps-backend X`, `attached` is `--ps-backend=X`,
  `abbrev` is `--ps-back X`;
- values: backend names, or `"v"`.

The definitions model the code as follows:
- `RequiredBy` is the table of regexes at lines 119-160.
- `Mentioned` models `re.search` on the joined argv, which only matches
  full spellings.
- `ParseArgs` models argparse: required-option exit, last occurrence wins.
  `Parsed` picks the occurrence that no later occurrence overrides. It does
  not take a maximum index, so its proof does not need an induction that
  would show a maximum exists.
- `InitStore` models `init_store_from_args`.
- `Uses` lists the attributes each connector reads that have no usable
  default.

### `BenchmarkLifecycle`

This module EXTENDS `StreamScaling` and adds the context manager around
`run()`:
- `phase` runs through entering, running, exiting or unwinding, and ends
  in closed or failed;
- `stack` is the ExitStack;
- `entered` counts the resources entered;
- `exitLog` records the order of the exit callbacks.

The actions map to the code as follows:
- `EnterContext` and `EnterFails` are lines 84-88.
- `PopAll` is lines 89-90.
- `ExitRun` is the `with` statement calling `__exit__` when `run()`
  returns or raises.
- `ExitTop` runs the newest callback. The executor's callback waits until
  no task runs (`Idle`); this is spec-modelled executor behaviour.
- `InterruptShutdown` is a KeyboardInterrupt during that wait. The
  ExitStack goes on with the older callbacks.
- `ExitDone` ends the phase.

`RunStep` and `Background` are `StreamScaling`'s actions with the
lifecycle variables unchanged.

**Fairness.** `LifeSpec` adds `WF(LifeMain)`, because the main thread
runs `__enter__` and `__exit__` whenever they are not blocked. The
executor and the generator keep the fairness of `StreamScaling`.

Interrupts are not modelled during `__enter__` or during `store.close()`
or `consumer.close()`.

## 3. Runs

| Run | cfg | Expect | Shows |
|---|---|---|---|
| stream_safety | `StreamScaling_safety.cfg` | pass | `TypeOK`, `NoOversubscription`, `ResultAccounting` and `AwaitsOldestFirst` hold with every failure kind enabled. `AwaitsOldestFirst` is the spec's "FIFO: oldest future is always awaited first": the deque is in submission order, and the future awaited at line 166 is older than every one still queued |
| stream_termination | `StreamScaling_live.cfg` | pass | `run()` always returns or raises when compute tasks may fail |
| stream_drain_after_interrupt | `StreamScaling_drain.cfg` | violation | `DrainAwaitsAll` fails: after an interrupt at `submitted` or `wait`, `run()` returns with a task still running. This contradicts the spec's "still drains all outstanding futures". |
| stream_generator_failure | `StreamScaling_hang.cfg` | violation | `Termination` fails: when the generator fails, the consumer loop blocks forever |
| stream_orphaned_generator | `StreamScaling_orphan.cfg` | violation | `GeneratorNotOrphaned` fails: an interrupt after the generator is submitted but before `try` makes `run()` raise with the generator running and `stop` unset (a 3-state trace: `Start`, then `Interrupt`) |
| stream_stop_before_join | `StreamScaling_stop.cfg` | violation | `StopBeforeJoin` fails: a first interrupt in the loop is caught, a second one lands in the except handler before `set_result(True)`, and the `finally` clause joins the generator with `stop` unset (5 states). This contradicts the spec's "propagating a stop flag … before joining remaining work" |
| lifecycle_no_leak | `BenchmarkLifecycle_safety.cfg` | pass | `NoLeak`: whichever enter fails and however `run()` ends, a KeyboardInterrupt in the executor's shutdown included, the entered resources are exited exactly once, newest first |
| lifecycle_termination | `BenchmarkLifecycle_live.cfg` | pass | `LifecycleEnds`: the benchmark always gets through `__exit__`, the executor's wait included |
| lifecycle_store_closed_early | `BenchmarkLifecycle_store.cfg` | violation | `StoreOutlivesTasks` fails without any interrupt: one compute task fails, `run()` raises, and `__exit__` closes the store while another compute task still runs |
| cli_requiredness | `ProxyStoreCLI_pass.cfg` | pass | with full or `=` spellings, every connector gets the attributes it reads |
| cli_abbreviated_backend | `ProxyStoreCLI_abbrev.cfg` | violation | `--ps-back FILE` builds a `FileConnector(None)` |
| cli_repeated_backend | `ProxyStoreCLI_repeat.cfg` | violation | a repeated `--ps-backend` demands options of a backend that lost |

### Bounds (`MC_StreamScaling`)

The bounds are `max_workers ∈ {1,2,3}`, 4 items, 2 interrupts and 1 failure.
They are enough for the following reasons:
- 1 covers the `ZeroDivisionError` path.
- 2 gives a window of one future.
- 3 gives a window of two futures, so the deque holds more than one entry
  and the popleft-then-wait order matters.
- 4 items fill the window of 2 more than once, and leave futures to drain.
- Two interrupts reach both the caught interrupt and a second one that
  propagates from `finally`.
- One failure covers each failure path.

The safety run has 5257 distinct states.
The lifecycle runs use the same bounds, with every enter allowed to fail:
12436 distinct states for `NoLeak`.

### Bounds (`MC_ProxyStoreCLI`)

Argument lists have up to 3 occurrences, and `required` is either value.
Three occurrences are enough for "backend twice plus one option" and
"backend plus both REDIS options". The passing run has about 30k states.

### Mutants

Each property of a passing run is broken by a plausible slip in the code,
listed in `PROJECT.json`:
- a `>` window check;
- an off-by-one future index;
- a drain loop left out;
- `result()` treated as success-only;
- MARGO left out of the `--ps-port` regex;
- `pop()` instead of `popleft()` (breaks `AwaitsOldestFirst`);
- `pop_all` before the store is entered (breaks `NoLeak`);
- `__exit__` called only when `run()` returns (breaks `LifecycleEnds`).

## 4. What is proved

The proofs are in `StreamScaling_proofs`, `StreamScaling_accounting`,
`StreamScaling_order`, `ProxyStoreCLI_proofs` and `BenchmarkLifecycle_proofs`. Each safety
invariant is proved the same way:
- a strengthening that is inductive is checked with TLC as an invariant;
- it is proved to hold initially;
- it is proved preserved by every step, with one case per action;
- the property follows from it.

All constants are assumed only as `ConstantsAssumption`: positive worker
counts and natural bounds.

**`TypeCorrect`** proves `Spec => []TypeOK`.

`TypeOK` is not inductive on its own. `completed ∈ 0..TaskCount` needs
`Bookkeeping`, which says:

> every consumed item is counted, queued in the deque, or the one item the
> main thread holds (`Pending`).

`TypeInv` is `TypeOK ∧ Bookkeeping ∧ (pc = "pop" ⇒ deque non-empty)`. The
proof shows that `Init` implies `TypeInv`, and that every action preserves
it, with one proof step per action.

**`NoOversubscriptionHolds`** proves `Spec => []NoOversubscription`.

The inductive invariant `WindowInv` states four things:
- **The deque.** In the try body, the deque holds consecutive task ids
  ending at the newest submitted item.
- **Running tasks.** Every running task lies in the interval from the
  oldest live id to the newest live id (`OldestLive..NewestLive`).
- **Width.** That interval is at most `compute_workers` wide. At `wait` the
  popped future is just below the deque.
- **Before and outside the loop.** Before the try nothing runs, and the
  number of running tasks is at most `compute_workers`.

With that, the generator's one worker plus at most `compute_workers`
compute tasks fits in `max_workers`.

The lemma `IntervalBound` turns "a subset of an interval of width k" into
"cardinality ≤ k", using `FS_Interval` and `FS_Subset`. TLC also checked
`TypeInv ∧ WindowInv` as an invariant of the safety instance before the
proof was written.

**`AwaitsOldestFirstHolds`** (in `StreamScaling_order`) proves
`Spec => []AwaitsOldestFirst`. The inductive invariant is `IInv`, the
window invariant above, together with the property itself:
- in the try body, `DequeWindow` says the deque holds consecutive task ids,
  so it is increasing, and at `wait` the popped future is the one just
  below the deque;
- outside the try body nothing is appended. The lemma `DequeOutsideTry`
  shows that a step there leaves the deque alone or drops its head (the
  final drain), and `HeadTailProperties` of `SequenceTheorems` shows that
  `Tail` keeps an increasing sequence increasing.
TLC checked `IInv ∧ AwaitsOldestFirst` as an invariant first.

**`ResultAccountingHolds`** (in `StreamScaling_accounting`) proves
`Spec => []ResultAccounting`. The inductive invariant `AInv` adds five
facts to `RInv`, which is `IInv ∧ FreshItems ∧ GeneratorAfterStart`:
- **`FreshItems`**: the task of the item being submitted was never
  submitted before.
- **`GeneratorAfterStart`**: the generator is idle until `Start`.

The five facts are:
- **`SubmittedPrefix`**: every item before the current one has its task,
  and so has the current one once the loop is past submitting it. With
  `FreshItems`, the submitted tasks are exactly `1..NSubmitted`, so
  `Cardinality(Submitted) = NSubmitted` (lemma `SubmittedIsPrefix`, then
  `FS_Interval`).
- **`Accounting`** is about `Held`: counted, queued, plus the one future
  held at `submitted`, `wait` or `count`.
  - Nothing is consumed before the try.
  - `Held = NSubmitted` throughout the loop.
  - Everywhere but `raised`, `NSubmitted - 1 ≤ Held ≤ NSubmitted`. Only an
    interrupt caught while a future is held, or a failed `result()`, loses
    one.
  - With neither `stop` nor a pending exception after the loop,
    `Held = NSubmitted = TaskCount`.
- **`ClosedWhenDone`**: the stream is closed only after the last item or
  a stop. This is what makes a normal loop exit mean "all items consumed".
- **`JoinedBeforeDrain`**: the drain is entered only after joining a
  generator that returned, with no exception pending, and `done` has an
  empty deque.

The step proof has one case per action. TLC checked `AInv` as an invariant
of the safety instance (5257 states) first.

**`ConnectorArgsPresentHolds`** (in `ProxyStoreCLI_proofs`) proves
`Spec => []ConnectorArgsPresent` for every `MaxArgs`, every set of
backends and options, and either `required=` flag. It assumes that
`"abbrev" ∉ Spellings`. Without that assumption the property is false,
as the run `cli_abbreviated_backend` shows.

The inductive invariant `CInv` is `TypeOK ∧ ParsedInv`. `ParsedInv`
records what a successful parse established:
- the backend is the value of the last `--ps-backend` occurrence;
- every option the regexes required was given;
- in the `store` phase, `missing` is what the connector reads and was not
  given.

The argument for the property has three lemmas:
- `ParsedOccurs`: the parsed backend is the value of some occurrence.
- `OccurrenceMentioned`: with no abbreviated spelling, the regexes see
  that value.
- `UsesRequired`: every attribute a connector reads is required by the
  regex table for its backend. This is checked by expanding the two
  tables.

**`NoLeakHolds`** (in `BenchmarkLifecycle_proofs`) proves
`LifeSpec => []NoLeak` for all constants. The proof needs nothing from
`StreamScaling`, because the steps of `run()`, the executor and the
generator leave the ExitStack alone.

The inductive invariant `LInv` splits the `entered` context managers:
- the stack holds the oldest `Len(stack)` of them, in the order of
  `Resources`;
- the exit log holds the rest, newest first;
- nothing is exited while `__enter__` is still entering;
- the stack is empty once the benchmark is done with.

`EnterContext` pushes while the log is empty. `PopLInv` covers both exit
steps, `ExitTop` and `InterruptShutdown`: each moves `Resources[Len(stack)]`
from the stack to the log. The lemmas `SubSeqProperties` and
`AppendProperties` of `SequenceTheorems` give the shape of `Pop` and of
the new log.

### Only model-checked

TLAPS does not reason about liveness under fairness, or about `ENABLED`.
These properties stay with TLC:
- **`Termination`**: `run()` always returns or raises.
- **`LifecycleEnds`**: the benchmark always gets through `__exit__`.


### A comment the model contradicts

The comment at main.py 185-186 says that `compute_workers` tasks remain
after a run without interrupts. The window pops as soon as the deque holds
`compute_workers` futures, so at most `compute_workers - 1` remain. In the
try body `DequeWindow` bounds the deque by `compute_workers - 1`, and it is
proved as part of `NoOversubscriptionHolds`; after the loop the deque only
shrinks. The comment is wrong, but no code depends on it.

## 5. Not modelled, and why

- **`pregenerate`**: timing only.
- **Executor configurations, fixtures, logging options**: no state
  machine.
- **IPFS options** (`argparse.py` 32-54): the group uses the same
  `' '.join(sys.argv)` regex as the backend options, here for the exact
  flag `--ipfs`, to make the two directory options required. No code under
  `src/` reads those attributes, so no property could tell a wrong
  requiredness apart.
- **Interrupts inside `__enter__`, `store.close()` and `consumer.close()`**:
  these run in library code the repository does not contain.
- **External libraries (executors, ProxyStore, streams)**: they are
  environment. They appear only through futures, a stream counter and the
  connectors' attribute needs.

## 6. Plan for later work

1. **A CSV logger module**, spec-modelled from results.py's behaviour and
   its tests.
2. **`ProxyStoreCLI`**: `parse_args(list)` with `sys.argv` differing from
   the parsed list.
