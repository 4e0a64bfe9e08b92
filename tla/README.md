# TLA+ verification of beyondvram

This directory holds TLA+ models of the program's own control logic, the TLC
configurations that model-check them on small instances, and theorems proved
with TLAPS. Paths such as `moe-cache.cu:153` name the repository's sources.

## Inventory

The repository measures how models larger than the VRAM can be run. Most of its
files are recorded results; the code is about 8,400 lines.

| Component | State it keeps | Operations | What makes it correct |
|---|---|---|---|
| MoE expert cache (`results/moe-locality/moe-cache-new-files/moe-cache.cu`) | two maps expert/slot, an LRU list, slot memory on the device, the CUDA stream | `resolve` (hit, miss), `forward` (per-token launches), register, statistics | a kernel multiplies with the experts its token asked for, though slots are refilled ahead of the device; exact LRU |
| Loader integration and trace callback (`llama-modifications-*.patch`, `moe-trace.cpp`, `moe-cache.cpp`) | slot tensors, the position of the current batch | shrink a tensor, load its experts, emit a trace line | a trace line names the position it belongs to |
| Overlap pipeline (`experiments/overlap`) | three pinned and two device buffers, two CUDA streams, events, a storage worker | three scheduling variants, checksum, cleanup | no buffer reused early, sums right and in order, always ends |
| bench-tui run manager (`tools/linux-ab/bench-tui/src/run_manager.cpp`) | queue, records, `runs.jsonl`, flags, one child | enqueue, dequeue, start, stop, detach, destroy, poll loop | one record per child, only stopped children are signalled, stop and quit end |
| bench-tui UI, collectors, configuration | modal flags, samples, presets | key handlers, sampling thread, editor | handlers act on the state they show |
| System benchmark helpers (`benchmarks/system/common.py`) | raw and summary CSV, a child with two pipes | `run_live`, `terminate_child`, `write_rows`, `rebuild_summary` | no output lost, child always reaped, summary of all rows |
| Real layer streaming (`experiments/real_layer`) | package and manifest, worker, buffers | pack, load, serial and overlapped run | a package is complete when its manifest exists |
| Experiment drivers (`experiments/{moe_trace,gpt_oss,low_bit,dense_offload}`) | a list of records, the output file, files per arm | one arm after the other, one write at the end or on Ctrl+C, update, reparse | an interrupt keeps every finished arm, under its own name |
| Server benches (`speculative_bench.py` in `moe_trace` and `gpt_oss`) | a server process on a port, records, server logs | start, poll, ask, terminate | an answer is of the server that was started, none is left |
| Analyses (`analyze_locality.py`, `prefetch_simulation.py`, ...) | accumulators over trace files | load, add, print, write | the functions agree with each other and with their reference, a partial file says what is in it |

Interactions: the overlap worker and its main thread share pinned buffers,
`threading.Event`s and CUDA events; the cache's host code and the device share
the slots through the stream; the run manager's worker shares its fields with
the UI thread under `mu_` and talks to its children by signals and `waitpid`;
the drivers call `run_live`, which talks to a child through two pipes.

The hard behaviours are therefore: work enqueued on a stream and executed long
after the host moved on, two threads and two streams reusing a ring of buffers,
exceptions and Ctrl+C while another thread waits, a child that races with the
flags its parent reads, and files left half-written. `PROJECT.json` lists each
hazard at its line, with what a property exempts of it.

## What is modelled

### `MoeCache` (with `UncachedExperts`, `MCMoeCache`, `MoeCache_proofs`)

The cache of one expert tensor. `Resolve` is `moe_cache_resolve`, a hit or a
miss; a miss evicts the slot at the back of the list and only *enqueues* the
copy of the expert's slice. `Forward` takes the ids of a batch (from a host
buffer at once, or through the stream, waiting for it), `LaunchToken` enqueues
the upload of the slot ids and the kernel of a token. `StreamStep` executes the
oldest operation. The state after `ggml_cuda_moe_cache_register` is `Init`.
A weight slice is abstracted to the expert it belongs to; `stamp`, `wanted` and
`submitted` are history variables: no action takes a decision from them.

`UncachedExperts` is what the stock path does with all weights resident: tokens
are computed in submission order, each with the experts its router chose.
`MoeCache` refines it (`ImplementsUncached`), liveness included; what the stock
path has still to compute is `submitted`, the tokens of all calls so far that no
kernel has computed.

### `PipelineContext`, `InlineStorage`, `ThreeStage`, `Overlap` (with `InOrderBlocks`, `Overlap_proofs`)

`PipelineContext` holds what the variants share: the buffers, the reader's
position, the CUDA events, and the two streams. A copy and a sum start and
finish in two steps, and finish with `Garbage` when their source changed in
between; a pinned buffer that is being written holds `Garbage`. An event is new,
recorded (enqueued) or complete, since waiting for a new event returns at once.
`InlineStorage` has `run_sync` and `run_double_buffer`, `ThreeStage` has
`run_three_stage`: the worker and the main thread, one action between two points
the other thread or the device can observe. `Overlap` is `pipeline.main`: the
variants one after the other over the same buffers, with `storage.reset()`,
fresh events and zeroed sums; the checksum; the unwinding of an exception or of
a `KeyboardInterrupt`, at every point of the main thread, including inside
`worker.start()`; the close of the reader; the exit, which waits for the
non-daemon worker.

`InOrderBlocks` is what a pass promises: block sums appear in order, each of the
right block, success only after the last. `Overlap` refines it
(`ImplementsInOrder`): the checksum never finds a wrong block.

### `RunManager` (with `ArmLog`, `RunManager_proofs`)

The run manager's worker thread, one action per critical section of `mu_` and
per system call others can tell apart: fork and the publication of the child's
pid are two steps, `waitpid` and the reading of the flags are two steps. A child
goes from `fork` through `setsid` and `exec` to an end; a signal to its group is
lost before `setsid`; llama may ignore SIGTERM. The UI thread presses the keys
of the Runs tab, of the quit-confirm bar, or Ctrl+C, and destroys the manager;
`do_start` and `do_dequeue` take the lock twice and are two steps. Within a
session a detach always comes with the end of the session, so `Relaunch` starts
bench-tui again with the earlier session's children still alive (`earlier` counts
them): that is the case the preflight of `do_start` is for. `records` and
`jsonl` are of the current session, as `runs.jsonl` is appended to and not read.

`ArmLog` is the promise: presets in queue order, arms in order, one at a time,
each in the log, none begun after a stop until the next start.

### `LiveRun` (with `LiveRun_proofs`)

One call of `run_live` (`benchmarks/system/common.py`), which every experiment
driver makes for every measurement. The child writes numbered lines to two pipes
of bounded size and may hang, fail, or leave a process behind that keeps the
pipes open; one daemon thread per pipe drains it; the caller waits with a
timeout, terminates the child with `terminate_child` (SIGTERM, ten seconds,
SIGKILL, ten seconds), joins the threads for five seconds each and builds the
result from what they have read. Ctrl+C strikes in any statement of the caller.
`late` and `abandoned` are history variables: on which streams a join gave up,
and which exit of the code leaves the child.

### `DriverScripts` and `Campaign` (with `ResultTable`, `Campaign_proofs`)

The drivers share a shape: a loop over arms, one `run_live` call per arm, a list
of records in memory, one `write_text` of the whole payload at the end or on
Ctrl+C. `DriverScripts` has one record per script: its plan of arms in order,
what becomes of a result (a record with a status, an exception nobody catches,
an exit), which files belong to an arm and when they are written, how the output
file is treated. `Campaign` runs any of them over several sessions with the
files of the earlier ones in place: `Launch` to `AppendRecord` is the body of
the loop, `Skip` a missing model file, `Truncate` and `Fill` are the two halves
of `write_text`, `Payloads` is what it writes and `Merged` a row of the update of
`mixed_precision_gate.py`, whose order is that of the plan (`Picks`), `SweepFails`
and `SweepRaises` the choice between the phases of `mixed_precision_speed.py`
(the payload of a failed sweep is written inside the `try`, so that Ctrl+C there
writes it again as interrupted: `InTry`),
`Reparse` and `Rewritten` the separate `--reparse` program of `fate_repro.py`.
`GptPlacementGrid` and `DensePlacementSweep` are the record of
`MoePlacementGrid`: their loops differ in parameters only. The generated texts of
`run_traces.py` and the stderr files of `parity_check.py` are not among the
files of an arm; the traces and the compared outputs are.

`ResultTable` is what the output file is for its reader: a table from arms to
rows which a session replaces or updates, not readable while it is written,
empty after a write that was cut off. `Campaign` refines it, `--reparse`
included.

### `ServerBench` (with `ServerBench_proofs`)

The two `speculative_bench.py` scripts start a llama-server per configuration
(or per repetition with `--interleave`), poll one port until something answers,
time completions and terminate the server. A server is a process of its own: it
binds the port if nobody holds it, loads, answers, dies when told or by itself;
whoever holds the port answers. Servers survive the session that started them,
which is the point: the deadline of the older script leaves one behind. `--configs`
may name anything (`Wanted`); what is not in `CONFIGS` is dropped. Ctrl+C
strikes between any two steps, also between `Popen` and the `try` that guards it.

### `LayerPackage` and `LayerStream` (with `LayerStream_proofs`)

`LayerPackage` has the packages of `real_layer`: a data file written tensor by
tensor at aligned offsets, cut to length, and a manifest written last, in two
steps as `write_text` truncates first. Its bytes are `<<model, layer, tensor>>`.
A session uses any manifest it finds; `qwen_layer_stream.py` checks the layer,
`three_layer_pipeline.py` nothing.

`LayerStream` extends it with the sessions of both scripts: `--pack-only`, the
loop of the one-layer script, the serial runner, and the overlapped runner in
which a worker thread reads and stages all packages while the main thread copies
and computes. After a run its rows are kept (`Keep`, in the three-layer script one
stage at a time), its error is printed, and only then looked at (`Report`): Ctrl+C
or a failure between these steps is in the model. A copy into a pinned buffer is two steps, with `Garbage` in
between; old contents of a reused buffer stay behind the new ones. What a layer
computes is the list of byte sets its parameters view. Every step of the main
thread and of the worker can fail or, for the main thread, be interrupted.
One thing is left out: `pack_layer` writes to an unbuffered file and does not
look at the count `write` returns (`qwen_layer_stream.py:71,80`). The model's
write stores all bytes or raises; a disk that fills up within the last tensor
could leave a readable manifest over zeros.

### `Locality` and `Analysis` (with `Analysis_proofs`)

`Locality` has the functions of `analyze_locality.py`, `prefetch_simulation.py`
and `analyze_predictability.py` over the records of a trace, as they are
computed: the LRU list that is cut after each token, the residual list of the
prefetch simulation, the history sets of the predictors, and which tokens each
predictor is scored on. `PerfectHits` is the reference: a request hits a cache
if fewer than capacity other experts were requested since.

`Analysis` is their main loop: load a trace, add it to one accumulator after the
other, list it, print its line; one payload at the end or on Ctrl+C inside the
loop (`Interrupt`). Ctrl+C after the loop or in the handler is a traceback, with
the payload as it was or cut off (`InterruptAgain`). A file cut off within a line,
as an interrupted tracer leaves it, raises.

## Runs

| Run | Bounds | Shows |
|---|---|---|
| `moe_cache` | 4 experts, 2 slots, 1 to 3 experts per token, 2 tokens per call, 6 requests | types, consistency of maps and list, exact LRU, kernels read what was requested, refinement of the uncached path |
| `overlap` | 6 blocks, three passes | slots never reused early, reader closed after the worker, in-order sums, termination |
| `overlap_interrupt` | 4 blocks | a violation: Ctrl+C in the three-stage variant can hang |
| `run_manager` | presets of one and of two arms, 3 arms in all | accounting of children, signals, exclusive GPU, refinement of `ArmLog`, stop and quit end |
| `quit_returns` | 2 arms | a violation: a quit in the window before the pid is published waits for the run |
| `queue_locked` | 2 arms | a violation: an entry of a running queue can be dequeued |
| `live_run` | 2 lines per stream, pipes of one line, 2 Ctrl+C | pipes drained without loss, the child reaped but for three named exits, the call ends |
| `campaign` | 14 scripts, lists of two elements, 2 repetitions, 2 sessions, 2 results other than the normal one, 2 Ctrl+C | records and files of a session complete, in order and under their own arm; refinement of `ResultTable` |
| `parity_means` | as `campaign` | a violation: a failed reference run counts as a match |
| `server_bench` | 2 configurations (1 n-gram), 3 values of `--configs` (one with an unknown name, one of the n-gram list), 2 repetitions, 2 sessions, 1 server that dies, 1 Ctrl+C | who answers, whose log, servers left behind, completeness, termination |
| `layer_stream` | 3 packages in 3 directories, 2 models, tensors of 1 to 3 bytes at alignment 2, 2 repetitions | manifests true, own bytes computed, ledger sound, termination |
| `locality` | every trace of 4 tokens over 3 experts or 3 over 4, of two layers with 3 tokens, pairs of short files, capacities 1 to 3 | relations between the analyses, and to a perfect LRU; partial payloads |

Why the bounds are enough. Four experts on two slots give hits, evictions of
expert by expert, a token that replaces both slots, and a batch whose second
token evicts the first one's experts; six requests let a slot be refilled twice
while nothing of the stream has run. Six blocks wrap the ring of three pinned
buffers twice and the two device buffers three times; the worker's wait begins
with the fourth block. Three arms give a preset of two arms, a second preset,
a start after a stop, and a start in a new session with detached children
alive. A pipe of one line makes a child wait for a
thread on one stream while the other is full. Two elements per list, two
repetitions and two sessions let an arm have neighbours before and after it in
every loop, rounds alternate, and files of one session meet the other; two
faults cover a pair of failed runs, two Ctrl+C the second one that strikes in
`write_payload`. Two sessions of servers show what one leaves to the next; one
death and one Ctrl+C strike at every point of either. Three packages use a
device buffer twice, the sizes are multiples of the alignment and not, and
sessions are not bounded at all. Traces of four tokens at two experts each let
an expert leave a list of three and return; the oracles are compared up to the
four sets such a trace can unite.

`MaxUsed`, `MaxTokens`, `MaxRequests`, `MaxArms`, `MaxLines`, `MaxSessions`,
`MaxFaults` and `MaxInterrupts` are bounds of the models, not of the code, and
appear only in the guards of what the environment does: the work it asks for,
the lines a child writes, the sessions a user starts, the failures and the
Ctrl+C. Deadlock checking is off where the system stops: the bounded requests
and sessions end, the program exits. `layer_stream`, where sessions go on
forever, checks it.

Fairness. The device executes what is enqueued and a started call continues
(`MoeCache`); every thread and both streams make progress (`Overlap`); the
worker, the handlers of the UI thread, the passing of the five-second grace and
a child's way to `setsid` make progress (`RunManager`). Nothing forces a read
to fail, a key to be pressed, or a child to end: a measurement may run forever,
and the liveness properties hold all the same. In `LiveRun` the threads and the
started child make progress and the short waits expire; the hour of the long
timeout comes only for a child that hangs. In `ServerBench` only the script is
fair, whose waits all have timeouts: nothing is assumed of a server. In
`LayerStream` the two threads are fair, so reads and copies return or raise.
`Campaign` and `Analysis` state no fairness: their loops are bounded and wait
for nothing but `run_live`.

## Findings

* `experiments/overlap/variants.py:198`: an exception of the main thread other
  than the worker's own joins a worker that may wait, without a timeout, for
  `h2d_enqueued[block - 3]`, which only the main thread sets. Ctrl+C then hangs
  instead of exiting with 130 (`pipeline.py:3-5`). `EventuallyExits` shows that
  this is the only wait that hangs.
* `run_manager.cpp:94`: the destructor detaches a child only when its pid is
  published; in the window before, it waits for the run
  (`README.md:27` says Ctrl+C quits immediately). `QuitEnds` shows that this is
  the only case.
* `ui_tabs.cpp:236`: `do_dequeue` checks and removes under two locks, so the
  queue is not locked while a run is active.
* `parity_check.py:71`: an empty output of a reference run that failed is a
  substring of every text, and its return code is not looked at, so the check
  prints `MATCH: True`.

Met while modelling, and stated as exceptions in the properties: a `Ctrl+C`
between `Popen` and the `try` leaves the child (`common.py:137`, `ChildNotLeft`;
`speculative_bench.py:84`, `ServersLeft`); a run whose output lacks the expected
row ends most grid scripts with an `IndexError` and no file
(`placement_grid.py:102`: no exit status in `NeverDropped`); the last record of an
interrupted `fate_repro.py` has no log of its own yet, and `--reparse` takes that
of an earlier session (`ReparseFaithful`); `measure_cache_poc.py` names its text
files without the prompt (`FilesOfCompletedArms`); `--configs` drops names it
does not know, with `--ngram` those of the n-gram list, and may write a complete,
empty file (`Accounted`); a package of another model is streamed, and caught by
the comparison only, after its rows were kept: they reach the ledger, and Ctrl+C
between the two leaves them in a session that ends as interrupted
(`LedgerSound`); a line of `runs.jsonl` whose write or close fails after the open is
lost without the note (`AppendLine`); a file in which no two positions follow each other ends
`analyze_locality.py` with a `TypeError` that loses the results of all files
(`Unprintable`); the "perfect LRU" of the plan counts up to the hits of a cache
with room for the other experts of a token (`LruCurve`), and the combined prefetch scheme is
no better than an LRU that holds a token's experts (`AnalysesAgree`).

## What is proved

`MoeCache_proofs` proves, for all constants that satisfy `CacheAssumption`,
`Spec => []TypeOK`, `[]CacheConsistent`, `[]ExactLru`, `[]KernelReadsRequested` and
the refinement of the stock path (`ComputesUncached`). `KernelReadsRequested` needs the argument why stream order is
enough, which the inductive invariant `IInv` makes explicit:

* `FitsInSlots`: a call that started has no more experts per token than slots;
* `PinnedSlots`: the slots resolved so far for the current token are at the
  front of the list and still belong to the token's experts, so that a miss,
  which takes the back of the list, does not evict one of them;
* `StreamHolds`: when everything in the stream has run, every slot will hold the
  expert `slot_expert` says (`SlotsWillHold`), and every kernel in the stream
  will find the experts of its token in the slots uploaded before it
  (`KernelsWillRead`).

`ComputesUncached` is the refinement of `UncachedExperts` without its fairness. The
invariant it adds, `InOrder`, says that the kernels in the stream are those of the
first tokens of `submitted`, in their order, and the batch is the rest of it; the
order is given by an increasing list of the kernels' places (`LaunchedAt`), which a
step of the host extends and a step of the device shifts.

The lemmas prove that a step preserves each part, action by action; the
theorems follow by temporal reasoning from `Init => IInv` and
`IInv /\ [Next]_vars => IInv'`. The assumptions are those the code checks:
`cap > 0` (`get_config`), more experts than slots (`register`).

`LiveRun_proofs` proves, for any number of lines, size of the pipes and number
of interrupts, `Spec => []TypeOK`, `[]NothingLost` and `[]ChildNotLeft`. The
invariant `Inv` ties the three processes together: a return code is known of a
reaped child only, and a child that completed has written all its lines
(`ChildInv`); a thread has ended only when nobody can write to its pipe and all
of it was read (`DrainInv`); after the wait the child is reaped, and a stream
that was joined without giving up has such a thread (`JoinInv`). `NothingLost`
follows; it is not inductive alone, as it says nothing until the call returns.

`LayerStream_proofs` proves for any alignment, layers, sizes, models and
directories that a package whose manifest can be read is complete
(`PackageSpec => []ManifestDescribes`), whatever errors and interrupts ended the
sessions. The strengthening (`Packing`) says what holds while a package is
written: no readable manifest in its directory, the tensors packed so far in the
data file below `offset`, the length what `AlignUp` makes of it. The one fact
of arithmetic, that `AlignUp` is a multiple of the alignment not below its
argument, is a lemma from the meaning of `\div` and `%`. `StreamsPackages` is a
refinement proved step by step: every step of the streaming scripts, of either
thread, is a step of `PackageSpec` or leaves the packages alone, so the theorem
carries over (`StreamManifestsDescribe`). The assumptions are `PackageAssumption`
and `StreamAssumption`: tensors are not empty, the packages that are streamed
are among those that can be asked for.

The same module goes on to the threads: `Spec => []ComputedOwn` and
`Spec => []LedgerSound` for any number of packages and repetitions. Of
`ComputedOwn` alone no step can be shown; `StreamInv` adds where the bytes are
while they travel. `MainInv` says that at each point of the loop the staging or
the device buffer in use has the bytes of package `i` (`Agrees`), whatever a
larger package left behind them. `WorkerInv` is what the two threads owe each
other: a worker lives only while its own run waits for it or the process ends,
every announced package has its pinned buffer filled and the worker beyond it as
long as there is no error (after one all packages are announced, and the main
thread raises), and a worker that failed has set the error before. So the one
buffer the worker writes is none the main thread may copy from. `LoadedInv` and
the package theorem give that the bytes of a package are the weights of its
layer (`WeightsRight`). `RowsInv` gives every row its place: the rows of a run
follow those of the run before, one for each of `Parts`, and all are of the
requested model's output but those of the run that is being kept or looked at.

`Overlap_proofs` proves, for any number of blocks, that the three variants never
reuse a buffer early (`[]SlotsExclusive`), close the reader after the worker
(`[]ReaderClosedLast`) and implement `InOrderBlocks` (`RefinesInOrder`). `SlotsExclusive` says nothing of a copy that is not enqueued
yet, so the work is in what the streams hold at any time:

* `Queue` is the shape of a stream, stated once for both: it works block by
  block, waits for the other stream's event of the block `lag` before it, and
  records its own after it. `CopyQueue` waits for the sum of two blocks before
  (the device ring), `SumQueue` for the copy of the same block. `After` makes
  "the wait is in front of it, or the event is complete" one notion, so the lemmas
  about enqueueing, starting, finishing and dropping hold for both streams.
* `BuffersInv` says where a block is: every enqueued copy finds its block in
  `b % Ring` of the pinned ring, every block copied and not summed is in `b % 2` of
  the device, the sums done are those before `block` that are not enqueued.
  That a slot is free when it is filled is lemma `SlotFree`, that a block is there
  when it is summed `SumReady`.
* `TopInv`, `CountInv` and `FillInv` give what the main thread knows at each
  label; `WorkerInv` what the worker and the main thread owe each other: the
  worker is at most three blocks ahead of the copies announced (`h2d_enqueued`),
  and the staged blocks that are not copied yet are in the ring.
* `run_sync` reuses one buffer on one stream and has an invariant of its own
  (`SyncInv`); `PlaceInv` ties the labels to the variant and to the unwinding.

The refinement is proved step by step: a sum that finishes is the next block of
the abstract pass (`SumInOrder`), verification is the end of it (`VerifiedAll`), and
a step that is none of these (`Quiet`) is a step of the unwinding or a stutter. TLC
checked the invariant for one to five blocks and for seven before it was proved.
The assumptions are that there is a block, that the variants are a list of the
three names, and that the markers for garbage, zero and idle are not blocks.

`RunManager_proofs` proves for any presets and bounds `[]ChildrenAccounted`,
`[]OnlyStoppedSignalled`, `[]VramExclusive` and the refinement of `ArmLog`
(`RunsTheQueue`). Each of the critical sections is an action, so the invariant
has to say what holds between them. `WorkerInv` and `RequestInv` tie the
worker's place to the record it holds and to the flags; `RecInv` says that the
record it holds is that of the last child forked, and which note it can still
get: a signalled child is one whose worker has seen the stop, or has its grace
begun. `RecordsInv` gives the count: every child of the session is pending or
in a record, in the order of the forks (`InForkOrder`), so `Cardinality` of the
records of a child is one. `VramInv` follows a detached child: the worker never
waits for it, no new one is forked in the session, and the preflight of the
next one sees it unless it had not executed llama yet. For the refinement, `ArmLog`'s
log grows with the `push` of a record (`LogGrows`), and the steps of the worker,
of the requests and of the other keys map each to one step or to none.

`ServerBench_proofs` proves, for any lists of configurations without
duplicates, values of `--configs`, repetitions, sessions, interrupts and dying servers, all five
invariants of the run. `ServerInv` is the heart of it: while a session runs the
only live server of it is that of the loop, and none is alive when the loop
starts the next; so whoever answers is this server or a leftover of an earlier
session (`OwnServer`), and what an interrupted session leaves was told to end, or
Ctrl+C struck where nobody tells it (`ServersLeft`). `LivesInv` says of the lives of a session
that they cover every repetition and write to different logs; for the
interleaved order that is arithmetic of quotient and remainder (`RunHasPlace`,
`PlaceHasRun`), for `--configs` a fact of increasing bijections
(`SelectionIsListing`). `CoveredInv` counts what the loop has left behind, and gives
`Accounted`. `BenchAssumption` asks that the two lists are disjoint and name no
configuration twice, as they do.

`Campaign_proofs` proves, for each of the fourteen scripts, any lists of points,
models, configurations and prompts, and any number of rounds, sessions,
interrupts and faults, `[]TypeOK`, `[]NeverDropped`, `[]ReparseFaithful`,
`[]FilesOfCompletedArms` and the refinement of `ResultTable` (`FileIsTable`). It has
two halves.

* The lists. `Sound` is all that the proofs need of a script: no two arms have the
  same name or, where it matters, the same file; the arms of a model follow each
  other; no script that replaces its records has `--only`. `ScriptsSound` proves
  it of every script from the two loops they are made of (`NestedListing`,
  `AlternatingListing`), which is arithmetic of quotient and remainder.
  `SelectionFacts` carries it to what `--only` leaves of a plan. So it is a theorem
  and not an assumption.
* The sessions. `PlaceInv` says where the loop is when the script is elsewhere.
  `RecordsInv` says that the arms behind the loop, and no others, have a row, each
  of its own run; a missing model makes the step long, and `SkippedPlaces` shows that
  the arms it passes over are exactly that model's. `TablesInv` says that a name has
  one row in each list. `LeftInv` holds what an ended session has left, also while
  `--reparse` has the file open, when no property of the file can be stated yet.
  `FilesInv` follows the file of an arm through the three orders in which scripts
  write it: by the child, before the record, after it.

The refinement goes step by step (`TableStep`): `TableMeasures` is a record that
is appended, `TableMerges` the update of `mixed_precision_gate.py`, `SameTable`
that a table depends on the rows and not on their order. TLC checked the invariant
(`IInv`) on all states of `campaign` before it was proved. Plans, selections and
merged rows are stated as functions of places of the plan, which SMT can reason
about, rather than with recursive operators on sequences. `DriverAssumption` asks
that no list names a thing twice or contains the marker for "none", and that there
is a point and a round. That is so of the literals of the scripts; `--placements`
of `ik_ab.py` is the user's, is not checked for duplicates (`ik_ab.py:117-129`),
and two equal placements would share their files;
`CampaignAssumption` that the two markers are not statuses.

`Analysis_proofs` proves `[]PartialWithinOneFile` for the three analyses, any
capacities and any traces, torn ones included. It is true of a payload only,
so the invariant has to say what is in the accumulators while a file is added:
those up to `added` have it, the others do not, and the list has the files before
it until the last accumulator has it too (`AddingInv`). The list of accumulators
depends on the script and the capacities, whose length is all that
`AnalysisAssumption` is needed for.

Only model-checked:

* liveness, in all modules, and the liveness in `ImplementsUncached`: `ENABLED` is
  out of the prover's reach;
* `LruCurve`, `AnalysesAgree` and `OracleBounds` of `Analysis`: what the folds and
  sums of `Locality` compute for traces of every length needs
  induction over sequences, which the prover cannot instantiate.

## Not modelled

* `write_rows` and `rebuild_summary` of `common.py`, and the system benchmarks
  that call them: timing loops around one-threaded I/O whose ledger is a CSV file
  appended to by one process at a time in every documented use.
* `cache_cost_model.py` and `mixed_precision_plan.py`: floating-point arithmetic
  over recorded measurements, in one pass, without state.
* Formatting of payloads, statistics over repetitions, command lines, progress
  lines (unless they raise).
* The loader's slot tensors and the positions of the trace callback.
* The collectors, the configuration and JSON of bench-tui, its terminal library.
* The scripts of `tools/`: sequences of commands.

The registration failure and the statistics JSON of the cache; the fixture file,
the result rows and several block sizes and repetitions of the overlap
experiment; in `run_manager.cpp` the log tail, the elapsed and remaining times
and the parsing of llama-bench's output; processes named llama that bench-tui
did not start; the preset editor and the agent launcher. After a Ctrl+C inside
`worker.start()` a read from the released buffer is modelled as `Garbage`; the
process may also die there.

## Plan

What is left, in the order in which it would be taken up:

1. `ResultsLedger`: `write_rows` and `rebuild_summary` with concurrent writers;
   the overlap fixture and rows.
2. `TracePositions`: the callback's positions over the layers of a batch.
3. The log tail and the collectors of bench-tui, the preset editor.

Of the properties that hold in the runs, those without a theorem are the liveness
properties, that of `ImplementsUncached` included, and three of `Analysis`, for the
reasons under "Only model-checked".
