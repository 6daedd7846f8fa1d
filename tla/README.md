# scylla-bench: specifications and proofs

TLA+ models of scylla-bench, the TLC configurations that check them on small
instances, and proofs for every instance that TLAPS checks. File and line
references are to the repository (`modes.go:198` and so on).

    tlc -config StackSafety.cfg LatencyStack.tla       # one of the runs below
    tlapm BenchRunProofs.tla                           # one of the proof modules

## The system

A run of scylla-bench is one process. `main` reads the flags, creates the
tables, builds one `Worker` per `-concurrency` and starts for each a goroutine
that loops in `RunTest` (modes.go:198): wait for the rate limiter, do one
operation of the mode on the next rows of the workload, count it, record its
latencies, look at the limits of errors. A printer goroutine prints a line each
second; `main` waits for the workers, prints the totals and exits.

| component | state | operations | who shares it |
|---|---|---|---|
| latency stack (pkg/stack) | two buffers, two pointers to them, the number of reserved slots, two mutexes | `Push`, `Swap`, `swapData`, the callback | every worker pushes into the same stacks; the printer swaps the partial result's stacks each second, `main` all of them at the end |
| run control (modes.go `RunTest`, `TestIterator`; pkg/worker, pkg/testrun, pkg/results) | `stopAll`, `GlobalErrorFlag`, `TotalErrors`, the `sync.Once`, the critical errors, the wait group | iterate, count an error, report a limit, leave, wait, exit | all workers, `main`, the timer, the signal handler |
| operations and retries (modes.go) | the attempt, the batch being built, the counter of mixed mode, the counters of the results | write, batch, counter update, read, scan, mixed; retry, give up | the counters and histograms are shared by the workers |
| sequential workload (main.go `GetWorkload`, pkg/workloads) | a position in the goroutine's part of the population | `NextPartitionKey`, `NextClusteringKey`, `IsPartitionDone`, `IsDone`, `Restart` | nothing is shared, the parts must not overlap |
| scan workload (same) | the next token range | `NextTokenRange`, `IsDone`, `Restart` | nothing is shared, the ranges must not overlap |
| time series workload (same) | the writer's generation and row; the reader's clock | the same as above | writer and reader are two processes that agree by the clock only |
| rate limiter (pkg/ratelimiter) | the number of operations since the start | `Wait`, `Expected` | none |
| periodic reporting (pkg/testrun, pkg/results) | the partial counters and histograms | flush, print, reset | the printer resets what the workers add to |
| row data (modes.go) | none | generate and validate the content of a row | none |
| random distributions (random) | the generator of a worker | `Int64N`, a row size | none, a generator belongs to one worker |
| configuration and startup (main.go:337-972) | the flags | check, connect, create the tables, start the workers | the workers read the flags |
| uniform workload, clock, version | generator state | draws | none |

What is hard here: the stack is written without a lock and swapped by three
kinds of goroutine; the limits of errors are tested by all workers while others
add to them; the stop and the error flag are read at different places of the
loop; retries go round inside an operation, out of reach of both; the printer
resets counters that the workers add to, while `main` flushes the same stacks and
exits; what a mode needs of the flags is checked far from where it is needed;
and the splitting of populations and token rings is full of remainders and, for
tokens, of integers that wrap. The file `PROJECT.json` lists each hazard at its line
with the properties that cover it.

### What makes each component correct

- Stack: flushes never overlap and read the retired buffer; no index out of
  range; no deadlock; every sample is recorded once.
- Run control: a limit is overrun by a bounded number of errors and reported
  once; status 0 means no limit was reached; a stop ends the process, and soon.
- Operations: each is counted once, as done, failed or neither, with its
  samples; it fails only when its retries are used up, a failure does not pass for a
  success, and it returns.
- Workloads: the goroutines' parts are disjoint and cover the population (or the
  ring), each part is visited in order and once in an iteration, and the visit
  ends.
- Time series: the reader asks only for rows that the writer has written, within
  the number of partitions. Rate limiter: on average not more than the rate.
  Row data: what is generated validates, and nothing else does.
- Reporting: the summary shows all that was counted, nothing is in two lines, and
  a line misses only what comes between its reading of a field and the reset.
- Startup: flags as described that `main` accepts do not crash a worker.
- Random distributions: every value is as likely as any other.

## Plan

The order is that of importance to the whole: first what can crash the process
or corrupt its result, then what decides how it ends, then one operation, then
the workloads.

1. `LatencyStack`, `SampleRecorder` - done, with proofs.
2. `BenchRun` - done, with proofs.
3. `TestFunction` - done, with proofs.
4. `SequentialWorkload`, `TokenRanges` - done, with proofs.
5. `RateLimit`, `TimeSeries` - done, with proofs.
6. `RowData` - done, with proofs in `OperationProofs`. `RandomSource`, what it draws
   sizes with - done, with a proof in `StartupProofs`.
7. `Reporting` and `Startup`, which is `main` with `Reporting` as its run - done,
   with proofs.
8. `RunPromise`, which `BenchRun` implements - done; the safety part is proved.
9. `NumberLemmas`, what the proofs share on quotients, products, sums and counts -
   done.
10. Left: what parses the strings of a distribution and a list of retry intervals;
   time series in mixed mode.

The modules meet at narrow places and are not multiplied into one state space:
`BenchRun.RunOp` is one step that stands for a whole operation of
`TestFunction`, with its outcomes; `TestFunction.Begin` stands for the choice of
rows by a workload; `RateLimit` has the actions of a worker's loop, which
`TimeSeries` composes with the workload's; `TestFunction.samples` counts what `LatencyStack.Push`
receives. `LatencyStack` and `BenchRun` are composed with their abstract
specifications by refinement mappings, `Startup` with `Reporting` by extension:
its last phase is the whole of `Reporting`.

## Modules

### LatencyStack (pkg/stack/stack.go, pkg/results/result.go:53-65)

The partial and the total result each have two to six stacks; every worker pushes
each sample into one of the partial result and one of the total result
(worker.go:65-125). The module is one such stack. `Pushers` are the workers and
`Reporters` the goroutines that call `Swap(false)`: the printer, which swaps
while the workers run, and `main`, a `FinalReporter`, which swaps after
`waitGroup.Wait()`. `Swap(true)` is never called and is left out.

`Push` and `swapData` are marked `go:norace`, and read and write `s.current` and
`s.data` with no common lock, so every access to them is an action: `Reserve`
(the atomic add, line 69), `LockSwap`, `CheckFull` (72), `ReserveAgain` (76,
with the unlock), `LoadPointer` and `WriteSlot` (79). The assignment of line 50
is three stores that a concurrent `Push` may see in either order:
`StorePointers`, `StoreCurrent`. The callback runs on a goroutine of its own for a
`Push` and inline for a `Swap`; it reads one slot a step (`RecordNext`) and
unlocks `cbInProgress` at its end (`FinishCallback`). An index out of range sets
`panicked`, which ends the process. A sample is its pusher and its number, so
that a sample recorded twice, or never, is seen.

`SampleRecorder` is the promise: a set of accepted samples and a count for each,
which goes from 0 to 1 once for each sample accepted. The stack keeps it for one
worker when nobody swaps before that has stopped (`OneWorker`), as is so with
`-concurrency 1` and the stacks of the total result; what goes wrong when somebody
swaps beside a worker is under "Known divergences". `NothingLost` is that half of the
promise which the stack's comment makes for any number of workers and swaps; StackLoss
shows that one worker beside the printer is enough to break it.

### BenchRun (modes.go:138-252, pkg/worker, pkg/testrun, main.go:869-972)

One action per step of `RunTest` that reads or writes something shared:
`SeeStop`, `LastIterationDone`, `Restart`, `Continue` are `TestIterator.IsDone`;
`RunOp` is an operation with its three results (done or failed, either perhaps with
corrupted rows; not to be registered); `CountError` and `IncErrors` are the two
counters of errors; `CheckRowLimit`, `CheckTotalLimit`, `EnterOnce`, `LeaveOnce`
are lines 237-246; `AppendError` and `StoreFlag` the two halves of
`Worker.SubmitCriticalError`; `CheckFlag`, `StopReporting` the end of the loop.
`Wait`, `Exit`, `TimeIsUp` and `Interrupt` belong to `main` and its goroutines.
A second interrupt kills the process (main.go:877). `late` is a history variable:
the operations begun after the stop.

`RunPromise` is the abstract run: it is working until it is stopped or a reported
limit raises the flag, a limit is reported once, by one worker, and the status
says whether one was; a run that is stopped ends. `RunAsPromised` is the
refinement, with `stopAll`, `globalErrorFlag`, the reports and `main` for the
variables of the promise; operations, counters and the places of the workers have
no counterpart in it.

### TestFunction (modes.go:437-1205)

One operation between two visits to `RunTest`, for all workers at once. `pc` goes
from "idle" through building the batch, sending, scanning rows, the retry with
its sleep, to the return; `Register` is the switch on the error in `RunTest`. The
modes differ where the code does: `KindOf` for the halves of mixed mode,
`CloseIter` for the read mode, whose error is lost, `ScanAgain` for the scans
with the driver's retries. A request is one call of the driver, external to the
repository: it answers or fails, after one of `Durations`.

### SequentialWorkload (main.go:177-200, pkg/workloads/workloads.go:37-97)

`Count` and `Offset` are the goroutine's part of the population, `Operate` one
operation: `Restart` if the iteration is over, `NextPartitionKey`, and as many
calls of `NextClusteringKey` as the mode makes (`Taken`). Four ways of using the
workload are told apart: one row, a batch or an IN list up to the end of the
partition, and a read with `-no-lower-bound`, which takes no row. `visits` is a
history variable.

### TokenRanges (main.go:241-250, pkg/workloads/workloads.go:17-26, 311-371)

`NextTokenRange` with the arithmetic of the code: `uint64` division, and `int64`
products and sums that wrap, `Int64(x)`. The width is the constant `HalfTokens`,
2^63 in the program and 16 in the run; the proofs hold for every width.

### RateLimit (pkg/ratelimiter, pkg/testrun/testrun.go:37-47) and TimeSeries (workloads.go:145-308)

`RateLimit` has the clock and the loop of a worker around `Wait`: `NewRateLimiter`
when its goroutine starts, `Wait` up to the sleep, `Begin` when the time has
come, `End`. `Tick` may fall between any two of them, so that workers start late,
oversleep and catch up. `TimeSeries` extends it with the keys that a writer takes
at the beginning of an operation (`StartWrite`) and writes at its end
(`EndWrite`), and with one goroutine of the reader, a process of its own that
shares only the clock, the start timestamp and the printed rate: `ReadPartition`
and `ReadRow` are its two looks at the clock. `rows` is a history variable. A
partition key of the code is `position << 32 | generation`; the model keeps the
pair. Timestamps count from the start timestamp.

### RowData (modes.go:254-435, 813-848, 678-697)

One row: `Insert` is `GenerateData` as the writers call it, `Update` the counter
update, `Read` what `executeReadsQuery` does with `ValidateData` or the check of
the counters. `Damage`, `Resize`, `Misplace` and `Miscount` are the faults of a
database. Bytes are cells of `CellBits` bits, words have `WordCells` of them, and so
on; the formats, the two's complement, the xorshift generator and the truncations
are those of the code. A shift is a product or a quotient by a power of two, and
`WordXor` the sum of the bits in which two words differ. `Crc` stands for CRC32C by
the one thing used of it, that a change of one cell shows.

### RandomSource (random/random.go)

`Int64N` draws a word of the generator, any of `WordCount`, 2^64 in the program,
until it is not below a threshold, and takes the remainder. The module has the
words that are accepted (`Accepted`, `Threshold` in unsigned arithmetic), the
distributions that `ParseDistribution` lets pass (a fixed one is one whose limits
are equal) and the sizes they generate. `RowData` extends it and has
`-clustering-row-size` as a flag; each `Insert` draws its size. `Startup` extends
it too: the flag is one of those that `main` checks or fails to check.

### Reporting (pkg/testrun, pkg/results, pkg/worker) and Startup (main.go:337-972)

`Reporting` has the counters of the partial and of the total result and one stack
for each. A worker adds to the partial and then to the total (`CountPartial`,
`CountTotal`), in two steps as in worker.go:65-125; what it counts is left open.
The printer flushes (`BeginLine`), reads the four fields one by one (`ReadField`),
clears them one by one (`ClearField`) and looks at the stop time (`CheckStop`);
the last line is its second flush and read. `main` waits, sets the stop time,
flushes both results, prints and exits, beside a printer that may be anywhere.
`counted`, `shown` and `missed` are history variables. The samples of a stack stay
with it until somebody flushes, as `SampleRecorder` promises.

`Startup` is `main` before the workers: `CheckFlags` with every check of
main.go:637-718 over all combinations of the flags that are needed later (`Flags`)
and of those that are only checked (`Options`), `Connect`, which may fail,
`Configure` up to `NewTestRun`, and `Launch`, each goroutine up to its first row:
what `GetMode`, `GetWorkload` and the generators do with flags that no check has
refused. In the phase "run" its steps are those of `Reporting`.

### Constants and proofs

No module of constants lies between a module and its runs: those of the .cfg files
are all they need. `*Proofs` hold the theorems, `NumberLemmas` the lemmas about
numbers that they share.

## Runs

| run | module | what it shows | states |
|---|---|---|---|
| StackSafety | LatencyStack | two workers, the printer: flushes do not overlap, bounded overshoot, all calls return | 186,980 |
| StackOneWorker | LatencyStack | one worker: no index out of range, the stack implements SampleRecorder and misses no sample in the end | 222 |
| StackLoss | LatencyStack | violation: a sample reserved between the reading of the counter and its reset is lost | |
| RunControl | BenchRun | limits, status and summary; the run implements RunPromise, with its end | 621,502 |
| OpsAccounting | TestFunction | every operation returns, is counted once and as what it is, but for failed reads, in all modes | 187,538 |
| ReadFailures | TestFunction | violation: a failed read passes for a success | |
| SeqSplit | SequentialWorkload | rows visited once, by their owner, in order, one by one or in portions of whole partitions | 104,012 |
| ScanRanges | TokenRanges | tokens read once, by their owner | 118,059 |
| TimeSeries | TimeSeries | rate kept, partitions and keys apart, the reader within what is written | 957,003 |
| RowData | RowData | what is written validates, faults are detected | 258,908 |
| MainProcess | Startup | from the flags to the exit: no crash of a described run but for three named kinds, row sizes are drawn evenly, lines and summary agree with what was counted | 2,463,002 |
| RateLimitLost | Startup | violation: `-max-rate` below `-concurrency` limits nothing | |

### Bounds, and why they are enough

- Stack: `Limit` 2 is the smallest at which a buffer holds a sample beside the one
  that finds it full. Two workers with two pushes each fill it and overrun it,
  and the printer's swap may fall between any two steps of them (`MaxSwaps` 1; two
  swaps of one goroutine follow each other, and add no overlap).
  StackOneWorker pushes six, so that both buffers are used again with old
  contents in their slots. StackLoss needs one worker only.
- Run: `MaxErrors` 2 with two workers lets one reach the limit while the other
  counts beyond it; two errors at one row need two operations of a worker
  (`MaxOps` 3). `Iterations` 3 of one row are longer than the limits need. Two
  interrupts are a stop and a kill. A worker at `MaxOps` may still do the
  operation after which it sees the flag, so that the bound never stands for the
  stop itself.
- Operations: two retries give a first, a middle and a last attempt, and
  `MaxInterval` 3 with `HalfMin` 1 cuts the second pause and not the first. Four
  operations of two workers are two pairs of mixed mode. `MaxRows` bounds the
  rows that reads return, which the properties do not depend on.
- Sequential workload: one to four goroutines and up to nine rows have every
  remainder, parts that begin and end inside a partition, and goroutines without
  rows. `MaxOps` is more than the longest visit, so it never cuts one.
- Scan: a five-bit ring with 1 to 7 and 15 ranges has all remainders, the single
  range whose size does not fit, and the largest count the type allows.

- Time series: `Second` 12 divides by every rate and period that occurs; thirteen
  ticks are a second and the late start of a worker (`StartDelay` 1), in which
  partitions of one and two rows go through several generations. One to three
  partitions and one or two goroutines on both sides divide evenly and do not,
  and the reader may have more goroutines than there are partitions.
- Row data: cells of 16 values, words of two, a header of six cells and a checksum
  from nine on; the sizes are those on both sides of each boundary, and one in
  the middle. The keys are chosen so that the generator yields zero cells, their
  xor is 0 and their words wrap; the clustering keys have 0 and negative values.
  A row may stay as it is (no deadlock check).
- Main process: two workers are one between its two adds beside one that leaves;
  four counts fill each of the four fields, or one of them on both sides of a
  read and of a reset. `Counts` 0 to 2 with a concurrency of 0 to 2 have every
  flag at 0, below, at and above each other flag it is compared with; all
  combinations of the flags are initial states. Row sizes are fixed at 0 or 3 or
  drawn from 0 to 2: `WordCount` 32 is no multiple of 3, so that `Int64N` rejects
  words (`RowData` has more widths, some of which divide the words evenly).

### Fairness

- Stack: weak fairness for each goroutine and callback that can run (the Go
  scheduler), strong for `LockSwap`, `BeginSwap`, `LockCallback`: a `sync.Mutex`
  hands itself over to a waiter of more than 1 ms.
- Run: the promise has weak fairness of its end once it is stopped, and of the
  exit; the run has weak fairness for workers and `main`; an operation returns (`OpsAccounting`
  says when); the timer fires. No signal has to come.
- Operations: weak fairness for each worker: requests are answered or time out in
  the driver, sleeps end. How many requests fail is left open.
- Sequential workload: weak fairness of `Next`; the goroutines share nothing and
  each has finitely many steps.

## Proofs

For every value of the constants, from the named assumptions of the modules only
(`StackAssumption`, `RunAssumption`, `SequentialAssumption`, `TokenAssumption`,
`RateAssumption`, `SeriesAssumption`, `TestAssumption`, `ReportingAssumption`,
`StartupAssumption`, `WordAssumption`, `FormatAssumption`, `SizeAssumption`,
`RangeAssumption`): finite sets of goroutines, flags that are numbers and, where a
default or a type says so, not below 0, a range count below 2^63, rates of at most
one operation per tick (a nanosecond), a word that is not empty and row sizes that
fit in it; and of the formats of a row, that the checksum is not wider than a word,
that `generatedDataMinSize` is more than the header and the checksum take, that the
shifts are not longer than a word, that the size of a row without a header fits an
int8, and that keys are int64s. The program's constants meet them all.

**NumberLemmas.** `SameRun`: no number is in two runs of n, or at two places of
one; `Remainder`, `QuotientAtLeast` and `QuotientAtMost` are what rounding down
means. `Induction` is proved here from the least element of a set of numbers, as
the rules of the library take operators as parameters; it is stated for sets
instead. From it come `Recursion`, that a function defined from its value at one
less exists, and what is needed of sums (`SumExists`, `SumBound`, `SumRaised`,
`SumZero`). `OneOfEachRun` counts by a bijection: as many numbers as there are runs
are at any one place of them (`Repeats`). `DoublesExist` makes powers from a function
defined by doubling, `DigitsEqual` says that numbers with the same digits to a base
are the same up to a multiple of its power, and `SumOfPowers` that a sum of powers of two,
each taken once at most, is below the next one; they carry the proofs about words and cells.

**LatencyStackProofs.** `TypeCorrect` needs that a pusher in the middle of a call
has pushed something (`Begun`). `RetiredBufferCorrect`: `RetiredBuffer` alone is
not inductive; `Locks` adds who holds each mutex at each place, that a pusher
which has started its callback keeps `cbInProgress` until it ends, and which of
the stores of line 50 are still to come. `OvershootCorrect` and
`NoPanicWhenSafeCorrect` come from `Counts`: the reservations beyond the limit
are paid for by the pushers in `Waiting`, each of which flushes or has seen a
flush before it reserves again; with one worker, or two and no printer, every
index and every count of a flush stays within the buffer. `RecorderKept` is the
safety part of `RecordsEverySample`: with one worker each step is one of
`SampleRecorder` or none. It needs `Handed`, an account of every sample the worker has
written: the first r are in the histogram, the next m are what the running callback
has still to record, in order in the retired buffer, and the last n are in the
buffer being filled, in order from its first slot; n is the count that a flush gets
and, but for the time of one, the counter. `CompleteCorrect` adds `Emptied`, that a
reporter which has swapped leaves the counter at 0: when all is over m and n are 0.

**BenchRunProofs.** `WaitGroupOK`: the counter is the number of workers that have
not left. `ErrorBudget`: errors past the limit are at most the workers `Beyond`,
between their count and the flag; it needs that the once is done only after the
flag is set, which is where the waiting of `sync.Once` enters.
`SummaryShowsErrorsCorrect` needs `SummaryOK`: what the summary lacks of the counted
errors is at most the number of workers in `Recording`, which have raised
`TotalErrors` and not yet their result; none of them is left when `main` prints.
`Reports`: one
worker at most is inside the once, and a worker that has reported its limit at
row is on its way out. `LateOK`: who has begun a late operation cannot be about
to begin another. `Answered`: a limit that is reached has somebody on the way to
report it, so that status 0 excludes it. `PromiseKept` maps each step to a step of
`RunPromise` or to none: from the same invariant come that a report is the first
(`Reports`), and that the flag is raised behind one.

**SequentialWorkloadProofs.** `PartsDisjoint` and `PartsCover` are arithmetic: the
parts adjoin, the first begins at the offset and the last ends at the end,
whatever the remainder. `OwnRowsCorrect` follows from `Walks`: the position is
the part's offset plus the rows taken, and at parts that are whole partitions
the end of a batch is not beyond the end of the part. `VisitsInOrderCorrect`, for rows taken one by one and for portions of whole
partitions alike, has the invariant `Ordered`: the i-th row a goroutine has visited is at place (i - 1) % count
of its part, and their number is that of the complete iterations and of the place
it is at; `Finished` says that a goroutine that is over has done all iterations.
`EachRowOncePerIterationCorrect` follows: a row has one owner (`PartsDisjoint`,
`PartsCover`), which visited it at one place of each of its iterations (`Repeats`),
and no other goroutine ever did. `VisitShrinksCorrect` is the core of `VisitEnds`: a
natural number, the rows left in all iterations and a step for each (`Left`), falls
with every operation that takes a row, however many it takes; `InIterations` says that
nobody begins an iteration beyond the last.

**OperationProofs.** Of `TestFunction`: `TypeCorrect` and `ErrorsAreFinalCorrect` need `LocalsOK`: a
worker sleeps only before a retry that it has left, an operation that returns an
error has failed with no retry left and a latency of 0, and one whose request failed
goes on to a retry or to an error, except in read mode, whose error is lost. `CountedOnceCorrect` and
`SamplesPerOperationCorrect` need nothing beyond these: both count the workers that
have an operation not yet accounted for, or a sample not yet recorded.
`MixedHalvesCorrect` needs `HalvesOK`, that the reads begun exceed the writes begun by
the parity of `opCount`, and `RowsWrittenCorrect` needs `WritesOK`, that in the modes
that write an operation is of at least one row, and of one row outside a batch. That
a back-off is a number at all is `PowersPositive`, by `Induction`.
`OperationShrinksCorrect` is the core of `OperationsReturn`: of an operation a natural
number is `Left`, five for each retry and the place in the attempt, and every step of
its worker but the reading of a row makes it smaller, whatever fails. It does not hold
for scans that leave the retries to the driver (`Endless`).

Of `RowData`: the inductive invariant is `RowInv`, that the row holds what was written
for its key, or that with the one fault that has come to it, and that a verdict is what
validation says of the value now. `IntactCorrect` then rests on `WrittenValid` and
`CountsValid`, that what is generated, in each of the three formats and for counters,
validates, whatever its size and keys. `FaultsDetectedCorrect` has a lemma for each
fault. `CellDetected`: every cell of a value is covered by the size, the keys, the zero
padding, the payload or the checksum (`PartAltered`), and a checksum tells of a changed
cell (`CrcDetects`). `LengthDetected`: the first cell of a size differs from that of a
size one away. `KeyDetected`: cells determine an int64 (`CellsDetermine`,
`KeysDetermined`), so that a full row of another key does not pass; the small format
has no such claim, as it keeps an exclusive or of the keys. `CountDetected`: a counter
off by one is no longer in the proportion of the five.
`RandomDataNonZeroCorrect` needs that a round of the generator maps no word but 0 to 0
(`NextWordNonZero`): the exclusive or of a word with its own shift to the left keeps
its lowest bit that is 1 (`LeftShift`), to the right the highest (`RightShift`); so a
payload of a word or more has a cell that is not 0, and `ensureNonZero` sees to
the shorter ones.

**TokenRangesProofs.** `FirstTokenExact` and `LastTokenExact`: the product wraps,
and the sum wraps back, so that the tokens are those of unbounded integers.
`RangesAdjoin` follows: the ranges begin at the first token, end at the last and
each begins behind the one before it. With `OwnRanges`, the disjoint ranges of
the goroutines, the invariant `IInv` gives `RangesForward` and
`GoroutinesDisjoint`. `EveryTokenOncePerIterationCorrect` is the argument of the
sequential workload once more: each token is in one range (`TokenHasRange`, from
`RangesAdjoin`), each range has one owner (`RangeHasOwner`), and the owner read it
once in each iteration (`Ordered`, `Finished`, `Repeats`).

**TimeSeriesProofs.** `Periods`: no period is 0. `TypeCorrect` needs `Placed`, that
a writer inside an operation is at one of its partitions. `WritersApartCorrect`
follows from `Strided`, positions and rows lie whole strides from the writer's
first, and `StridesApart`. `NewerRowsSmallerCorrect` follows from `AllBefore`: the
number of the row a writer is at, through the generations, never falls, and
within one number its positions rise. `ReaderSafeCorrect` needs that the
generation drawn had begun (`Begins`), and that rounding twice is rounding once
(`QuotientAtLeast`). `PacedCorrect` is the limiter of each worker, and
`RateRespectedCorrect` its sum over the workers (`AllBegunIsSum`, `SumBound`).
`InSeriesCorrect`: a worker's keys are a series, in which the i-th has place
(i - 1) % p of round (i - 1) / p, p being the worker's partitions rounded up
(`PositionsAre`, `WrapsAtLast`); the round is the number in the clustering key
and lies in the generation. `FullGenerationsCorrect` counts the rounds of a
generation in it (`OlderOfGeneration`). `OlderRowsWrittenCorrect` needs the reader's
positions as well (`ReadsAtCorrect`, `ReadsPartition`), and that for rates and counts
which divide evenly a round of the writer takes no longer than the period of the
reader, which is also that of the clustering keys (`EvenPeriods`): the row asked
for is in the series at a place that the writer, being on time, has passed.

**StartupProofs.** All invariants of MainProcess, for any flags and any number of
workers and counts, and `TypeCorrect`, which no run repeats. `WaitGroupOK`: the counter is the number of workers that have
not left, so that `main` goes on after the last add. `TotalOK`: the total result
and its stack are behind what was counted by the workers that are between their
two adds (`Adding`), so that the summary, printed after the last flush, is complete.
`LineOK` is the balance of the lines: what was shown or missed and what the partial
result and its stack hold is what was counted, with the fields of a line that is
not yet cleared counted twice. `ShownOnce` follows, as a line shows at most what is
there. `LastOK`: after the stop nothing comes to the partial result, and the last
line is what is in it; `LinesComplete` follows. The bound of all this is one step
of `FlushDataToHistogram`, which `LatencyStack` has in parts. `AcceptedRunsCorrect`
goes through the checks (`DescribedRuns`): each division and each draw that could
panic is excluded by a check of `main`, by the description of the flags (`Described`)
or by one of three exceptions, which nothing excludes: counts of zero (`NothingToDo`),
time series writes with less than one operation per second for each goroutine
(`SlowTimeSeries`), and rows of no bytes that are to be validated (`EmptyRows`). The
theorem says that there are no others.
`ReportingCorrect` is the same for the specification of `Reporting` alone.
`EvenlyDrawnCorrect`: the threshold is the remainder of the number of words by n
(`Remainder`), so that the words accepted are whole runs of n (`WholeRuns`); v - r
maps the words for the remainder r one to one to those for 0 (`SameShare`), and
there is one (`SomeWords`). The distribution must not be wider than the words, as no
int64 is; `SizesEvenlyDrawnCorrect` has it for every flag that gets to a worker.

**Only model-checked.** The liveness properties `CallsReturn`, `OperationsReturn` and
`VisitEnds`, and the fairness of the refinements `RecordsEverySample` and
`RunAsPromised`: liveness under fairness is out of the prover's reach. `RecorderKept`
and `PromiseKept` are the rest of the refinements, `OperationShrinksCorrect` and
`VisitShrinksCorrect` the quantity that falls. All invariants of the passing runs are
theorems.

## Known divergences

Three runs show where the program does other than it says (PROJECT.json,
"findings"): StackLoss, ReadFailures and RateLimitLost. Further ones that the models contain and no run is spent on:

- Corrupted rows are errors of the summary and do not count towards
  `-error-limit`, "Number of errors in summary to appear before stopping"
  (main.go:611; modes.go:822, 845, 1165). `SummaryShowsErrors` is an inequality for
  this reason.
- Errors slower than the cutoff are to be recorded as timeouts (main.go:115-116);
  every test function returns a latency of 0 with its error, so that modes.go:230
  is never true.
- With one `-retry-interval` the first pause is anything up to the interval:
  modes.go:450 passes the attempts from 0 to a function that expects them from 1.
- Batches and IN lists of the sequential workload end with the partition and not
  with the goroutine's part (modes.go:577, 880); `OwnRows` claims them only for
  parts that are whole partitions (`Aligned`).
- Reads with `-no-lower-bound` take no row of the sequential workload, which then
  does not end (modes.go:887); `VisitEnds` excludes them.
- A goroutine whose part is empty visits a row of another one from the second
  iteration on (modes.go:163-170); `OwnRows` excludes these parts.

- With `-retry-handler gocql` the scan loop neither returns nor counts an error that
  the driver gave up on (modes.go:970-975): it repeats its request for ever, and
  no limit and no timer ends it. `OperationsReturn` excludes these scans.
- The stack may also count a sample twice, or record what a slot held before: a slot
  is reserved (stack.go:69) before it is written through a pointer read later (79),
  and a flush in between (50) reads the slot first, or the sample goes into the other
  buffer. Two workers are enough for this without the printer: StackOneWorker with a
  second pusher violates `RecordsEverySample`. Beside the printer one is, as
  StackLoss shows; its swap reads the count (42) before it waits for the callback, so
  that more may be pushed meanwhile.
- At more than the concurrencies of `NoPanicWhenSafe` the process may panic, as a
  buffer has one spare slot. Beside the printer two workers are enough: each reserves
  a slot beyond the limit, `Swap` hands the counter to its callback as it is (42, 55),
  and that indexes beyond the buffer in the printer's goroutine (result.go:61), as
  StackSafety with the invariant ~panicked shows. The index of stack.go:79 stays
  within the buffer with two workers; with three, one that reserves again (76) behind
  the reservations of the two others writes beyond the spare slot, without any swap by
  the printer.
- A worker's rate of 0 (RateLimitLost) is a division by zero for time series writes
  (workloads.go:165): `SlowTimeSeries`, which `AcceptedRuns` excepts. README.md:274-278
  asks only for as many partitions as goroutines and for a rate, main.go:709-714
  checks these two, and the goroutines panic when the tables are created and
  truncated. Mixed mode does so without `-max-rate` as well: README.md:241 calls it
  compatible with time series, and main checks writes only. `Described` asks for the
  rate, which README.md:278 does of time series without naming the mode. With more
  goroutines than partitions the period of mixed mode is 0, and rows overwrite each
  other; and its reads take rows that its writes skip.
- An unknown mode or workload, and a counter mode with the time series workload,
  panic in a goroutine, after the tables were created (main.go:177-292); a count of
  0 partitions or rows, or a concurrency of 0 with a rate, divides by zero or draws
  from nothing (`NothingToDo`). `-workload scan` passes with other modes; its partition key is 0 for
  ever (workloads.go:355).
- Mixed mode "requires specifying a duration" (README.md:243), which nothing checks.
- A swap of a stack always reports data, as a buffer has a length, so that
  `FlushDataToHistogram` tells whether there are stacks and not whether there is
  something new (result.go:175-197): with `-measure-latency` an empty last line is
  printed, and without it the counts since the last tick are in no line.
  `LinesComplete` is stated for the former.
- What is counted between the printing of a field and its reset is in no line
  (testrun.go:108-110); the model keeps it in `missed`. `main` may exit before the
  last line is printed. The rates of the summary divide by the time elapsed,
  which is 0 for a run that ends at once (testrun.go:143).
- A uniform distribution is said to be over [Min, Max] (random.go:314); README.md:352
  and the code leave Max out. As a bare number a size of 0 is rejected (main.go:60),
  as `fixed:0` or `uniform:0..9` it is not; with `-validate-data` such a row has no
  room for its size byte, and the index of modes.go:334 is out of range. `AcceptedRuns`
  excepts it (`EmptyRows`).
- "log co-fixed and raw latency hdr histograms into a file" (main.go:487):
  `SaveLatenciesToHdrHistogram` (result.go:198) is never called.
- README.md:278 gives the printed write rate as concurrency / partition-count; it
  is the maximum rate divided by the partitions (main.go:950).
- Counts and rates that do not divide evenly are rounded differently by writer
  and reader (workloads.go:165, 254; main.go:950), so that the reader asks for rows
  that no writer writes; with a concurrency that does not divide the partition
  count both go to partitions beyond it (workloads.go:189, 285). `OlderRowsWritten`
  is stated for even ones.
- A start timestamp in the future, or a clock set back, makes the range of `Int63n`
  empty, which panics (workloads.go:288-296). With `hnormal` the draw may be the
  range itself, one too many, when the normal variate is 0 (workloads.go:272).
- `c1` of a counter row wraps when the clustering key times the updates exceeds
  2^63, as it may in time series, and modes.go:842 then finds corruption.

## Not modelled

Of `main`, the options of the driver and of the histograms are one flag that may be
wrong (`malformed`), and what `PrepareDatabase` sends is left out: the schema keeps
no state of the process. Of the distributions, `Ratio`, the half-normal draw
(floating point), the generator and the parsing of strings are left out, and
`LockedRandom`, a generator under a mutex. The uniform workload draws from the
whole population each time and has nothing to relate. Time series in mixed mode is
modelled only up to its start (`Startup`). The clock wraps package time, the version
reads build information and asks a server for a date, and the test containers are
tools: none keeps state that a property could depend on. The layout of the printed
lines is left out. The flag `CriticalErrorFlag` of the configuration is never used.
Integers are unbounded but for the tokens: a population of 2^63 rows cannot
be visited. A negative `-partition-offset` and `-concurrency 0` are outside the
assumptions; nothing in the code handles them.
