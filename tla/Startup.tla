------------------------------- MODULE Startup -------------------------------
(***************************************************************************)
(* main (main.go:337-972): it checks its flags, connects, creates the        *)
(* tables, sets the configuration of the results and starts the workers,     *)
(* each of which looks up its mode and makes its workload.  From then on the *)
(* process is that of Reporting.                                            *)
(*                                                                         *)
(* The checks of the flags and what needs them are far apart: a check that   *)
(* is missing shows as a panic of a goroutine, after the tables have been    *)
(* created and perhaps truncated.                                           *)
(***************************************************************************)
EXTENDS Reporting, RandomSource

CONSTANTS
    Counts,   \* values of the numeric flags, small numbers with 0
    RowSizes  \* the limits of -clustering-row-size, less than 2^32 as they are parsed

ASSUME StartupAssumption == Counts \subseteq Nat /\ RowSizes \subseteq 0 .. WordCount

Modes == {"write", "counter_update", "read", "counter_read", "scan", "mixed"}
Workloads == {"sequential", "uniform", "timeseries", "scan"}

\* The flags that are needed beyond their checks.  "" is a flag that is not given
\* and "other" a name that does not exist.
Flags == [mode : Modes \cup {"", "other"}, workload : Workloads \cup {"", "other"},
          concurrency : 0 .. MaxConcurrency, maximumRate : Counts, rangeCount : Counts,
          partitionCount : Counts, clusteringRowCount : Counts,
          rowSize : Distributions(RowSizes),
          validateData : BOOLEAN, writeRate : {0, 1}]

\* The flags that are only checked.  tweaks is the number of -in-restriction,
\* -provide-upper-bound and -no-lower-bound; malformed stands for values that are
\* wrong whatever the others are (-select-order-by, -hdr-latency-sig,
\* -latency-type, the options of the driver).
Options == [duration : {0, 1}, iterations : {1, 2}, partitionOffset : {0, 1},
            tweaks : 0 .. 2, startTimestamp : {0, 1}, malformed : BOOLEAN]

VARIABLES
    flags,  \* none once the workers have them
    phase   \* "flags", "connect", "tables", "results", "launch", "run",
            \* or, at the end of the process, "rejected" or "crashed"

mainVars == <<flags, phase>>
allVars == <<vars, mainVars>>

NoFlags == "none"

StartInit ==
    /\ InitResults
    /\ measureLatency = FALSE
    /\ StartWorkers(0)
    /\ flags \in Flags
    /\ phase = "flags"

-----------------------------------------------------------------------------
(* Before the workers *)

\* -mode scan implies its workload and uses no more goroutines than ranges.
Effective(f) ==
    IF f.mode # "scan" THEN f
    ELSE [f EXCEPT !.workload = "scan",
                   !.concurrency = IF @ > f.rangeCount THEN f.rangeCount ELSE @]

\* Mutant of TimeSeriesRejected: writes without -max-rate pass.
TimeSeriesRejectedButRate(f, o) ==
    \/ f.mode = "read" /\ (f.writeRate = 0 \/ o.startTimestamp = 0)
    \/ f.mode = "write" /\ f.concurrency > f.partitionCount

TimeSeriesRejected(f, o) ==
    \/ f.mode = "read" /\ (f.writeRate = 0 \/ o.startTimestamp = 0)
    \/ f.mode = "write" /\ (f.concurrency > f.partitionCount \/ f.maximumRate = 0)

\* given are the flags as given, f those after Effective.
Rejected(given, f, o) ==
    \/ given.mode = ""
    \/ given.mode = "scan" /\ given.workload # ""
    \/ f.workload = ""
    \/ f.workload = "uniform" /\ o.duration = 0
    \/ o.iterations > 1 /\ f.workload \notin {"sequential", "scan"}
    \/ o.partitionOffset # 0 /\ f.workload = "scan"
    \/ o.tweaks > (IF f.mode \in {"read", "counter_read"} THEN 1 ELSE 0)
    \/ f.workload = "timeseries" /\ TimeSeriesRejected(f, o)
    \/ o.malformed

CheckFlags ==
    /\ phase = "flags"
    /\ \E o \in Options :
          IF Rejected(flags, Effective(flags), o)
          THEN phase' = "rejected" /\ UNCHANGED flags
          ELSE phase' = "connect" /\ flags' = Effective(flags)
    /\ UNCHANGED vars

\* CreateSession and PrepareDatabase: any of their requests may fail.
Connect ==
    /\ phase \in {"connect", "tables"}
    /\ phase' \in {"rejected", IF phase = "connect" THEN "tables" ELSE "results"}
    /\ UNCHANGED <<vars, flags>>

\* Printing the configuration divides the rate by the partitions (main.go:950),
\* and NewTestRun by the concurrency.
ConfigurationPanics(f) ==
    \/ f.workload = "timeseries" /\ f.partitionCount = 0
    \/ f.maximumRate # 0 /\ f.concurrency = 0

\* The rate that is left to each worker, and to its time series; 0 is no limit.
WorkerRate(f) == f.maximumRate \div f.concurrency

\* Up to NewTestRun.  The units of the histograms are looked at only here.
Configure ==
    /\ phase = "results"
    /\ \/ /\ phase' = "crashed"
          /\ ConfigurationPanics(flags)
          /\ UNCHANGED vars
       \/ phase' = "rejected" /\ UNCHANGED vars
       \/ /\ ~ConfigurationPanics(flags)
          /\ phase' = "launch"
          /\ measureLatency' \in BOOLEAN
          /\ waitGroup' = flags.concurrency
          /\ at' = [w \in Workers |-> IF w < flags.concurrency THEN "between" ELSE "stopped"]
          /\ UNCHANGED <<result, stack, printing, ending, counted>>
    /\ UNCHANGED flags

-----------------------------------------------------------------------------
(* A goroutine of RunTest, up to its first operation *)

\* A division by zero, or a draw from nothing.
TimeSeriesPanics(f) ==
    \/ f.mode \notin {"read", "write", "mixed"}
    \/ f.mode = "read" /\ 0 \in {f.partitionCount, f.writeRate, f.clusteringRowCount}
    \/ f.mode \in {"write", "mixed"} /\ WorkerRate(f) = 0

\* GetWorkload, and the first key it is asked for.
WorkloadPanics(f) ==
    \/ f.workload \notin Workloads
    \/ f.workload = "sequential" /\ f.clusteringRowCount = 0
    \/ f.workload = "uniform" /\ f.partitionCount = 0
    \/ f.workload = "timeseries" /\ TimeSeriesPanics(f)

\* GetMode, and the first row it writes, of this size, unless there is none to write.
ModePanics(f, size) ==
    \/ f.mode \notin Modes
    \/ /\ f.mode \in {"write", "mixed"} /\ f.validateData /\ size = 0
       /\ ~(f.workload = "sequential" /\ f.partitionCount = 0)

\* The goroutines do the same and share nothing so far; size is the least they draw.
Launch ==
    /\ phase = "launch"
    /\ \E size \in Generated(flags.rowSize) :
          IF flags.concurrency > 0 /\ (WorkloadPanics(flags) \/ ModePanics(flags, size))
          THEN phase' = "crashed" /\ UNCHANGED flags
          ELSE phase' = "run" /\ flags' = NoFlags
    /\ UNCHANGED vars

-----------------------------------------------------------------------------

StartNext == CheckFlags \/ Connect \/ Configure \/ Launch

MainNext ==
    \/ StartNext
    \/ phase = "run" /\ main # "exit" /\ RunNext /\ UNCHANGED mainVars
    \/ (main = "exit" \/ phase \in {"rejected", "crashed"}) /\ UNCHANGED allVars

MainSpec == StartInit /\ [][MainNext]_allVars

-----------------------------------------------------------------------------
(* Properties *)

\* What README.md asks of the flags: an existing mode (lines 149-243) and one of its
\* workloads (245-292), time series in the modes that write or read rows; in mixed
\* mode (241) with -max-rate, "which must be specified in this workload" (278) and
\* which main checks for writes only.
Described(f) ==
    /\ f.mode \in Modes
    /\ f.mode = "scan" \/ f.workload \in {"sequential", "uniform", "timeseries"}
    /\ f.workload = "timeseries" =>
           f.mode \in {"read", "write"} \/ (f.mode = "mixed" /\ f.maximumRate > 0)

\* What README.md takes for granted and main does not check.
NothingToDo(f) == 0 \in {f.concurrency, f.partitionCount, f.clusteringRowCount}

\* Time series writes with less than one operation per second for each goroutine: the
\* period is divided by that rate (workloads.go:165), but main accepts them.
SlowTimeSeries(f) ==
    /\ f.workload = "timeseries" /\ f.mode \in {"write", "mixed"}
    /\ f.maximumRate > 0 /\ f.maximumRate < f.concurrency

\* Rows of no bytes that are to be validated have no place for their size
\* (modes.go:334), but fixed:0 and uniform:0..n are accepted.
EmptyRows(f) == f.mode \in {"write", "mixed"} /\ f.validateData /\ f.rowSize.min = 0

\* Flags as described that main lets pass do not make a goroutine panic when it
\* looks up its mode, makes its workload and asks it for a row (main.go:637-718
\* against main.go:177-292 and the generators of workloads.go), but for these three
\* kinds of them.
AcceptedRuns ==
    phase = "crashed" =>
        \/ ~Described(flags) \/ NothingToDo(flags)
        \/ SlowTimeSeries(flags) \/ EmptyRows(flags)

\* A rate that is asked for limits the workers (testrun.go:41-47).
RateLimitApplies == phase = "launch" /\ flags.maximumRate > 0 => WorkerRate(flags) > 0

\* Whatever -clustering-row-size main has let pass, the workers draw all sizes of its
\* interval but the last evenly (README.md:352; random.go:333-338, 418-430).
SizesEvenlyDrawn == phase = "launch" => EvenlyDrawn(flags.rowSize)
=============================================================================
