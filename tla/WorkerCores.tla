----------------------------- MODULE WorkerCores -----------------------------
(***************************************************************************)
(* The cores of a worker pool: the list that the constructor of            *)
(* WorkerPoolImpl (src/src/worker_pool_implementation.h) makes, from the   *)
(* file in which Linux lists its isolated cpus if it is an EVL pool, and   *)
(* the core that add_worker picks for each worker.  What add_worker does   *)
(* with the thread is in WorkerPool.tla; here it is one step.              *)
(*                                                                         *)
(* Linux writes a set of cpus as its maximal runs in increasing order,     *)
(* a run of one as "n" and a longer one as "first-last", with commas       *)
(* between them.  The file is the set of these runs; their order is that   *)
(* of their first cpus.                                                    *)
(***************************************************************************)
EXTENDS Integers

CONSTANTS
    NumCpus,    \* the cpus of the machine
    MaxWorkers  \* bound on the calls of add_worker that count on a core

ASSUME CoresAssumption ==
    /\ NumCpus \in Nat \ {0}
    /\ MaxWorkers \in Nat

VARIABLES
    isolated,  \* the isolated cpus of the machine
    evl,       \* is it an EVL pool
    cores,     \* the argument of create_worker_pool
    use,       \* _cores: CpuInfo::workers of each id in the list
    threads,   \* the worker threads that there are on each cpu
    chosen,    \* has the client chosen a core itself
    status,    \* what the last add_worker returned
    runFailed  \* history: has run() of a worker returned an error

vars == <<isolated, evl, cores, use, threads, chosen, status, runFailed>>

Cpus == 0..(NumCpus - 1)

WorkerPoolStatus == {"OK", "POOL_ERROR", "PERMISSION_DENIED", "LIMIT_EXCEEDED",
                     "INVALID_ARGUMENTS"}

-----------------------------------------------------------------------------
\* The file: the runs of isolated cpus.
Run(lo, hi) == [lo |-> lo, hi |-> hi]

CpuFile(cpus) ==
    {r \in {Run(lo, hi) : lo, hi \in cpus} :
        /\ r.lo..r.hi \subseteq cpus
        /\ r.lo - 1 \notin cpus
        /\ r.hi + 1 \notin cpus
        /\ r.lo <= r.hi}

EarliestOf(runs) == CHOOSE r \in runs : \A q \in runs : r.lo <= q.lo

\* The runs that are written with a dash.
Dashed(file) == {r \in file : r.lo < r.hi}

\* Mutants: one core less than asked for; the range is taken to begin at zero;
\* the last of the least used cores is picked.
OneCoreLess(file, n) ==
    {c \in EarliestOf(file).lo..EarliestOf(Dashed(file)).hi :
        c < EarliestOf(file).lo + n - 1}
FromZero(file) == 0..EarliestOf(Dashed(file)).hi
LastLeastUsed == CHOOSE c \in DOMAIN use : \A d \in DOMAIN use :
    use[c] < use[d] \/ (use[c] = use[d] /\ c >= d)

\* read_isolated_cores looks for the first dash.  The number before it is
\* read from the beginning of the file, so it is the first cpu of the file;
\* the number after it ends the first range.
ReadIsolatedCores(file) ==
    EarliestOf(file).lo..EarliestOf(Dashed(file)).hi

\* get_isolated_cpus: the first of these, as many as there are to be.
FirstIsolated(file, n) ==
    {c \in ReadIsolatedCores(file) : c < EarliestOf(file).lo + n}

\* build_core_list(0, cores)
BuildCoreList(n) == 0..(n - 1)

\* get_isolated_cpus(...).value_or(build_core_list(...)) in an EVL pool.
CoreList(file, n) ==
    IF evl /\ Dashed(file) # {} THEN FirstIsolated(file, n) ELSE BuildCoreList(n)

\* std::min_element: the first of the least used cores.
FirstLeastUsed == CHOOSE c \in DOMAIN use : \A d \in DOMAIN use :
    use[c] < use[d] \/ (use[c] = use[d] /\ c <= d)

ErrnoToWorkerStatus(error) ==
    CASE error = "EAGAIN" -> "LIMIT_EXCEEDED"
      [] error = "EPERM" -> "PERMISSION_DENIED"
      [] error = "EINVAL" -> "INVALID_ARGUMENTS"
      [] OTHER -> "POOL_ERROR"

-----------------------------------------------------------------------------
\* "cores: The maximum number of cores to use, must not be higher than the
\* number of cores on the machine."
Init ==
    /\ isolated \in SUBSET Cpus
    /\ evl \in BOOLEAN
    /\ cores \in 1..NumCpus
    /\ use = [c \in CoreList(CpuFile(isolated), cores) |-> 0]
    /\ threads = [c \in Cpus |-> 0]
    /\ chosen = FALSE
    /\ status = "OK"
    /\ runFailed = FALSE

\* A cpu_id that is not in the list.
NoSuchCore(cpu_id) ==
    /\ cpu_id \notin DOMAIN use
    /\ status' = "INVALID_ARGUMENTS"
    /\ chosen' = TRUE
    /\ UNCHANGED <<isolated, evl, cores, use, threads, runFailed>>

WorkerRuns(core) ==
    /\ use[core] < MaxWorkers
    /\ use' = [use EXCEPT ![core] = @ + 1]
    /\ threads' = [threads EXCEPT ![core] = @ + 1]
    /\ status' = "OK"
    /\ UNCHANGED <<isolated, evl, cores, runFailed>>

\* The thread is created but cannot be set up; it is stopped again and its
\* core given back.
SetUpFails(core) ==
    /\ status' = "POOL_ERROR"
    /\ UNCHANGED <<isolated, evl, cores, use, threads, runFailed>>

\* run() returns an error; the core is not given back.
RunFails(core) ==
    /\ use[core] < MaxWorkers
    /\ use' = [use EXCEPT ![core] = @ + 1]
    /\ \E error \in {"EAGAIN", "EPERM", "EINVAL", "other"} :
           status' = ErrnoToWorkerStatus(error)
    /\ runFailed' = TRUE
    /\ UNCHANGED <<isolated, evl, cores, threads>>

AddTo(core) == WorkerRuns(core) \/ SetUpFails(core) \/ RunFails(core)

AddWorkerOn(cpu_id) ==
    /\ cpu_id \in DOMAIN use
    /\ AddTo(cpu_id)
    /\ chosen' = TRUE

AddWorkerAnywhere ==
    /\ AddTo(FirstLeastUsed)
    /\ UNCHANGED chosen

Next ==
    \/ \E cpu_id \in Cpus : NoSuchCore(cpu_id) \/ AddWorkerOn(cpu_id)
    \/ AddWorkerAnywhere

Spec == Init /\ [][Next]_vars

-----------------------------------------------------------------------------
\* The list is never empty, so that there is a core to pick, has at most as
\* many cores as were asked for, and no id that the machine does not have;
\* a core counts at least the threads that it has.
TypeOK ==
    /\ isolated \in SUBSET Cpus
    /\ evl \in BOOLEAN
    /\ cores \in 1..NumCpus
    /\ DOMAIN use \in (SUBSET Cpus) \ {{}}
    /\ use \in [DOMAIN use -> Nat]
    /\ threads \in [Cpus -> Nat]
    /\ \A c \in Cpus : threads[c] > 0 => c \in DOMAIN use /\ threads[c] <= use[c]
    /\ chosen \in BOOLEAN
    /\ status \in WorkerPoolStatus
    /\ runFailed \in BOOLEAN

\* The file begins with a range.
BeginsWithRange(cpus) ==
    \E c \in cpus : c + 1 \in cpus /\ \A d \in cpus : c <= d

\* "If isolated cpus is enabled we need to assign workers only to those cores":
\* so it is when the list of isolated cpus begins with a range, however many
\* others follow.  No worker thread is on a cpu that Linux schedules.
OnlyIsolated ==
    evl /\ BeginsWithRange(isolated) =>
        \A c \in Cpus : threads[c] > 0 => c \in isolated

\* "the first core with least usage is picked" (twine.h): as long as the client
\* leaves the choice to the pool, the cores fill up with worker threads in order,
\* and each has one before any has two, also when the set-up of some workers
\* fails.  Pools in which run() has returned an error are excluded: the use that
\* add_worker does not take back then makes it pass over a core that has no more
\* workers than the others.
CoresFillInOrder ==
    ~chosen /\ ~runFailed =>
        \A c, d \in DOMAIN use : c < d => threads[c] - threads[d] \in {0, 1}
=============================================================================
