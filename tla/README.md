# TLA+ models of twine

twine is a small C++ library for realtime audio hosts. It gives a host a pool
of realtime worker threads that run their callbacks in lockstep, and a
condition variable that a realtime thread can signal. These modules model its
concurrent parts, check them with TLC and prove what they can with TLAPS.

Source paths below are relative to the root of the repository. Line numbers
are in `PROJECT.json`, which maps each definition to the code it stands for.

## The system

| part | state | operations | talks to |
|---|---|---|---|
| `BarrierWithTrigger` (`src/worker_pool_implementation.h`) | two semaphores and which is active, count of halted threads, number of threads, mutex, condition variable | `wait`; `set_no_threads`, `wait_for_all`, `release_all`, `release_and_wait` | called by the workers and by the pool |
| `WorkerThread` (same file) | status, running flag, thread handle | `run`, the thread function, `_stop_thread`, join on destruction | the barrier, the client's callback |
| `WorkerPoolImpl` (same file) | workers, their number, running flag, use of each core | `add_worker`, `wait_for_workers_idle`, `wakeup_workers`, `wakeup_and_wait`, `core_info`, destructor | the barrier and the worker threads; called by one host thread |
| ids of condition variables (`src/condition_variable_implementation.h`, `src/twine.cpp`) | table of ids in use | `get_next_id`, `deregister_id` | the constructors and destructors of the Xenomai and EVL variables |
| `RtConditionVariable`: Std, Posix semaphore, Xenomai, EVL (same file) | flag, semaphore, or kernel queue | `notify`, `wait`, destructor | a realtime and a non-realtime thread |
| named semaphores (`src/thread_helpers_posix.cpp`, Posix condition variable) | names in the system, the sequence of `rand()` in each process | unlink and open, retries with random names | every other process and pool, those that crashed included |
| worker cores (`src/worker_pool_implementation.h`) | list of cores with their use | `read_isolated_cores`, `get_isolated_cpus`, `build_core_list`, the choice in `add_worker` | the pool's constructor and `add_worker` |
| Apple workgroups (`src/apple_threading.cpp`) | join token, workgroup | lookup, join, leave | set-up and end of a worker |
| thread helpers, realtime flags, time, version | thin wrappers, a thread-local counter | forwarded calls | everything |

What is hard here is concurrency. A released worker may finish its callback and
be back at the barrier while the host is still posting for the others. The host
may go to sleep just as the last worker arrives. Threads can fail while they
are being started, and a pool may be destroyed right after that. Ids are taken
by one thread while another gives them back. The names of semaphores are shared
with all processes and outlive them. `PROJECT.json` lists these hazards,
each at its line.

Correctness, part by part:

* barrier: no thread passes twice in a round, none is left behind, and a wait
  returns only when all are halted, and does return;
* pool: it keeps the barrier's preconditions over every sequence of calls,
  failures included; callbacks run exactly in rounds; no thread outlives the
  pool; `core_info` counts the workers of each core, which it does only as long as
  no `run` fails; calls return;
* cores: there is always one to pick, they fill up evenly as long as no `run` fails,
  and EVL workers stay on isolated cpus;
* ids: one owner at a time, and none is lost;
* named semaphores: no object works with one left by a crash, a condition variable
  shares its own with nobody, and no name stays behind without a crash or a throw;
* condition variables: a notify ends the wait, `wait` returns true only for a
  notify, which the Posix class does only without signals, destruction unblocks the waiter and does not overtake it;
* Apple workgroups: the status of a worker tells whether it is set up, and its
  thread is in no workgroup when it exits.

## Modules

```
Barrier  <-- BarrierProofs           theorems
   ^
   |--- MCBarrier
   |
WorkerPool --- Rounds ---> PoolRounds     refinement
   ^  ^
   |  |--- WorkerPoolProofs               theorems, on top of BarrierProofs
   |--- MCWorkerPool

CondVars --- Promise ---> RtCondVar       refinement
   ^
   |--- CondVarsProofs                    theorems

WorkerCores     <-- WorkerCoresProofs     theorems
CondVarIds      <-- CondVarIdsProofs      theorems
   ^
   |--- MCCondVarIds

NamedSemaphores <-- NamedSemaphoresProofs theorems
   ^
   |--- MCNamedSemaphores

AppleThreads    <-- AppleThreadsProofs    theorems
   ^
   |--- MCAppleThreads

LeastNumber     a lemma that the proofs about cores and names share
```

**Barrier.tla** models `BarrierWithTrigger`. `sem`, `active`, `onBarrier` and
`noThreads` are the fields of the class. `at[w]` is where a worker is: not
using the barrier, out of `wait()`, or halted on one of the two semaphores (the
local variable `active_sem`). `ctl[c]` is where a controller is in its call.
Every critical section of the mutex is one step, with one exception: the loop
of `sem_post` in a release can wake threads between posts, so it is one step for
each post, with the mutex held (`MutexFree` is false). The condition variable may
return without a signal (`SpuriousWake`), and a signal wakes any one sleeper.

`ReleaseBody` is what the code does in a release, whatever the state: the
`assert` is not there in a release build. `Release` adds the contract: the
assertion, and that no more threads use the barrier than it was set up for.
Barrier's own specification uses `Release`, so its theorems are about callers
that keep the contract. WorkerPool uses `ReleaseBody`, and *checks* the contract.

**WorkerPool.tla** extends Barrier with the pool and its threads. `pc` is the
host's place in a call of the pool, and `wpc[w]` is a thread's place in
`_internal_worker_function`. `add_worker` is the chain `AddWorker`, then `RunFails`
or `RunSucceeds`, `SettleWorkers`, then `WorkerAdded` or `StopFailedWorker`,
`StopRelease`, `UnregisterFailed`, `JoinFailed`. The destructor is `Destroy`,
`StopPool`, `DestroyRelease`, `DestroyWorker` for each worker, `DestroyBarrier`. A
call of the barrier from the pool is a step that starts it, and the barrier's own
steps until `ctl[Host]` is `"out"` again.

`idleKnown` is not in the code. It is what the client may conclude from the calls
it has made: the workers are idle after a wait or an add that succeeded, and
not after a wakeup. The client wakes the workers only when it knows them idle,
as the tests and the assertion ask. `TrustFailedAdd` says what it makes of an
`add_worker` that failed after the thread had started: nothing changed (TRUE), or
it must wait again (FALSE).

`InitMayFail` covers the status a worker gets on macOS, from the constructor
(workgroup lookup) or from the thread itself (realtime policy, join of the
workgroup). On other systems it stays OK: `InitMayFail = FALSE`. `RunMayFail`
covers a priority out of range and `pthread_create` or the affinity call failing.

`coreUse` counts the workers of each core as `core_info` shows them, and `failedRuns`,
which is not in the code, the calls of `run` that failed on it. After one,
`add_worker` destroys the `WorkerThread`. If `pthread_create` has left something in
`_thread_handle` (POSIX leaves it undefined, and glibc may write it before the thread
turns out not to be created) `~WorkerThread` joins it. What that join does is
undefined; `RunFails` takes it to return at once. After a priority that `run` refuses
the handle is still zero and nothing is joined.

**WorkerCores.tla** takes the cores from the other side: which there are, and which
one `add_worker` picks. The file of isolated cpus is the set of runs that Linux
writes for a set of cpus, with or without a dash, and `ReadIsolatedCores` is what
`read_isolated_cores` makes of it: from the first number of the file to the end of
its first range. `add_worker` is one step here for each of its outcomes, with the
status it returns; only the host's thread looks at the list. The file never has
text that `std::stoi` throws on, so the `catch` has no step. `use` is what the code
counts on a core and `threads` the worker threads that are on it; they part when
`run` fails, which the history variable `runFailed` records.

**PoolRounds.tla** is what a client should have to know of the pool: jobs that
are idle, due or running, and rounds. There are no semaphores or counts in it.
WorkerPool implements it under the mapping `RoundJob` and `RoundWaiting`: a thread
halted on the active semaphore is idle, and one that was released and has not
looked at its flags yet is due.

**CondVarIds.tla** models the table of ids. `get_next_id` takes no mutex, so each
entry it reads is a step and its write another. `open` is the kernel: a port that
is open cannot be opened again. `GivesBackIds` is TRUE for the Xenomai destructor
and FALSE for the EVL one, which never calls `deregister_id`.

**CondVars.tla** models the four `RtConditionVariable` classes. A behaviour is the
life of one object, whose class is chosen at the start (`kind`). `queue` is what
`notify` leaves for `wait`: the flag, the value of the semaphore, the pipe and the
eventfd of Xenomai, the two xbufs of EVL. One thread waits, as twine.h asks, and
any thread notifies. The waits are split where another thread can come between:
poll and each read of Xenomai, the poll of EVL and its end. The EVL destructor
closes the files and then retries while `_is_waiting`; `age` counts the retries
that a waiter has been in `poll()`. Time comes in by two assumptions. Half of the
retries last as long as the timeout of the poll (`PollTicks`), which needs the division
in the code to have no remainder (`SleepIsExact`; 10 retries sleep 200 ms each, and some
thousands would not sleep at all). And a waiter whose poll has timed out
needs up to `WakeupTicks` retries more until it has cleared `_is_waiting`, fewer than
the other half (`TimingAssumption`): a waiter that the scheduler keeps back for longer
uses an object that is gone, and nothing in the code prevents that. `rtWaiter` says which of the two files of EVL is read. A thread
that is in `wait` when a Std or Xenomai object is destroyed is the client's
mistake, and `Destroy` does not allow it. Neither does the model have a destructor
between the call of an EVL `wait` and the store to `_is_waiting`, which are one step
(`Wait`): a destructor that runs there does not see the waiter, and keeping calls
away from an object that is being destroyed is left to the client.

**RtCondVar.tla** is what all of them promise: `wait` returns true only if there is
a notify that no wait has answered. CondVars implements it with `Pending` for the
notifies and `result` for what `wait` returned, with one step excluded by name: a
signal that interrupts the `sem_wait` of the Posix class (`PosixInterrupted`), after
which `wait` returns true with no notify. That step is not one of RtCondVar.

**NamedSemaphores.tla** models the names of the system and who makes them. A maker
is a thread of a process; it constructs and destroys the barrier of a pool, or a
Posix condition variable, over and over. `linked` is the name space of the kernel
and `holds` what each object has opened. Each call of `sem_unlink` and `sem_open` is
a step, since a thread of any process can come between them; so is each call of
`rand()`, whose state the threads of a process share (`rand`). `sem_open` may fail and
the constructor throw, after which no destructor runs. `Crash` ends a process: its
objects go and its names stay. `old`, `tried`, `reseeded` and `leftover` are history
that the properties need; no guard looks at them. A mode of 0 in `sem_open` keeps
other users out, which is one more reason for it to fail. Two values of `rand()`
after different seeds are taken to differ.

**AppleThreads.tla** models what a worker does on macOS with CoreAudio: the lookup
of a device's workgroup in the constructor of `WorkerThread`, call by call and
device by device; the realtime policy and the join at the start of the thread;
the leave at its end. The host adds one worker at a time, and a worker whose
status is not OK is stopped, as in WorkerPool, of which the barrier is left out
here. `run` may fail after the lookup (`RunFails`): the worker has then no thread and
is at once where others are when they have exited. `joined` is the kernel's view of membership. `InitMayFail` of WorkerPool is
what this module does in detail.

Each module has a few operators marked *Mutants*: one-line forms of
plausible bugs. Substituting one for the definition named in `PROJECT.json` makes
TLC report the property named with it, which shows that the property depends on
that piece of code.

## Runs

| run | configuration | result |
|---|---|---|
| `barrier` | 3 workers, 1 controller | holds |
| `pool` | 3 workers, 2 cores, pinned or not, `run` and thread set-up may fail | holds |
| `cores` | 4 cpus, up to 2 workers counted on a core | holds |
| `pool_failed_add` | as `pool`, 2 workers, `TrustFailedAdd` | `AssertionHolds` violated |
| `ids` | 3 ids, 1 creator, 2 destroyers, Xenomai, constructors may throw | holds |
| `ids_race` | 3 ids, 2 creators | `PortIsFree` violated |
| `ids_evl` | 3 ids, 1 thread, EVL | `MaximumIsReached` violated |
| `condvars` | the four classes, up to 3 notifies in a queue, 10 retries | holds |
| `condvars_xenomai` | Xenomai | `TrueIfNotified` violated |
| `apple` | 2 workers, 2 devices, macOS 11 or older | holds |
| `apple_leave` | as `apple` | `LeavesWhatItJoined` violated |
| `names` | 2 processes with 2 and 1 threads, 2 tries, 2 seconds, 2 crashes | holds |

*Barrier.* `TokensMatchThreads` is the reason the barrier works: at any moment the
inactive semaphore and the posts still owed add up to the threads that have yet
to leave it, and the active one is empty. `NoThreadRunsTwice` and
`ReturnMeansHalted` say what callers see of it. `NoLostWakeup` and
`ReleasedThreadsLeave` say that nobody is forgotten. Three threads are enough for
one to be back at the barrier while another is being posted and the third still
runs. The controller makes any call with any number of threads from 0 to 3.

*Pool.* `AssertionHolds` is the code's own assertion, and `KeepsBarrierContract`
says that the pool's steps are steps of Barrier, so all that is shown of Barrier
holds in the pool. `IdleMeansIdle` ties the client's knowledge to the threads.
`RunsInRounds` is the refinement of PoolRounds. `ThreadsAreOwned` is the order of
destruction. `CoreInfoIsExact` is the bookkeeping of cores over all the paths of
`add_worker` but one: it excludes the cores on which a `run` has failed, where the
count is wrong (see below). `EveryWakeupRuns` and `CallsReturn` are
liveness. A thread that failed and was joined may be added again, so the run is
unbounded in the number of calls. `MaxCoreUse` only bounds the use of a core, which
a failing `run` would raise for ever.

*Cores.* `TypeOK` has that the list is never empty, which `std::min_element` needs,
and that it has cpus of the machine only. `OnlyIsolated` is what the comment in the
constructor asks for, where the code achieves it: if the file begins with a range.
`CoresFillInOrder` is what "the first core with least usage" comes to over any
sequence of calls, set-ups that fail among them, as long as the client leaves the
choice to the pool and no `run` fails. Four cpus
give files with none, one and two runs, long and short, in either order.

*Ids.* `IdHasOneOwner` and `NoIdIsLost` are checked with creation and destruction
interleaved at every read of the table, and constructors throwing; the ids that
these leave taken (`leaked`) are the only ones lost. Three ids let the scan pass one that is
taken, one that is being given back and one that is free. `MaximumIsReached` is
checked only where the code breaks it.

*Condition variables.* `KeepsPromise` is the refinement of RtCondVar, but for the step
`PosixInterrupted`. `NothingIsSwallowed` adds that a wait that returns false leaves the
notifies for the next one, and `NotifyEndsWait` that a notify, before or after the
call, ends the wait; the Std class blocks without a look at its flag and is left out of it.
`DestructionUnblocks` and `FreedAfterWaiter` are about the Posix and EVL
destructors: a waiter that polls gets out, and before the object is gone. A
realtime EVL waiter is not covered, for nothing unblocks its `oob_read`. With two
notifies in each queue reads already differ from counts. A full queue (`QueueSize`)
drops the notify, or makes an EVL notifier wait. Retries are those of the code, and
a waiter may be as late as `TimingAssumption` allows (four retries, 800 ms).

*Named semaphores.* `FreshStart` says that a pool never works with a semaphore that
was there when its constructor was called: `sem_unlink` before `sem_open` is enough,
whatever other pools do in between. It leaves open, as the code does, that two pools
whose constructors overlap get the same one. `CondVarOwnsItsName` is the point of
`O_EXCL` and random names, and `GivesUpOnlyWhenCrowded` of seeding once and not in
each retry. `NothingLeftBehind` is about destructors that unlink names which stand
for the semaphores of others by then. Two crashes let a process crash again while it
recovers. With two tries a constructor can fail on what one crash has left. The
clock ticks once, so that names are drawn from two seeds. `MaxSems` never
limits anything: a new semaphore needs a number that no other maker's semaphore of
that name has (`FreshSemIsFree`). The two threads of the first process are interchangeable (`Twins`), and no property of the
run is temporal.

*Apple workgroups.* `StatusIsRight` relates `_status`, written in three places, to
what was achieved: OK if and only if the thread is realtime and a member of a
workgroup with the right name. `LeftBeforeExit` quotes the header.
`AddWorkerReturns` is liveness: every lookup and set-up ends. Two devices let the
search pass one, and two workers let a workgroup be cancelled between them.

### What the violations mean

* `pool_failed_add`: `_stop_thread` of a worker whose set-up failed releases *all*
  threads. The healthy ones run a callback nobody asked for, and `add_worker`
  returns without waiting for them. A host that goes on with `wakeup_workers`
  breaks the assertion, and in a release build two rounds mix. A host that calls
  `wait_for_workers_idle` after a failed add is safe: that is what `pool` shows.
* `ids_race`: two concurrent creations get one id. The mutex that
  `deregister_id` takes is not taken by `get_next_id`.
* `ids_evl`: EVL ids are never given back. The same happens on Xenomai when a
  constructor throws (set `CtorMayFail` to see it).
* `condvars_xenomai`: `len > 1` in the Xenomai wait, and a realtime notify is one
  byte. Only two of them, or one from another thread (8 bytes), return true.
* `apple_leave`: `leave_workgroup_if_needed` asks whether there is a workgroup and
  not whether the thread joined it.

More deviations have no run of their own:

* "the number of workers assigned to them" (twine.h, of `core_info`): the path for a
  failing `run` does not undo `core_info->workers++`, so `core_info()` shows workers that
  do not exist; a priority out of range is enough. `CoreInfoIsExact` without its
  condition on `failedRuns` shows it;
* "the first core with least usage is picked" (twine.h): after a `run` that failed
  `add_worker` passes over the core on which it failed. Four calls on two cores of which
  the first and the third fail put two workers on the second core and none on the
  first. `CoresFillInOrder` without `~runFailed` shows it;
* "true if the condition variable was woken up by a call to notify()" (twine.h): a
  signal handler installed without `SA_RESTART` makes the `sem_wait` of the Posix variable return, whose
  result is ignored, and `wait` returns true for no notify (`PosixInterrupted`, excluded
  from `KeepsPromise`);
* the EVL wait tests `revents` with `|` where `&` is meant, so the timeout of the poll
  ends the wait instead of polling again, as its comment says (`EvlPollEnds`);
  twine.h allows spurious wakeups;
* "assign workers only to those cores" (the comment in the constructor of
  `WorkerPoolImpl`): a file like `23` is read as no isolated cpus, which a test of the
  repository expects, and one like `1,4-5` as the cpus 1 to 5. `OnlyIsolated` without
  `BeginsWithRange` shows both;
* "Randomised suffix on named semaphores to avoid conflicts" (`HISTORY.md`): the
  names of a barrier are fixed, and two pools constructed at the same time, by threads
  of one process or by processes that may open each other's semaphores, can end
  with the same one; asking in NamedSemaphores that no two makers of pools hold one
  semaphore shows it;
* "EVL implementation of RtConditionVariable should now always unblock on
  destruction" (`HISTORY.md`): a realtime thread in `oob_read` is not unblocked;
* the result of `semaphore_wait` in the barrier is ignored too: such a signal lets a
  worker go on as if it were released, which has no step in Barrier;
* notifies that nobody waits for fill the buffer of an EVL variable, and `notify()`
  then blocks its realtime caller;
* the Posix variable never closes its semaphore, and the second test in the EVL
  constructor looks at the first buffer again;
* with two controllers in `wait_for_all`, which the pool never has, one can sleep
  on when all threads are halted: the condition variable is signalled once.

## Fairness

`FairBarrierSpec`: a thread whose semaphore has a token, and a controller in the
middle of a release, go on (weak fairness of steps the operating system schedules).
A controller that wants the mutex gets it in the end (strong fairness of `Check`).
Nothing is assumed of when threads arrive or what controllers call.

`FairSpec` of the pool: each worker thread keeps running while it can, which
includes that callbacks return, and so does the host inside a call. Weak fairness
is enough: a worker can be kept from the mutex only by a release, and there is no
second release before that worker has halted. Client calls, and returns of the
condition variable without a signal, are not fair: the client may stop calling,
and progress must not rest on spurious wakeups.

`FairSpec` of CondVars: a waiter that can go on does, and so does the thread in the
EVL destructor; nobody has to notify, and spurious wakeups of the Std class and
interrupted polls are not fair. `FairSpec` of AppleThreads: lookup, set-up and
exit of a worker go on; devices are not cancelled by fairness.

Deadlock is checked in every run but those of AppleThreads, which has nothing left
to do when all workers have exited. A pool that has been destroyed stutters by
`Terminated`, and so does a condition variable.

## Proofs

`BarrierProofs.tla` proves, for every finite set of workers and any set of
controllers (`BarrierAssumption`):

* `TypeCorrect`: `BarrierSpec => []BarrierTypeOK`;
* `TokensAccounted`: `BarrierSpec => []TokensMatchThreads`;
* `NoThreadRunsTwiceHolds` and `ReturnMeansHaltedHolds`, the two action
  properties;
* `NoLostWakeupHolds`: `BarrierSpec => []NoLostWakeup`, if there is at most one
  controller. With two it is false: one is signalled and the other sleeps on.

The inductive invariant is `BarrierInv`: types, `TokensMatchThreads`, and
`PostsUnderMutex` (posts are owed only while the mutex is held, so that a second
controller cannot start a release in the middle of another one's). The step that
needs thought is `Release`. Its contract says that the halted threads are as many
as the threads that use the barrier. Being a subset of them they are all of them
(`FullBarrier`), so nobody waits on the other semaphore, which by the invariant
has no tokens and can become active. The other steps move one thread or one token
(`ArriveMoves`, `SemWaitMoves`).

`NoThreadRunsTwice` follows because a thread leaves only with a token and the
active semaphore has none. `ReturnMeansHalted` follows from `FullBarrier`.
`NoLostWakeup` is inductive with the types alone when there is one controller.

`WorkerPoolProofs.tla` proves what the run `pool` checks of WorkerPool, except
liveness, for any finite set of workers, any number of cores, and whatever `run()`
and the set-up of a thread return (`PoolAssumption`). For every client:

* `PoolTypeCorrect`: `Spec => []PoolTypeOK`;
* `ThreadsAreOwnedHolds`: `Spec => []ThreadsAreOwned`;
* `CoreInfoIsExactHolds`: `Spec => []CoreInfoIsExact`, for cores without a failed `run`.

For a client that waits for the workers after a failed `add_worker` before it wakes
them (`Prudent`, that is `~TrustFailedAdd`):

* `IdleMeansIdleHolds`: `Prudent /\ Spec => []IdleMeansIdle`;
* `AssertionHoldsHolds`: the assertion of `release_all` never fails;
* `KeepsBarrierContractHolds`: the pool implements `BarrierSpec`, so everything in
  `BarrierProofs` holds of the barrier inside the pool;
* `RunsInRoundsHolds`: the pool implements `PoolRounds`.

`Prudent` cannot be dropped: run `pool_failed_add` is the counterexample for a client
that takes a failed `add_worker` for no change.

There are two inductive invariants. `PoolShape` needs nothing of the client. It says
where the barrier has each thread (`PlacesMatch`), that the pool owns exactly the
threads there are (`OwnsThreads`), what the counts of the pool and of the barrier are
at each point of each call (`CountsMatch`), what barrier call the host can be in
(`CallsMatch`), which worker is being added or removed (`AddingMatches`), who has been
told to stop (`FlagsMatch`), and whose core is counted (`CoresMatch`: the worker that
is being added already before it has a thread, the one that is being removed no longer
once it is unregistered). `PoolInv` adds the invariant of the barrier and
`IdleWhenKnown`: from the return of a wait to the next release every worker is halted
on the active semaphore.

The two halves need each other. A wait returns when the count of the barrier is
complete; that count is of the workers, none of which has exited, so they are all
idle (`WaitEndsIdle`). They stay idle because the active semaphore has no token
(`IdleIsQuiet`). When they are idle the barrier is full and nobody else uses it, so
every release the pool makes is one that the barrier allows (`IdleIsFull`,
`ReleasesAreDue`), and so every step of the pool is a step of the barrier or none of
it (`BarrierStep`). That carries the invariant of the barrier over. The refinement of
`PoolRounds` maps each worker's place to a job (`RoundJob`): the swap of the semaphores
turns every idle job into one that is due (`WakeIsARound`), and a wait returns when all
are idle (`ReturnEndsRound`); taking a token does not show.

`CondVarsProofs.tla` proves, for queues of any size and any number of retries of the
EVL destructor from two on (`CondVarsAssumption`), and under `TimingAssumption`:

* `TypeCorrect`: `Spec => []TypeOK`;
* `FreedAfterWaiterHolds`: `Spec => []FreedAfterWaiter`;
* `KeepsPromiseHolds`: each of the four classes implements `RtCondVar`, but for the
  step `PosixInterrupted`;
* `NothingIsSwallowedHolds`: the action property.

The inductive invariant `CondVarInv` gives each class its own places to wait in and its
own queues (`RightWaiter`, `RightQueues`), says that what `poll()` found in a Xenomai
file is still there when it is read (`RightReads`), and that the retries the EVL
destructor has used are the ticks a waiter has been in `poll()` since the files were
closed (`RightLife`). By the timing assumption the waiter is out of that poll before the
last retry (`PollTicksFacts`), from which `FreedAfterWaiter` follows.

`NamedSemaphoresProofs.tla` proves what the run `names` checks, for any number of
processes, makers, retries and crashes (`NamesAssumption`): `TypeCorrect`,
`FreshStartHolds`, `CondVarOwnsItsNameHolds`, `NothingLeftBehindHolds` and
`GivesUpOnlyWhenCrowdedHolds`. The assumption asks for as many numbers of semaphores
as there are makers, so that the bound `MaxSems` never stands in the way of `sem_open`
(`FreshSemIsFree`). The inductive invariant `NamesInv` says which semaphores a maker
has at each point (`HoldsMatch`), that a pool opens only names it has unlinked
(`PoolsAreFresh`), and that two condition variables have different names
(`NamesAreOwned`). Two parts are about `rand()`. Every name drawn since the last
`srand()` has used up a retry of some thread (`DrawsArePaid`), which bounds what can be
drawn. And as long as nobody calls `srand()` again the names a constructor has tried
are as many as its used retries and all from one sequence, so the next one is new
(`TriesDiffer`).

`WorkerCoresProofs.tla` proves what the run `cores` checks, for a machine with any
number of cpus and any number of workers (`CoresAssumption`):

* `TypeCorrect`: `Spec => []TypeOK`, the list of cores never empty among it;
* `OnlyIsolatedHolds`: `Spec => []OnlyIsolated`;
* `CoresFillInOrderHolds`: `Spec => []CoresFillInOrder`.

What has to be proved is mostly about the list (`ListIsUsable`, `ListIsIsolated`): the
earliest run, the earliest range and the least used core exist (`LeastElement`), and
if the two least isolated cpus are neighbours the earliest run is the earliest
range, so that reading from the first number to the end of the first range reads
one run. The list does not change afterwards (`ListInv`). `CoresFillInOrder` is about
threads, and `add_worker` goes by what it has counted; `CountInv` joins the two: the
counts fill up in order, since the first of the least used cores is the one at which
they step down, and they are the threads as long as no `run` has failed.

`CondVarIdsProofs.tla` proves, for any number of ids, creators and destroyers
(`CondVarIdsAssumption`):

* `TypeCorrect`: `Spec => []TypeOK`, the scan inside the table among it;
* `NoIdIsLostHolds`: `Spec => []NoIdIsLost`, if the destructor gives ids back;
* `IdHasOneOwnerHolds` and `PortIsFreeHolds`, if no two threads create
  (`OneCreator`). Run `ids_race` shows that `PortIsFree` needs this, so the theorem
  says exactly what the mutex that `get_next_id` lacks would be for.

There are two inductive invariants. `PortsInv` needs no assumption on the creators:
the kernel does not open a port twice, so a port is closed by one thread only. `IdsInv`
adds that an id which somebody has is taken, that one which was seen free is still free
when it is marked, and that no two threads are at the same id. Only the step `Mark`
needs `OneCreator`; destroyers that run at the same time free ids but take none.

`AppleThreadsProofs.tla` proves, for any number of workers and devices
(`AppleAssumption`), `TypeCorrect`, `StatusIsRightHolds` and `LeftBeforeExitHolds`. The
inductive invariant `WorkerInv` follows one worker through its life: what the lookup
leaves (`Looked`), what is known before the join (`Joining`), and that the workgroup it
is in is its own (`JoinedItsOwn`). A worker that has failed before the join must not
look right after it; that is so because it is no realtime thread, or has no workgroup,
or has one that was cancelled, and a cancelled workgroup stays cancelled.

Every safety invariant, action property and refinement that a passing run checks is
proved. Liveness is left to TLC: the prover does not reason about fairness and
ENABLED. `ReleasedThreadsLeave`, `EveryWakeupRuns`, `CallsReturn`, `NotifyEndsWait`,
`DestructionUnblocks` and `AddWorkerReturns` are model-checked on the instances above.
`PoolInv`, `CondVarInv` and `NamesInv` were checked by TLC on those instances before they
were proved.

## Not modelled

* A pool of zero cores. `add_worker` then dereferences the end of an empty list;
  the number of cores is at least one.
* Thread attributes (priority, scheduling policy, affinity) beyond success or
  failure, denormals, mode switches and logging.
* `core_info`, which only reads.
* The thread helpers for Cobalt and EVL, which forward to their systems. The names of
  EVL elements have the id of the calling thread in them, and the semaphores of
  Cobalt none.
* On macOS: the periodicity computed for a thread, the conversion of device names,
  and the build without CoreAudio, where `join_workgroup` always returns OK.
* An EVL variable whose second buffer could not be made: to a waiter it is one that no
  realtime thread notifies.
* `ThreadRtFlag`, `init_xenomai`, time, version and error strings: a counter of each
  thread and a flag that is set before anything is made. A property of them would
  restate an assignment.
* The aliases of `windows_threading.h`; there is no worker pool on Windows.

## Plan

1. *(done)* Barrier with proofs, WorkerPool, PoolRounds, CondVarIds.
2. *(done)* CondVars against RtCondVar, and AppleThreads.
3. *(done)* NamedSemaphores, with crashes, and WorkerCores with proofs.
4. *(done)* The invariants of CondVarIds for any number of ids and threads, and of
   AppleThreads for any number of workers and devices.
5. *(done)* An inductive invariant of WorkerPool that ties `wpc` and `pc` to the barrier,
   and from it `AssertionHolds`, `KeepsBarrierContract` and the refinement of
   PoolRounds; the invariants of CondVars and that it implements RtCondVar; the
   invariants of NamedSemaphores for any processes.
6. What could follow: the inductive invariants behind `CallsReturn` and
   `EveryWakeupRuns` (that a step is left for a thread that has to move), stated as
   safety, since the fairness argument itself is out of reach.
