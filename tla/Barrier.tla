------------------------------ MODULE Barrier ------------------------------
(***************************************************************************)
(* BarrierWithTrigger of src/src/worker_pool_implementation.h: a thread    *)
(* barrier that another thread, a controller, opens.  A thread that calls  *)
(* wait() halts on the semaphore that is active at that moment.            *)
(* release_all() makes the other semaphore the active one and posts the    *)
(* previous one once for every thread of the barrier, so that a thread     *)
(* that runs fast and comes back halts on a semaphore nobody is posting.   *)
(* wait_for_all() blocks a controller until all threads have halted.       *)
(*                                                                         *)
(* Every critical section of _calling_mutex is one step, except that of    *)
(* release_all and release_and_wait: each sem_post can wake a thread at    *)
(* once, so the posts are steps of their own and the mutex is held from    *)
(* the first one to the end of the call (MutexFree).                       *)
(*                                                                         *)
(* The barrier relies on its callers: it may be released only when as many *)
(* threads as it was set up for are halted, and no further thread may use  *)
(* it then (ReleaseContract).  WorkerPool.tla checks that the pool is such *)
(* a caller.                                                               *)
(***************************************************************************)
EXTENDS Integers, FiniteSets

CONSTANTS
    Workers,     \* the threads that may call wait()
    Controllers  \* the threads that make the other calls

ASSUME BarrierAssumption == IsFiniteSet(Workers)

VARIABLES
    sem,        \* value of each of the two counting semaphores
    active,     \* _active_sem_idx: the semaphore wait() halts on
    onBarrier,  \* _no_threads_currently_on_barrier
    noThreads,  \* _no_threads
    at,         \* where each worker is, see Places
    ctl,        \* what each controller is doing, see Calls
    posts       \* sem_posts the releasing controller has still to make

barrierVars == <<sem, active, onBarrier, noThreads, at, ctl, posts>>

Sems == {"sem0", "sem1"}

\* A thread is not using the barrier, is between two calls of wait(), or is
\* halted in the sem_wait of wait().
Places == {"absent", "out"} \cup Sems

\* "check": about to take the mutex and compare the count; "cond": asleep on
\* the condition variable; "post", "post_wait": releasing, mutex held, and
\* going to return or to wait when done.
Calls == {"out", "check", "cond", "post", "post_wait"}

-----------------------------------------------------------------------------
Waiting(s) == {w \in Workers : at[w] = s}

Attached == {w \in Workers : at[w] # "absent"}

Sleepers == {c \in Controllers : ctl[c] = "cond"}

Releasing(c) == ctl[c] \in {"post", "post_wait"}

MutexFree == \A c \in Controllers : ~Releasing(c)

\* Mutants: what plausible bugs would make of the definitions that follow.
\* A single semaphore; the posts go to the semaphore that is active after the
\* swap; a count that is one short; a post-increment; a wait that does not
\* wait; a loop that runs once too often.
OneSem(s) == s
PostsToActive == active
OneMissing == onBarrier + 1 >= noThreads
PostIncrement == onBarrier >= noThreads
NoTokenNeeded(w) == TRUE
OnePostTooMany == noThreads + 1

\* _swap_semaphores: 1 - _active_sem_idx
NextSem(s) == IF s = "sem0" THEN "sem1" ELSE "sem0"

\* Release posts prev_sem, which is no longer the active one.
PrevSem == NextSem(active)

\* The test of wait_for_all, early return and loop.
AllHalted == onBarrier >= noThreads

\* ++_no_threads_currently_on_barrier >= _no_threads
LastToArrive == onBarrier + 1 >= noThreads

\* The sem_wait of a thread returns when it can take a token.
TokenFor(w) == sem[at[w]] > 0

\* One sem_post for each thread of the barrier.
PostsOfRelease == noThreads

\* pthread_cond_signal wakes one of the controllers asleep, if there is one;
\* which one is for the scheduler to choose.
SignalOne ==
    IF Sleepers = {}
    THEN UNCHANGED ctl
    ELSE \E c \in Sleepers : ctl' = [ctl EXCEPT ![c] = "check"]

-----------------------------------------------------------------------------
BarrierInit ==
    /\ sem = [s \in Sems |-> 0]
    /\ active = "sem0"
    /\ onBarrier = 0
    /\ noThreads = 0
    /\ at = [w \in Workers |-> "absent"]
    /\ ctl = [c \in Controllers |-> "out"]
    /\ posts = 0

\* A thread that is going to call wait() starts, or ends.
Attach(w) ==
    /\ at[w] = "absent"
    /\ at' = [at EXCEPT ![w] = "out"]
    /\ UNCHANGED <<sem, active, onBarrier, noThreads, ctl, posts>>

Detach(w) ==
    /\ at[w] = "out"
    /\ at' = [at EXCEPT ![w] = "absent"]
    /\ UNCHANGED <<sem, active, onBarrier, noThreads, ctl, posts>>

\* The critical section of wait().
Arrive(w) ==
    /\ at[w] = "out"
    /\ MutexFree
    /\ at' = [at EXCEPT ![w] = active]
    /\ onBarrier' = onBarrier + 1
    /\ IF LastToArrive THEN SignalOne ELSE UNCHANGED ctl
    /\ UNCHANGED <<sem, active, noThreads, posts>>

\* The sem_wait of wait() on the semaphore read in the critical section.
SemWait(w) ==
    /\ at[w] \in Sems
    /\ TokenFor(w)
    /\ sem' = [sem EXCEPT ![at[w]] = @ - 1]
    /\ at' = [at EXCEPT ![w] = "out"]
    /\ UNCHANGED <<active, onBarrier, noThreads, ctl, posts>>

SetNoThreads(c, n) ==
    /\ ctl[c] = "out"
    /\ MutexFree
    /\ noThreads' = n
    /\ UNCHANGED <<sem, active, onBarrier, at, ctl, posts>>

\* wait_for_all(): the call, and the test of the count with the mutex held,
\* made on entry and again after every return of the condition variable.
WaitForAll(c) ==
    /\ ctl[c] = "out"
    /\ ctl' = [ctl EXCEPT ![c] = "check"]
    /\ UNCHANGED <<sem, active, onBarrier, noThreads, at, posts>>

Check(c) ==
    /\ ctl[c] = "check"
    /\ MutexFree
    /\ ctl' = [ctl EXCEPT ![c] = IF AllHalted THEN "out" ELSE "cond"]
    /\ UNCHANGED <<sem, active, onBarrier, noThreads, at, posts>>

\* A condition variable may return without a signal.
SpuriousWake(c) ==
    /\ ctl[c] = "cond"
    /\ ctl' = [ctl EXCEPT ![c] = "check"]
    /\ UNCHANGED <<sem, active, onBarrier, noThreads, at, posts>>

\* The assertion of release_all and release_and_wait, and what the barrier
\* cannot check: that no thread beyond those it was set up for is using it.
ReleaseAssertion == onBarrier = noThreads

ReleaseContract == ReleaseAssertion /\ Cardinality(Attached) <= noThreads

\* release_all and release_and_wait up to the first sem_post, whatever the
\* assertion says: a release build has none.
ReleaseBody(c, call) ==
    /\ ctl[c] = "out"
    /\ MutexFree
    /\ onBarrier' = 0
    /\ active' = NextSem(active)
    /\ posts' = PostsOfRelease
    /\ ctl' = [ctl EXCEPT ![c] = call]
    /\ UNCHANGED <<sem, noThreads, at>>

Release(c, call) ==
    /\ ReleaseContract
    /\ ReleaseBody(c, call)

PostOne(c) ==
    /\ Releasing(c)
    /\ posts > 0
    /\ posts' = posts - 1
    /\ sem' = [sem EXCEPT ![PrevSem] = @ + 1]
    /\ UNCHANGED <<active, onBarrier, noThreads, at, ctl>>

\* After the last post release_all unlocks and returns; release_and_wait goes
\* on, without unlocking in between, to the loop of wait_for_all.
ReleaseDone(c) ==
    /\ Releasing(c)
    /\ posts = 0
    /\ ctl' = [ctl EXCEPT ![c] =
                 IF ctl[c] = "post_wait" /\ ~AllHalted THEN "cond" ELSE "out"]
    /\ UNCHANGED <<sem, active, onBarrier, noThreads, at, posts>>

WorkerStep(w) == Attach(w) \/ Detach(w) \/ Arrive(w) \/ SemWait(w)

ControllerStep(c) ==
    \/ \E n \in 0..Cardinality(Workers) : SetNoThreads(c, n)
    \/ WaitForAll(c)
    \/ Check(c)
    \/ SpuriousWake(c)
    \/ \E call \in {"post", "post_wait"} : Release(c, call)
    \/ PostOne(c)
    \/ ReleaseDone(c)

BarrierNext ==
    \/ \E w \in Workers : WorkerStep(w)
    \/ \E c \in Controllers : ControllerStep(c)

BarrierSpec == BarrierInit /\ [][BarrierNext]_barrierVars

(***************************************************************************)
(* A thread that can take its semaphore and a controller in the middle of  *)
(* a release go on.  Nothing is assumed of when threads come to the        *)
(* barrier or what controllers call.  A controller that wants the mutex    *)
(* gets it in the end even if others take it meanwhile.                    *)
(***************************************************************************)
BarrierFairness ==
    /\ \A w \in Workers : WF_barrierVars(SemWait(w))
    /\ \A c \in Controllers :
          /\ WF_barrierVars(PostOne(c) \/ ReleaseDone(c))
          /\ SF_barrierVars(Check(c))

FairBarrierSpec == BarrierSpec /\ BarrierFairness

-----------------------------------------------------------------------------
\* The state of the barrier is well formed; no semaphore is below zero.
BarrierTypeOK ==
    /\ sem \in [Sems -> Nat]
    /\ active \in Sems
    /\ onBarrier \in Nat
    /\ noThreads \in Nat
    /\ at \in [Workers -> Places]
    /\ ctl \in [Controllers -> Calls]
    /\ posts \in Nat

\* The count that wait() and release_all() keep is the number of threads
\* halted on the active semaphore, whose value is zero; and the previous
\* semaphore, with the posts still to come, has exactly one token for each
\* thread that has not left it yet: none is lost and none is left over for
\* a later round.
TokensMatchThreads ==
    /\ onBarrier = Cardinality(Waiting(active))
    /\ sem[active] = 0
    /\ sem[NextSem(active)] + posts = Cardinality(Waiting(NextSem(active)))

\* A thread gets past wait() only if the semaphore it halted on has been
\* released since: a thread that is fast enough to come back while others
\* are still being released does not take a token meant for one of them.
NoThreadRunsTwice ==
    [][\A w \in Workers :
          at[w] \in Sems /\ at'[w] \notin Sems => at[w] # active]_barrierVars

\* When wait_for_all or release_and_wait returns, every thread is halted on
\* the barrier, provided it was set up for all the threads that use it.
ReturnMeansHalted ==
    [][\A c \in Controllers :
          /\ ctl[c] \in {"check", "post_wait"}
          /\ ctl'[c] = "out"
          /\ Cardinality(Attached) <= noThreads
          => Attached = Waiting(active)]_barrierVars

\* wait() signals the condition variable whenever the count is complete, so a
\* controller does not sleep on it while all threads are halted.  This needs
\* a single controller: only one is signalled, and set_no_threads signals
\* none.
NoLostWakeup == Sleepers # {} => ~AllHalted

\* Every thread halted on a semaphore that was released leaves wait().
ReleasedThreadsLeave ==
    \A w \in Workers :
        at[w] \in Sems /\ at[w] # active ~> at[w] \notin Sems
=============================================================================
