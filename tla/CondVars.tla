------------------------------ MODULE CondVars ------------------------------
(***************************************************************************)
(* The four RtConditionVariable classes of                                 *)
(* src/src/condition_variable_implementation.h.  A behaviour is the life   *)
(* of one object of one kind: threads notify it, one thread waits on it,   *)
(* and it is destroyed, by a thread that may do so while the other waits   *)
(* if the destructor provides for that.                                    *)
(*                                                                         *)
(* queue is what notify() leaves for wait(): the flag of the Std variable, *)
(* the value of the Posix semaphore, and for Xenomai and EVL the two files *)
(* that the kernel keeps, one for notifies from realtime threads and one   *)
(* for the others.                                                         *)
(***************************************************************************)
EXTENDS Integers

CONSTANTS
    Kinds,         \* the classes to look at
    QueueSize,     \* what the kernel keeps in a queue before it is full
    Retries,       \* EVL_SHUTDOWN_RETRIES
    WakeupTicks    \* how late a waiter may leave wait() after its poll() has
                   \* timed out, in sleeps of the EVL destructor

AllKinds == {"std", "posix", "xenomai", "evl"}

ASSUME CondVarsAssumption ==
    /\ Kinds \subseteq AllKinds
    /\ QueueSize \in Nat \ {0}
    /\ Retries \in Nat \ {0, 1}

\* The destructor sleeps for the timeout of the poll (1000 ms) divided by half
\* the number of its retries, in whole milliseconds.  The division has no
\* remainder, so that half the retries last as long as the timeout.
ASSUME SleepIsExact == 1000 % (Retries \div 2) = 0

\* Timing: the scheduler runs a waiter whose poll() has timed out, up to where
\* it clears _is_waiting, before the destructor has slept for its other retries.
ASSUME TimingAssumption ==
    WakeupTicks \in Nat /\ WakeupTicks < Retries - (Retries \div 2)

VARIABLES
    kind,      \* the class of the object
    rtWaiter,  \* is the thread that waits a realtime thread (EVL)
    queue,     \* what notify() has left, see Queues
    waiter,    \* where the waiting thread is
    result,    \* what the last wait() returned
    ready,     \* the files with revents set (Xenomai)
    taken,     \* the entries that this wait() has read from each file
    object,    \* where the object is in its life
    retries,   \* retries of the destructor (EVL)
    age        \* how long the waiter has been in poll(), in retries (EVL)

vars == <<kind, rtWaiter, queue, waiter, result, ready, taken, object,
          retries, age>>

Files == {"fromRt", "fromNonRt"}
Queues == {"flag", "sem"} \cup Files
WaiterPoints == {"out", "blocked", "woken", "poll", "read", "oob_read"}

-----------------------------------------------------------------------------
\* Mutants: a wait that does not look at the flag; the test of the length of
\* the Xenomai class in the EVL one; a poll of the realtime file alone; a
\* destructor that does not notify; one that sleeps too little in each
\* retry, or does not count its retries.
AnyWakeup == TRUE
MoreThanOneByte(len) == len > 1
RealtimeFileOnly == {f \in {"fromRt"} : queue[f] > 0}
NoLastNotify == queue
ShortSleeps == Retries * 2
RetryForEver == TRUE

\* What the waiter of StdConditionVariable returns: the flag.
FlagIsSet == queue["flag"] > 0

\* wait() of the Xenomai class: len > 1, where read() gives one byte for each
\* realtime notify and eight from the eventfd.
XenomaiNotified == taken["fromRt"] + 8 * taken["fromNonRt"] > 1

\* wait() of the EVL class: len > 0
EvlNotified(len) == len > 0

\* The file that a realtime or another thread writes to.
FileOf(rt) == IF rt THEN "fromRt" ELSE "fromNonRt"

\* The poll targets of the Xenomai class that have data.
ReadyFiles == {f \in Files : queue[f] > 0}

\* The destructor of the Posix class calls notify().
LastNotify == [queue EXCEPT !["sem"] = @ + 1]

\* A retry of the EVL destructor sleeps for the timeout of the poll divided by
\* half the number of retries.
PollTicks == Retries \div 2

RetriesLeft == retries > 0

\* The EVL destructor waits for the flag _is_waiting.
IsWaiting == waiter # "out"

-----------------------------------------------------------------------------
Init ==
    /\ kind \in Kinds
    /\ rtWaiter \in (IF kind = "evl" THEN BOOLEAN ELSE {FALSE})
    /\ queue = [q \in Queues |-> 0]
    /\ waiter = "out"
    /\ result = "false"
    /\ ready = {}
    /\ taken = [f \in Files |-> 0]
    /\ object = "alive"
    /\ retries = Retries
    /\ age = 0

\* At a full queue a notify is lost, or waits for room in the EVL class; either
\* leaves things as they are.
Put(q) ==
    /\ queue[q] < QueueSize
    /\ queue' = [queue EXCEPT ![q] = @ + 1]

\* StdConditionVariable::notify: a waiter that is blocked is woken.
NotifyStd ==
    /\ kind = "std"
    /\ object = "alive"
    /\ queue' = [queue EXCEPT !["flag"] = 1]
    /\ waiter' = IF waiter = "blocked" THEN "woken" ELSE waiter
    /\ UNCHANGED <<kind, rtWaiter, result, ready, taken, object, retries, age>>

\* notify() of the other classes.
Notify(rt) ==
    /\ object = "alive"
    /\ \/ kind = "posix" /\ Put("sem")
       \/ kind \in {"xenomai", "evl"} /\ Put(FileOf(rt))
    /\ UNCHANGED <<kind, rtWaiter, waiter, result, ready, taken, object,
                   retries, age>>

\* wait() up to where it blocks.  That it sets _is_waiting is part of the step:
\* to destroy an object that a thread has begun to call and not yet marked is
\* left to the client to avoid, as is a call after the destructor.
Wait ==
    /\ object = "alive"
    /\ waiter = "out"
    /\ waiter' = CASE kind \in {"std", "posix"} -> "blocked"
                   [] rtWaiter -> "oob_read"
                   [] OTHER -> "poll"
    /\ result' = "waiting"
    /\ UNCHANGED <<kind, rtWaiter, queue, ready, taken, object, retries, age>>

Return(notified) ==
    /\ waiter' = "out"
    /\ result' = IF notified THEN "true" ELSE "false"
    /\ taken' = [f \in Files |-> 0]
    /\ UNCHANGED <<kind, rtWaiter, ready, object, retries, age>>

\* std::condition_variable::wait without a predicate may return by itself.
StdSpuriousWake ==
    /\ kind = "std"
    /\ waiter = "blocked"
    /\ waiter' = "woken"
    /\ UNCHANGED <<kind, rtWaiter, queue, result, ready, taken, object,
                   retries, age>>

StdReturn ==
    /\ waiter = "woken"
    /\ queue' = [queue EXCEPT !["flag"] = 0]
    /\ Return(FlagIsSet)

PosixReturn ==
    /\ kind = "posix"
    /\ waiter = "blocked"
    /\ queue["sem"] > 0
    /\ queue' = [queue EXCEPT !["sem"] = @ - 1]
    /\ Return(TRUE)

\* A signal interrupts sem_wait, whose result is not looked at: wait() returns
\* true and has taken no notify.
PosixInterrupted ==
    /\ kind = "posix"
    /\ waiter = "blocked"
    /\ UNCHANGED queue
    /\ Return(TRUE)

\* Xenomai: poll() returns the files that have data at that moment; each is
\* then read, the pipe to the end and the eventfd one count at a time.
XenomaiPoll ==
    /\ kind = "xenomai"
    /\ waiter = "poll"
    /\ ReadyFiles # {}
    /\ ready' = ReadyFiles
    /\ waiter' = "read"
    /\ UNCHANGED <<kind, rtWaiter, queue, result, taken, object, retries, age>>

\* A signal interrupts the poll(), whose result is not looked at.
XenomaiInterrupted ==
    /\ kind = "xenomai"
    /\ waiter = "poll"
    /\ ReadyFiles = {}
    /\ waiter' = "read"
    /\ UNCHANGED <<kind, rtWaiter, queue, result, ready, taken, object,
                   retries, age>>

XenomaiRead(f) ==
    /\ kind = "xenomai"
    /\ waiter = "read"
    /\ f \in ready
    /\ f = "fromNonRt" => "fromRt" \notin ready
    /\ LET n == IF f = "fromRt" THEN queue[f] ELSE 1
       IN  /\ taken' = [taken EXCEPT ![f] = n]
           /\ queue' = [queue EXCEPT ![f] = @ - n]
    /\ ready' = ready \ {f}
    /\ UNCHANGED <<kind, rtWaiter, waiter, result, object, retries, age>>

XenomaiReturn ==
    /\ kind = "xenomai"
    /\ waiter = "read"
    /\ ready = {}
    /\ UNCHANGED queue
    /\ Return(XenomaiNotified)

\* EVL, realtime waiter: the read blocks until there is a byte.
EvlOobRead ==
    /\ waiter = "oob_read"
    /\ queue["fromNonRt"] > 0
    /\ queue' = [queue EXCEPT !["fromNonRt"] = @ - 1]
    /\ Return(EvlNotified(1))

\* EVL, other waiters: poll() and, if it has data, read().
EvlPollData ==
    /\ kind = "evl"
    /\ waiter = "poll"
    /\ object = "alive"
    /\ queue["fromRt"] > 0
    /\ queue' = [queue EXCEPT !["fromRt"] = @ - 1]
    /\ Return(EvlNotified(1))

\* The poll times out or is interrupted, or the file is closed.  The code
\* means to poll again after a timeout, but tests revents | (POLLERR |
\* POLLHUP | POLLNVAL), which is never zero, and leaves the loop.
EvlPollEnds ==
    /\ kind = "evl"
    /\ waiter = "poll"
    /\ object = "closed" \/ queue["fromRt"] = 0
    /\ UNCHANGED queue
    /\ Return(EvlNotified(0))

WaiterStep ==
    \/ StdReturn
    \/ PosixReturn
    \/ XenomaiPoll
    \/ \E f \in Files : XenomaiRead(f)
    \/ XenomaiReturn
    \/ EvlOobRead
    \/ EvlPollData
    \/ EvlPollEnds

-----------------------------------------------------------------------------
\* The Std and Xenomai classes leave it to the client to destroy them only
\* when nobody waits.
Destroy ==
    /\ kind \in {"std", "xenomai"}
    /\ object = "alive"
    /\ ~IsWaiting
    /\ object' = "freed"
    /\ UNCHANGED <<kind, rtWaiter, queue, waiter, result, ready, taken,
                   retries, age>>

\* ~PosixSemaphoreConditionVariable; the semaphore itself is not closed.
DestroyPosix ==
    /\ kind = "posix"
    /\ object = "alive"
    /\ queue' = LastNotify
    /\ object' = "freed"
    /\ UNCHANGED <<kind, rtWaiter, waiter, result, ready, taken, retries, age>>

\* ~EvlConditionVariable closes the files and sleeps until nobody waits, for
\* a limited number of times.
CloseEvl ==
    /\ kind = "evl"
    /\ object = "alive"
    /\ object' = "closed"
    /\ age' = 0
    /\ UNCHANGED <<kind, rtWaiter, queue, waiter, result, ready, taken, retries>>

\* A poll() that was under way ends at the latest with its timeout, and the
\* waiter is out of wait() at most WakeupTicks later.
RetryEvl ==
    /\ object = "closed"
    /\ IsWaiting
    /\ RetriesLeft
    /\ waiter = "poll" => age < PollTicks + WakeupTicks
    /\ retries' = retries - 1
    /\ age' = IF waiter = "poll" THEN age + 1 ELSE age
    /\ UNCHANGED <<kind, rtWaiter, queue, waiter, result, ready, taken, object>>

FreeEvl ==
    /\ object = "closed"
    /\ IsWaiting => ~RetriesLeft
    /\ object' = "freed"
    /\ UNCHANGED <<kind, rtWaiter, queue, waiter, result, ready, taken,
                   retries, age>>

DestroyerStep == RetryEvl \/ FreeEvl

\* The object is gone; a realtime EVL waiter may be blocked for ever.
Terminated ==
    /\ object = "freed"
    /\ UNCHANGED vars

Next ==
    \/ NotifyStd
    \/ \E rt \in BOOLEAN : Notify(rt)
    \/ Wait
    \/ StdSpuriousWake
    \/ PosixInterrupted
    \/ XenomaiInterrupted
    \/ WaiterStep
    \/ Destroy
    \/ DestroyPosix
    \/ CloseEvl
    \/ DestroyerStep
    \/ Terminated

Spec == Init /\ [][Next]_vars

\* Threads that can go on do.  Nobody has to notify, wait or destroy.
FairSpec == Spec /\ WF_vars(WaiterStep) /\ WF_vars(DestroyerStep)

-----------------------------------------------------------------------------
\* The state of the object is well formed: the destructor's count of retries
\* does not go below zero, and no queue holds more than was put into it.
TypeOK ==
    /\ kind \in Kinds
    /\ rtWaiter \in BOOLEAN
    /\ queue \in [Queues -> 0..(QueueSize + 1)]
    /\ waiter \in WaiterPoints
    /\ result \in {"waiting", "true", "false"}
    /\ ready \subseteq Files
    /\ taken \in [Files -> 0..QueueSize]
    /\ object \in {"alive", "closed", "freed"}
    /\ retries \in 0..Retries
    /\ age \in 0..(PollTicks + WakeupTicks)

\* Does the waiter read the file?  An EVL variable carries notifies from
\* realtime threads to others, or the other way round.
Reads(f) ==
    \/ kind = "xenomai"
    \/ kind = "evl" /\ f = (IF rtWaiter THEN "fromNonRt" ELSE "fromRt")

InFile(f) == IF Reads(f) THEN queue[f] + taken[f] ELSE 0

\* The notifies that no wait has answered, those that the present one has
\* read included.
Pending ==
    queue["flag"] + queue["sem"] + InFile("fromRt") + InFile("fromNonRt")

Promise == INSTANCE RtCondVar WITH pending <- Pending, wait <- result

\* Every class does what RtConditionVariable promises, with one step excluded:
\* wait() returns true only for a notify() that no wait has answered, unless a
\* signal has interrupted the sem_wait() of the Posix class, whose wait() then
\* returns true for nothing, against "true if the condition variable was woken up
\* by a call to notify()" (twine.h).
KeepsPromise ==
    Promise!Init /\ [][Promise!Next \/ PosixInterrupted]_(Promise!condVars)

\* A wait that returns false leaves the notifies for the next one, the Xenomai
\* class excepted.
NothingIsSwallowed ==
    [][kind # "xenomai" /\ result = "waiting" /\ result' = "false"
          => Pending' = Pending]_vars

\* A notify ends a wait, be it earlier or later than the call, the Std class
\* excepted, whose wait does not look at the flag before it blocks.
NotifyEndsWait ==
    kind # "std" /\ IsWaiting /\ Pending > 0 ~> ~IsWaiting

\* The destructors that provide for a waiter unblock it.
DestructionUnblocks ==
    object # "alive" /\ IsWaiting /\ ~rtWaiter ~> ~IsWaiting

\* The retries of the EVL destructor are long enough for a waiter in poll() that
\* is late by less than half of them: the object is not freed while wait() still
\* uses it.
FreedAfterWaiter ==
    kind = "evl" /\ ~rtWaiter /\ object = "freed" => ~IsWaiting

\* twine.h: wait() returns true if it was woken up by a call to notify().
TrueIfNotified ==
    [][kind = "xenomai" /\ result = "waiting" /\ result' = "false"
          => taken["fromRt"] + taken["fromNonRt"] = 0]_vars
=============================================================================
