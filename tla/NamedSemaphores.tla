--------------------------- MODULE NamedSemaphores ---------------------------
(***************************************************************************)
(* The named semaphores of the system and the objects of twine that make   *)
(* them: the two semaphores of a barrier, made for each worker pool by     *)
(* PosixThreadHelper::semaphore_create (src/src/thread_helpers_posix.cpp)  *)
(* under names that are the same for all pools, and the semaphore of a     *)
(* PosixSemaphoreConditionVariable, whose name is random                   *)
(* (src/src/condition_variable_implementation.h).                          *)
(*                                                                         *)
(* A name outlives the process that made it.  Each maker is a thread of a  *)
(* process that constructs and destroys one object at a time; a process    *)
(* may crash, and starts again with none of its objects but with all the   *)
(* names it had made.  Pools and condition variables share no name, so a   *)
(* behaviour has makers of one kind.                                       *)
(***************************************************************************)
EXTENDS Integers, FiniteSets

CONSTANTS
    Procs,       \* processes
    Makers,      \* threads that make objects
    ProcOf,      \* the process of each maker
    MaxRetries,  \* MAX_RETRIES
    MaxSecond,   \* bound on the clock
    MaxCrashes,  \* bound on the crashes
    MaxSems      \* bound on the semaphores made under one name that are there
                 \* at a time: one for each maker is enough

ASSUME NamesAssumption ==
    /\ IsFiniteSet(Makers)
    /\ ProcOf \in [Makers -> Procs]
    /\ MaxRetries \in Nat \ {0, 1}
    /\ {MaxSecond, MaxCrashes} \subseteq Nat
    /\ MaxSems \in Nat
    /\ MaxSems >= Cardinality(Makers)

VARIABLES
    kind,      \* what the makers make
    linked,    \* the semaphore that each name refers to, see Sems
    holds,     \* the semaphores that each maker has opened
    point,     \* where each maker is in its constructor or destructor
    slot,      \* the semaphore of the barrier it is at
    cvName,    \* the name a condition variable has, or tries next
    retries,   \* the retries that the constructor has left
    rand,      \* the state of rand() in each process
    clock,     \* time() in seconds
    crashes,   \* number of crashes so far
    old,       \* the names that refer to a semaphore which was there when the
               \* constructor of a pool was called
    tried,     \* the names that the constructor has tried
    reseeded,  \* another thread has called srand() since it did
    leftover   \* the names left by a crash or by a constructor that threw

makerVars == <<holds, point, slot, cvName, retries, old, tried, reseeded>>
vars == <<kind, linked, makerVars, rand, clock, crashes, leftover>>

Slots == {0, 1}

\* A semaphore is known by the name it was made under and a number; the number
\* is used again when the semaphore is gone.
Sems == 1..MaxSems
None == 0
PoolName(i) == <<"twine-barrier-sem", i>>
PoolNames == {PoolName(i) : i \in Slots}

\* The k-th value of rand() after srand(second), taken to be different for
\* different seeds.  As many are drawn as there are makers that can still try.
CvName(second, k) == <<"twine-cond", second, k>>
MaxSuffix == (MaxRetries - 1) * Cardinality(Makers)
CvNames == {CvName(s, k) : s \in 0..MaxSecond, k \in 1..MaxSuffix}
Names == PoolNames \cup CvNames

Points == {"out", "unlink", "open", "draw", "open_cv", "alive", "destroy",
           "gave_up"}

-----------------------------------------------------------------------------
\* Mutants: the name is not unlinked before it is opened, or not after; the
\* semaphore is opened without O_EXCL; each retry seeds rand() again; the
\* retries are not counted.
NotCleared(n) == linked
NotRemoved(n) == linked
NotExclusive(n) == FALSE
SeededAnew(p) == [rand EXCEPT ![p] = [second |-> clock, drawn |-> 1]]
TryForEver(m) == TRUE

\* sem_unlink of semaphore_create.
ClearName(n) == [linked EXCEPT ![n] = None]

\* sem_unlink of semaphore_destroy and of the destructor of the condition
\* variable.
RemoveName(n) == [linked EXCEPT ![n] = None]

\* sem_open with O_CREAT | O_EXCL fails with EEXIST.
Exists(n) == linked[n] # None

\* The next value of rand() in process p.
Draw(p) == [rand EXCEPT ![p].drawn = @ + 1]

\* while (--retries > 0)
TriesLeft(m) == retries[m] > 1

\* The name that stands for the i-th semaphore of a maker.
NameOf(m, i) == IF kind = "pool" THEN PoolName(i) ELSE cvName[m]

\* The semaphores made under a name that an object still holds.
HeldAs(n) ==
    {holds[mi[1]][mi[2]] : mi \in {mi \in Makers \X Slots : NameOf(mi[1], mi[2]) = n}}

\* A semaphore that is not there yet.
FreshSem(n) == CHOOSE s \in Sems \ HeldAs(n) : \A t \in Sems \ HeldAs(n) : s <= t

\* sem_open with O_CREAT: the semaphore of that name, made if there is none.
OpenSem(n) == IF linked[n] = None THEN FreshSem(n) ELSE linked[n]

NoSems == [i \in Slots |-> None]
NoName == CvName(0, 1)

Siblings(m) == {n \in Makers \ {m} : ProcOf[n] = ProcOf[m]}

-----------------------------------------------------------------------------
Init ==
    /\ kind \in {"pool", "condvar"}
    /\ linked = [n \in Names |-> None]
    /\ holds = [m \in Makers |-> NoSems]
    /\ point = [m \in Makers |-> "out"]
    /\ slot = [m \in Makers |-> 0]
    /\ cvName = [m \in Makers |-> NoName]
    /\ retries = [m \in Makers |-> 0]
    /\ rand = [p \in Procs |-> [second |-> 0, drawn |-> 0]]
    /\ clock = 0
    /\ crashes = 0
    /\ old = [m \in Makers |-> {}]
    /\ tried = [m \in Makers |-> {}]
    /\ reseeded = [m \in Makers |-> FALSE]
    /\ leftover = {}

MakerGoes(m, from, to) ==
    /\ point[m] = from
    /\ point' = [point EXCEPT ![m] = to]

\* A name that is unlinked refers to nothing from before any more.
ForgetUnlinked ==
    /\ leftover' = {n \in leftover : linked'[n] # None}
    /\ old' = [m \in Makers |-> {n \in old[m] : linked'[n] # None}]

-----------------------------------------------------------------------------
\* BarrierWithTrigger of a new pool.
ConstructPool(m) ==
    /\ kind = "pool"
    /\ MakerGoes(m, "out", "unlink")
    /\ old' = [old EXCEPT ![m] = {n \in PoolNames : linked[n] # None}]
    /\ slot' = [slot EXCEPT ![m] = 0]
    /\ UNCHANGED <<kind, linked, holds, cvName, retries, tried, reseeded, rand,
                   clock, crashes, leftover>>

\* semaphore_create up to sem_open.
Unlink(m) ==
    /\ MakerGoes(m, "unlink", "open")
    /\ linked' = ClearName(PoolName(slot[m]))
    /\ ForgetUnlinked
    /\ UNCHANGED <<kind, holds, slot, cvName, retries, tried, reseeded, rand,
                   clock, crashes>>

Open(m) ==
    LET n == PoolName(slot[m])
        s == OpenSem(n)
    IN  /\ MakerGoes(m, "open", IF slot[m] = 0 THEN "unlink" ELSE "alive")
        /\ linked' = [linked EXCEPT ![n] = s]
        /\ holds' = [holds EXCEPT ![m][slot[m]] = s]
        /\ slot' = [slot EXCEPT ![m] = 1 - @]
        /\ UNCHANGED <<kind, cvName, retries, old, tried, reseeded, rand, clock,
                       crashes, leftover>>

\* sem_open fails and the constructor throws.  The destructor does not run:
\* a semaphore made before this one stays, and so does its name.
OpenFails(m) ==
    /\ MakerGoes(m, "open", "out")
    /\ holds' = [holds EXCEPT ![m] = NoSems]
    /\ old' = [old EXCEPT ![m] = {}]
    /\ slot' = [slot EXCEPT ![m] = 0]
    /\ leftover' = leftover \cup {PoolName(i) : i \in 0..(slot[m] - 1)}
    /\ UNCHANGED <<kind, linked, cvName, retries, tried, reseeded, rand, clock,
                   crashes>>

DestroyPool(m) ==
    /\ kind = "pool"
    /\ MakerGoes(m, "alive", "destroy")
    /\ UNCHANGED <<kind, linked, holds, slot, cvName, retries, old, tried,
                   reseeded, rand, clock, crashes, leftover>>

\* semaphore_destroy of one of the semaphores.
DestroySemaphore(m) ==
    /\ MakerGoes(m, "destroy", IF slot[m] = 0 THEN "destroy" ELSE "out")
    /\ linked' = RemoveName(PoolName(slot[m]))
    /\ ForgetUnlinked
    /\ holds' = [holds EXCEPT ![m][slot[m]] = None]
    /\ slot' = [slot EXCEPT ![m] = 1 - @]
    /\ UNCHANGED <<kind, cvName, retries, tried, reseeded, rand, clock, crashes>>

-----------------------------------------------------------------------------
\* PosixSemaphoreConditionVariable: rand() belongs to the whole process.
ConstructCondVar(m) ==
    /\ kind = "condvar"
    /\ \E from \in {"out", "gave_up"} : MakerGoes(m, from, "draw")
    /\ retries' = [retries EXCEPT ![m] = MaxRetries]
    /\ rand' = [rand EXCEPT ![ProcOf[m]] = [second |-> clock, drawn |-> 0]]
    /\ tried' = [tried EXCEPT ![m] = {}]
    /\ reseeded' = [n \in Makers |->
                        IF n = m THEN FALSE
                        ELSE reseeded[n] \/ (n \in Siblings(m)
                                              /\ point[n] \in {"draw", "open_cv"})]
    /\ UNCHANGED <<kind, linked, holds, slot, cvName, old, clock, crashes,
                   leftover>>

DrawName(m) ==
    LET p == ProcOf[m]
    IN  /\ MakerGoes(m, "draw", "open_cv")
        /\ TriesLeft(m)
        /\ retries' = [retries EXCEPT ![m] = @ - 1]
        /\ rand' = Draw(p)
        /\ cvName' = [cvName EXCEPT ![m] = CvName(rand'[p].second, rand'[p].drawn)]
        /\ tried' = [tried EXCEPT ![m] = @ \cup {cvName'[m]}]
        /\ UNCHANGED <<kind, linked, holds, slot, old, reseeded, clock, crashes,
                       leftover>>

NameExists(m) ==
    /\ Exists(cvName[m])
    /\ MakerGoes(m, "open_cv", "draw")
    /\ UNCHANGED <<kind, linked, holds, slot, cvName, retries, old, tried,
                   reseeded, rand, clock, crashes, leftover>>

\* What a constructor that ends, one way or the other, no longer needs.
ConstructorEnds(m) ==
    /\ retries' = [retries EXCEPT ![m] = 0]
    /\ tried' = [tried EXCEPT ![m] = {}]
    /\ reseeded' = [reseeded EXCEPT ![m] = FALSE]

OpenCondVar(m) ==
    LET s == OpenSem(cvName[m])
    IN  /\ ~Exists(cvName[m])
        /\ MakerGoes(m, "open_cv", "alive")
        /\ linked' = [linked EXCEPT ![cvName[m]] = s]
        /\ holds' = [holds EXCEPT ![m][0] = s]
        /\ ConstructorEnds(m)
        /\ UNCHANGED <<kind, slot, cvName, old, rand, clock, crashes, leftover>>

\* Another error of sem_open.
OpenCondVarFails(m) ==
    /\ MakerGoes(m, "open_cv", "out")
    /\ cvName' = [cvName EXCEPT ![m] = NoName]
    /\ ConstructorEnds(m)
    /\ UNCHANGED <<kind, linked, holds, slot, old, rand, clock, crashes, leftover>>

\* "Failed to initialize RtConditionVariable, no more retries."
NoMoreRetries(m) ==
    /\ MakerGoes(m, "draw", "gave_up")
    /\ ~TriesLeft(m)
    /\ cvName' = [cvName EXCEPT ![m] = NoName]
    /\ retries' = [retries EXCEPT ![m] = 0]
    /\ UNCHANGED <<kind, linked, holds, slot, old, tried, reseeded, rand, clock,
                   crashes, leftover>>

\* The semaphore loses its name; it is not closed.
DestroyCondVar(m) ==
    /\ kind = "condvar"
    /\ MakerGoes(m, "alive", "out")
    /\ linked' = RemoveName(cvName[m])
    /\ holds' = [holds EXCEPT ![m] = NoSems]
    /\ cvName' = [cvName EXCEPT ![m] = NoName]
    /\ UNCHANGED <<kind, slot, retries, old, tried, reseeded, rand, clock,
                   crashes, leftover>>

-----------------------------------------------------------------------------
Tick ==
    /\ kind = "condvar"
    /\ clock < MaxSecond
    /\ clock' = clock + 1
    /\ UNCHANGED <<kind, linked, makerVars, rand, crashes, leftover>>

\* A process ends without running a destructor, and starts again.
Crash(p) ==
    LET dead == {m \in Makers : ProcOf[m] = p}
        Reset(f, value) == [m \in Makers |-> IF m \in dead THEN value ELSE f[m]]
    IN  /\ crashes < MaxCrashes
        /\ \E m \in dead : point[m] # "out"
        /\ crashes' = crashes + 1
        /\ point' = Reset(point, "out")
        /\ holds' = Reset(holds, NoSems)
        /\ slot' = Reset(slot, 0)
        /\ cvName' = Reset(cvName, NoName)
        /\ retries' = Reset(retries, 0)
        /\ old' = Reset(old, {})
        /\ tried' = Reset(tried, {})
        /\ reseeded' = Reset(reseeded, FALSE)
        /\ rand' = [rand EXCEPT ![p] = [second |-> 0, drawn |-> 0]]
        /\ leftover' = leftover \cup
               {NameOf(mi[1], mi[2]) :
                    mi \in {mi \in dead \X Slots : holds[mi[1]][mi[2]] # None}}
        /\ UNCHANGED <<kind, linked, clock>>

MakerStep(m) ==
    \/ ConstructPool(m)
    \/ Unlink(m)
    \/ Open(m)
    \/ OpenFails(m)
    \/ DestroyPool(m)
    \/ DestroySemaphore(m)
    \/ ConstructCondVar(m)
    \/ DrawName(m)
    \/ NameExists(m)
    \/ OpenCondVar(m)
    \/ OpenCondVarFails(m)
    \/ NoMoreRetries(m)
    \/ DestroyCondVar(m)

Next ==
    \/ \E m \in Makers : MakerStep(m)
    \/ Tick
    \/ \E p \in Procs : Crash(p)

Spec == Init /\ [][Next]_vars

-----------------------------------------------------------------------------
\* The state is well formed; in particular no constructor draws more names than
\* it has retries.
TypeOK ==
    /\ kind \in {"pool", "condvar"}
    /\ linked \in [Names -> Sems \cup {None}]
    /\ holds \in [Makers -> [Slots -> Sems \cup {None}]]
    /\ point \in [Makers -> Points]
    /\ slot \in [Makers -> Slots]
    /\ cvName \in [Makers -> CvNames]
    /\ retries \in [Makers -> 0..MaxRetries]
    /\ rand \in [Procs -> [second : 0..MaxSecond, drawn : 0..MaxSuffix]]
    /\ clock \in 0..MaxSecond
    /\ crashes \in 0..MaxCrashes
    /\ old \in [Makers -> SUBSET PoolNames]
    /\ tried \in [Makers -> SUBSET CvNames]
    /\ reseeded \in [Makers -> BOOLEAN]
    /\ leftover \subseteq Names

\* No object works with a semaphore that was there before its constructor was
\* called: whatever a crash or a constructor that threw has left under the same
\* name, and whatever value it has, a pool starts with new semaphores.  It
\* follows that two pools share one only if their constructors overlap.
FreshStart ==
    kind = "pool" =>
        \A m \in Makers, i \in Slots :
            holds[m][i] # None /\ PoolName(i) \in old[m] =>
                holds[m][i] # linked[PoolName(i)]

\* While a condition variable exists its name refers to its semaphore, and to
\* that of no other: no other constructor takes it over and no destructor
\* unlinks it.
CondVarOwnsItsName ==
    kind = "condvar" =>
        \A m \in Makers : point[m] = "alive" =>
            /\ linked[cvName[m]] = holds[m][0]
            /\ \A n \in Makers \ {m} :
                   cvName[n] = cvName[m] => holds[n][0] # holds[m][0]

\* A name stays in the system only for an object that is there and will unlink
\* it, or because a process crashed or a constructor threw.
NothingLeftBehind ==
    \A n \in Names : linked[n] # None =>
        \/ n \in leftover
        \/ \E m \in Makers, i \in Slots : NameOf(m, i) = n /\ holds[m][i] # None

\* The constructor of a condition variable gives up only when it has found as
\* many different names taken as it has tries, unless another thread of the
\* process made rand() begin again.
GivesUpOnlyWhenCrowded ==
    \A m \in Makers : point[m] = "gave_up" /\ ~reseeded[m] =>
        Cardinality(tried[m]) = MaxRetries - 1
=============================================================================
