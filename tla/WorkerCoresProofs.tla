-------------------------- MODULE WorkerCoresProofs --------------------------
(***************************************************************************)
(* What the runs show of WorkerCores on a machine with four cpus, proved   *)
(* for a machine of any size and any number of workers.                    *)
(***************************************************************************)
EXTENDS WorkerCores, LeastNumber, TLAPS

\* The runs of a file are ordered by their first cpus, so one is the earliest.
LEMMA EarliestRun ==
    ASSUME NEW cpus \in SUBSET Cpus,
           NEW runs \in SUBSET CpuFile(cpus), runs # {}
    PROVE  /\ EarliestOf(runs) \in runs
           /\ \A q \in runs : EarliestOf(runs).lo <= q.lo
<1> DEFINE S == {r.lo : r \in runs}
<1>1. S \in SUBSET Nat /\ S # {}
  BY CoresAssumption DEF CpuFile, Run, Cpus
<1>2. PICK x \in S : \A y \in S : x <= y
  BY <1>1, LeastElement
<1>3. PICK r \in runs : r.lo = x
  BY <1>2
<1>4. \A q \in runs : r.lo <= q.lo
  BY <1>2, <1>3
<1> QED
  BY <1>4 DEF EarliestOf

\* The run that contains a cpu which is isolated while the one below is not.
LEMMA RunFrom ==
    ASSUME NEW cpus \in SUBSET Cpus,
           NEW c \in cpus, c - 1 \notin cpus
    PROVE  \E r \in CpuFile(cpus) : r.lo = c
<1> DEFINE S == {h \in Nat : h >= c /\ h + 1 \notin cpus}
<1>1. c \in Nat /\ c < NumCpus /\ NumCpus \in Nat
  BY CoresAssumption DEF Cpus
<1>2. NumCpus \in S
  BY <1>1 DEF Cpus
<1>3. PICK h \in S : \A y \in S : h <= y
  BY <1>2, LeastElement
<1>4. ASSUME NEW k \in c..h
      PROVE  k \in cpus
  <2>1. CASE k = c
    BY <2>1
  <2>2. CASE k # c
    <3>1. k - 1 \in Nat /\ k - 1 >= c /\ k - 1 < h
      BY <1>1, <2>2
    <3>2. k - 1 \notin S
      BY <1>3, <3>1
    <3>3. (k - 1) + 1 = k
      BY <1>1
    <3> QED
      BY <3>1, <3>2, <3>3
  <2> QED
    BY <2>1, <2>2
<1>5. h \in cpus /\ c <= h
  BY <1>1, <1>4
<1> DEFINE r == Run(c, h)
<1>6. /\ r.lo = c
      /\ r.hi = h
  BY DEF Run
<1>7. r \in {Run(lo, hi) : lo, hi \in cpus}
  BY <1>5
<1>8. /\ r.lo..r.hi \subseteq cpus
      /\ r.lo - 1 \notin cpus
      /\ r.hi + 1 \notin cpus
      /\ r.lo <= r.hi
  <2> HIDE DEF r
  <2> QED
    BY <1>3, <1>4, <1>5, <1>6
<1> QED
  BY <1>6, <1>7, <1>8 DEF CpuFile

\* What the numbers of the file are.
LEMMA RunFacts ==
    ASSUME NEW cpus \in SUBSET Cpus, NEW r \in CpuFile(cpus)
    PROVE  /\ r.lo \in cpus /\ r.hi \in cpus
           /\ r.lo \in Nat /\ r.hi \in Nat /\ r.lo <= r.hi /\ r.hi < NumCpus
           /\ r.lo..r.hi \subseteq cpus
           /\ r.lo - 1 \notin cpus
           /\ r.hi + 1 \notin cpus
  BY CoresAssumption DEF CpuFile, Run, Cpus

\* The first range of the file is read to its end, and from the first cpu of
\* the file, which is not after it.
LEMMA ReadFacts ==
    ASSUME NEW cpus \in SUBSET Cpus, Dashed(CpuFile(cpus)) # {}
    PROVE  LET file == CpuFile(cpus)
               first == EarliestOf(file).lo
               last == EarliestOf(Dashed(file)).hi
           IN  /\ first \in Nat /\ last \in Nat
               /\ first < last /\ last < NumCpus
               /\ EarliestOf(file) \in file
               /\ \A q \in file : first <= q.lo
               /\ EarliestOf(Dashed(file)) \in Dashed(file)
               /\ \A q \in Dashed(file) : EarliestOf(Dashed(file)).lo <= q.lo
<1> DEFINE file == CpuFile(cpus)
<1>1. Dashed(file) \in SUBSET file /\ file \in SUBSET file /\ file # {}
  BY DEF Dashed
<1>2. /\ EarliestOf(file) \in file
      /\ \A q \in file : EarliestOf(file).lo <= q.lo
      /\ EarliestOf(Dashed(file)) \in Dashed(file)
      /\ \A q \in Dashed(file) : EarliestOf(Dashed(file)).lo <= q.lo
  BY <1>1, EarliestRun
<1>3. EarliestOf(Dashed(file)).lo < EarliestOf(Dashed(file)).hi
  BY <1>2 DEF Dashed
<1>4. /\ EarliestOf(file).lo \in Nat
      /\ EarliestOf(Dashed(file)).lo \in Nat
      /\ EarliestOf(Dashed(file)).hi \in Nat
      /\ EarliestOf(Dashed(file)).hi < NumCpus
  BY <1>1, <1>2, RunFacts
<1>5. EarliestOf(file).lo <= EarliestOf(Dashed(file)).lo
  BY <1>1, <1>2
<1> QED
  BY <1>2, <1>3, <1>4, <1>5, CoresAssumption

\* The list is not empty and has cpus of the machine only.
LEMMA ListIsUsable ==
    ASSUME NEW cpus \in SUBSET Cpus, NEW n \in 1..NumCpus
    PROVE  CoreList(CpuFile(cpus), n) \in (SUBSET Cpus) \ {{}}
<1> DEFINE file == CpuFile(cpus)
<1>1. CASE evl /\ Dashed(file) # {}
  <2>1. CoreList(file, n) = FirstIsolated(file, n)
    BY <1>1 DEF CoreList
  <2>2. FirstIsolated(file, n) \subseteq Cpus
    BY <1>1, ReadFacts, CoresAssumption DEF FirstIsolated, ReadIsolatedCores, Cpus
  <2>3. EarliestOf(file).lo \in FirstIsolated(file, n)
    BY <1>1, ReadFacts DEF FirstIsolated, ReadIsolatedCores
  <2> QED
    BY <2>1, <2>2, <2>3
<1>2. CASE ~(evl /\ Dashed(file) # {})
  <2>1. CoreList(file, n) = 0..(n - 1)
    BY <1>2 DEF CoreList, BuildCoreList
  <2>2. 0 \in 0..(n - 1) /\ 0..(n - 1) \subseteq Cpus
    BY CoresAssumption DEF Cpus
  <2> QED
    BY <2>1, <2>2
<1> QED
  BY <1>1, <1>2

\* If the file begins with a range that range is all that is read.
LEMMA ListIsIsolated ==
    ASSUME NEW cpus \in SUBSET Cpus, NEW n \in 1..NumCpus,
           evl, BeginsWithRange(cpus)
    PROVE  CoreList(CpuFile(cpus), n) \subseteq cpus
<1> DEFINE file == CpuFile(cpus)
<1>1. PICK c \in cpus : c + 1 \in cpus /\ \A d \in cpus : c <= d
  BY DEF BeginsWithRange
<1>2. c \in Nat /\ c - 1 \notin cpus
  BY <1>1 DEF Cpus
<1>3. PICK r \in file : r.lo = c
  BY <1>2, RunFrom
<1>4. r \in Dashed(file)
  BY <1>1, <1>2, <1>3, RunFacts DEF Dashed
<1>5. EarliestOf(file).lo = c
  BY <1>1, <1>2, <1>3, <1>4, ReadFacts, RunFacts
<1>6. EarliestOf(Dashed(file)).lo = c
  <2>1. EarliestOf(Dashed(file)) \in file
    BY <1>4, ReadFacts DEF Dashed
  <2>2. EarliestOf(Dashed(file)).lo <= c
    BY <1>3, <1>4, ReadFacts
  <2>3. EarliestOf(Dashed(file)).lo >= c
    BY <1>1, <1>2, <2>1, RunFacts
  <2> QED
    BY <1>2, <2>1, <2>2, <2>3, RunFacts
<1>7. EarliestOf(file).lo..EarliestOf(Dashed(file)).hi \subseteq cpus
  <2>1. EarliestOf(Dashed(file)) \in file
    BY <1>4, ReadFacts DEF Dashed
  <2> QED
    BY <1>5, <1>6, <2>1, RunFacts
<1>8. CoreList(file, n) = FirstIsolated(file, n)
  BY <1>4 DEF CoreList
<1> QED
  BY <1>7, <1>8 DEF FirstIsolated, ReadIsolatedCores

\* Among the least used cores there is a first one.
LEMMA FirstLeastUsedFacts ==
    ASSUME TypeOK
    PROVE  /\ FirstLeastUsed \in DOMAIN use
           /\ \A d \in DOMAIN use :
                  \/ use[FirstLeastUsed] < use[d]
                  \/ use[FirstLeastUsed] = use[d] /\ FirstLeastUsed <= d
<1> DEFINE S == {use[c] : c \in DOMAIN use}
<1>1. S \in SUBSET Nat /\ S # {} /\ DOMAIN use \in SUBSET Nat
  BY CoresAssumption DEF TypeOK, Cpus
<1>2. PICK u \in S : \A v \in S : u <= v
  BY <1>1, LeastElement
<1> DEFINE T == {c \in DOMAIN use : use[c] = u}
<1>3. T \in SUBSET Nat /\ T # {}
  BY <1>1, <1>2
<1>4. PICK c \in T : \A d \in T : c <= d
  BY <1>3, LeastElement
<1>5. \A d \in DOMAIN use : use[c] < use[d] \/ (use[c] = use[d] /\ c <= d)
  <2> SUFFICES ASSUME NEW d \in DOMAIN use
               PROVE  use[c] < use[d] \/ (use[c] = use[d] /\ c <= d)
    OBVIOUS
  <2>1. use[c] = u /\ u \in Nat /\ use[d] \in Nat /\ u <= use[d]
    BY <1>1, <1>2, <1>4
  <2>2. use[d] = u => c <= d
    BY <1>4
  <2> QED
    BY <2>1, <2>2
<1> QED
  BY <1>4, <1>5 DEF FirstLeastUsed

-----------------------------------------------------------------------------
\* add_worker refuses, or adds to a core of the list however it was found.
LEMMA NextSteps ==
    ASSUME TypeOK, Next
    PROVE  \/ \E cpu_id \in Cpus : NoSuchCore(cpu_id)
           \/ \E core \in DOMAIN use : AddTo(core)
<1>1. CASE \E cpu_id \in Cpus : NoSuchCore(cpu_id) \/ AddWorkerOn(cpu_id)
  BY <1>1 DEF AddWorkerOn
<1>2. CASE AddWorkerAnywhere
  BY <1>2, FirstLeastUsedFacts DEF AddWorkerAnywhere
<1> QED
  BY <1>1, <1>2 DEF Next

\* The list keeps its cores, and no core has a thread that is not counted.
ListInv == evl /\ BeginsWithRange(isolated) => DOMAIN use \subseteq isolated

\* The two facts above hold of a new pool whose list is usable.
LEMMA InitCores == Init => TypeOK /\ ListInv
<1> SUFFICES ASSUME Init
             PROVE  TypeOK /\ ListInv
  OBVIOUS
<1> DEFINE list == CoreList(CpuFile(isolated), cores)
<1>1. list \in (SUBSET Cpus) \ {{}}
  BY ListIsUsable DEF Init
<1>2. DOMAIN use = list
  BY DEF Init
<1>3. TypeOK
  <2> HIDE DEF list
  <2>1. use = [c \in list |-> 0]
    BY DEF Init, list
  <2>2. use \in [DOMAIN use -> Nat]
    BY <1>2, <2>1
  <2>3. \A c \in Cpus : ~ (threads[c] > 0)
    BY DEF Init
  <2>4. threads \in [Cpus -> Nat] /\ status \in WorkerPoolStatus
    BY DEF Init, WorkerPoolStatus
  <2> QED
    BY <1>1, <1>2, <2>2, <2>3, <2>4 DEF Init, TypeOK
<1>4. ListInv
  BY <1>2, ListIsIsolated DEF Init, ListInv
<1> QED
  BY <1>3, <1>4

\* Adding a worker, refused or not, keeps both.
LEMMA CoresStep == TypeOK /\ ListInv /\ [Next]_vars => TypeOK' /\ ListInv'
<1> SUFFICES ASSUME TypeOK, ListInv, [Next]_vars
             PROVE  TypeOK' /\ ListInv'
  OBVIOUS
<1>1. CASE UNCHANGED vars
  BY <1>1 DEF vars, TypeOK, ListInv, BeginsWithRange
<1>2. ASSUME NEW cpu_id \in Cpus, NoSuchCore(cpu_id)
      PROVE  TypeOK' /\ ListInv'
  <2>1. /\ chosen' \in BOOLEAN
        /\ status' \in WorkerPoolStatus
        /\ runFailed' \in BOOLEAN
    BY <1>2 DEF NoSuchCore, WorkerPoolStatus, TypeOK
  <2> QED
    BY <1>2, <2>1 DEF NoSuchCore, TypeOK, ListInv, BeginsWithRange
<1>3. ASSUME NEW core \in DOMAIN use, AddTo(core), chosen' \in BOOLEAN
      PROVE  TypeOK' /\ ListInv'
  <2>1. status' \in WorkerPoolStatus /\ runFailed' \in BOOLEAN
    BY <1>3 DEF AddTo, WorkerRuns, SetUpFails, RunFails, ErrnoToWorkerStatus,
                WorkerPoolStatus, TypeOK
  <2>2. UNCHANGED <<isolated, evl, cores>> /\ DOMAIN use' = DOMAIN use
    BY <1>3 DEF AddTo, WorkerRuns, SetUpFails, RunFails
  <2>3. /\ use' \in [DOMAIN use -> Nat]
        /\ threads' \in [Cpus -> Nat]
        /\ \A c \in Cpus : threads'[c] > 0 => c \in DOMAIN use /\ threads'[c] <= use'[c]
    <3>1. /\ use \in [DOMAIN use -> Nat]
          /\ threads \in [Cpus -> Nat]
          /\ core \in Cpus
          /\ \A c \in Cpus : threads[c] > 0 => c \in DOMAIN use /\ threads[c] <= use[c]
      BY DEF TypeOK
    <3>2. CASE WorkerRuns(core)
      BY <3>1, <3>2 DEF WorkerRuns
    <3>3. CASE SetUpFails(core)
      BY <3>1, <3>3 DEF SetUpFails
    <3>4. CASE RunFails(core)
      BY <3>1, <3>4 DEF RunFails
    <3> QED
      BY <1>3, <3>2, <3>3, <3>4 DEF AddTo
  <2>4. TypeOK'
    BY <1>3, <2>1, <2>2, <2>3 DEF TypeOK
  <2>5. ListInv'
    BY <2>2 DEF ListInv, BeginsWithRange
  <2> QED
    BY <2>4, <2>5
<1>4. CASE Next
  <2>1. chosen' \in BOOLEAN
    BY <1>4 DEF Next, NoSuchCore, AddWorkerOn, AddWorkerAnywhere, TypeOK
  <2> QED
    BY <1>2, <1>3, <1>4, <2>1, NextSteps
<1> QED
  BY <1>1, <1>4

-----------------------------------------------------------------------------
\* Type correctness, and with it that a pool always has a core to pick: the
\* list that the constructor makes is never empty, whatever the file says.
THEOREM TypeCorrect == Spec => []TypeOK
<1>1. Spec => [](TypeOK /\ ListInv)
  BY InitCores, CoresStep, PTL DEF Spec
<1> QED
  BY <1>1, PTL

\* Worker threads of an EVL pool run on isolated cpus only, on a machine of
\* any size whose list of isolated cpus begins with a range.
THEOREM OnlyIsolatedHolds == Spec => []OnlyIsolated
<1>1. Spec => [](TypeOK /\ ListInv)
  BY InitCores, CoresStep, PTL DEF Spec
<1>2. TypeOK /\ ListInv => OnlyIsolated
  BY DEF TypeOK, ListInv, OnlyIsolated
<1> QED
  BY <1>1, <1>2, PTL

\* What add_worker counts fills up in order, and as long as no run() has failed
\* it counts the worker threads.
CountInv ==
    /\ ~chosen => \A c, d \in DOMAIN use : c < d => use[c] - use[d] \in {0, 1}
    /\ ~runFailed => \A c \in DOMAIN use : use[c] = threads[c]

\* Nothing is counted in a new pool.
LEMMA InitCount == Init => CountInv
<1> SUFFICES ASSUME Init
             PROVE  CountInv
  OBVIOUS
<1>1. DOMAIN use \in SUBSET Cpus
  BY ListIsUsable DEF Init
<1> QED
  BY <1>1 DEF Init, CountInv

\* A worker that is added to a core, or fails there, is counted as it should be.
LEMMA CountStep == TypeOK /\ CountInv /\ [Next]_vars => CountInv'
<1> SUFFICES ASSUME TypeOK, CountInv, [Next]_vars
             PROVE  CountInv'
  OBVIOUS
<1>1. (~chosen => \A c, d \in DOMAIN use : c < d => use[c] - use[d] \in {0, 1})'
  <2> SUFFICES ASSUME ~chosen'
               PROVE  (\A c, d \in DOMAIN use : c < d => use[c] - use[d] \in {0, 1})'
    OBVIOUS
  <2>1. CASE UNCHANGED vars
    BY <2>1 DEF vars, CountInv
  <2>2. CASE AddWorkerAnywhere
    <3> DEFINE core == FirstLeastUsed
    <3>1. /\ ~chosen
          /\ AddTo(core)
      BY <2>2 DEF AddWorkerAnywhere
    <3>2. /\ core \in DOMAIN use
          /\ \A d \in DOMAIN use : use[core] < use[d] \/ (use[core] = use[d] /\ core <= d)
      BY FirstLeastUsedFacts
    <3>3. /\ DOMAIN use \in SUBSET Nat
          /\ use \in [DOMAIN use -> Nat]
      BY CoresAssumption DEF TypeOK, Cpus
    <3> HIDE DEF core
    <3>4. CASE use' = use
      BY <3>1, <3>4 DEF CountInv
    <3>5. CASE use' = [use EXCEPT ![core] = @ + 1]
      <4> SUFFICES ASSUME NEW c \in DOMAIN use, NEW d \in DOMAIN use, c < d
                   PROVE  use'[c] - use'[d] \in {0, 1}
        BY <3>3, <3>5
      <4>1. use[c] - use[d] \in {0, 1} /\ use[c] \in Nat /\ use[d] \in Nat
        BY <3>1, <3>3 DEF CountInv
      <4>2. CASE c = core
        BY <3>2, <3>3, <3>5, <4>1, <4>2
      <4>3. CASE d = core
        BY <3>2, <3>3, <3>5, <4>1, <4>3
      <4>4. CASE c # core /\ d # core
        BY <3>3, <3>5, <4>1, <4>4
      <4> QED
        BY <4>2, <4>3, <4>4
    <3> QED
      BY <3>1, <3>4, <3>5 DEF AddTo, WorkerRuns, SetUpFails, RunFails
  <2>3. CASE \E cpu_id \in Cpus : NoSuchCore(cpu_id) \/ AddWorkerOn(cpu_id)
    BY <2>3 DEF NoSuchCore, AddWorkerOn
  <2> QED
    BY <2>1, <2>2, <2>3 DEF Next
<1>2. (~runFailed => \A c \in DOMAIN use : use[c] = threads[c])'
  <2> SUFFICES ASSUME ~runFailed'
               PROVE  (\A c \in DOMAIN use : use[c] = threads[c])'
    OBVIOUS
  <2>1. CASE UNCHANGED vars
    BY <2>1 DEF vars, CountInv
  <2>2. CASE \E cpu_id \in Cpus : NoSuchCore(cpu_id)
    BY <2>2 DEF NoSuchCore, CountInv
  <2>3. ASSUME NEW core \in DOMAIN use, AddTo(core)
        PROVE  (\A c \in DOMAIN use : use[c] = threads[c])'
    <3>1. /\ DOMAIN use \in SUBSET Cpus
          /\ use \in [DOMAIN use -> Nat]
          /\ threads \in [Cpus -> Nat]
      BY DEF TypeOK
    <3>2. CASE WorkerRuns(core)
      BY <3>1, <3>2 DEF WorkerRuns, CountInv
    <3>3. CASE SetUpFails(core)
      BY <3>3 DEF SetUpFails, CountInv
    <3>4. CASE RunFails(core)
      BY <3>4 DEF RunFails
    <3> QED
      BY <2>3, <3>2, <3>3, <3>4 DEF AddTo
  <2> QED
    BY <2>1, <2>2, <2>3, NextSteps
<1> QED
  BY <1>1, <1>2 DEF CountInv

\* add_worker spreads the worker threads evenly and from the first core on, for
\* any list of cores and whichever set-ups fail, in a pool in which no run() has
\* failed.
THEOREM CoresFillInOrderHolds == Spec => []CoresFillInOrder
<1>1. TypeOK /\ CountInv => CoresFillInOrder
  BY DEF CountInv, CoresFillInOrder
<1> QED
  BY <1>1, InitCount, CountStep, TypeCorrect, PTL DEF Spec
=============================================================================
