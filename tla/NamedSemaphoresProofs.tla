------------------------ MODULE NamedSemaphoresProofs ------------------------
(***************************************************************************)
(* Theorems about NamedSemaphores.tla, for any number of processes, of     *)
(* threads that make pools or condition variables, of crashes and of       *)
(* retries.                                                                *)
(***************************************************************************)
EXTENDS NamedSemaphores, FiniteSetTheorems, LeastNumber

\* What a maker is doing says which semaphores it has opened.
HoldsOf(m) ==
    /\ point[m] \in {"unlink", "open", "destroy"} => kind = "pool"
    /\ point[m] \in {"draw", "open_cv", "gave_up"} => kind = "condvar"
    /\ point[m] \notin {"unlink", "open", "destroy"} => slot[m] = 0
    /\ point[m] \in {"out", "draw", "open_cv", "gave_up"} => holds[m] = NoSems
    /\ \A i \in Slots :
          /\ point[m] \in {"unlink", "open"} => (holds[m][i] # None <=> i < slot[m])
          /\ point[m] = "destroy" => (holds[m][i] # None <=> i >= slot[m])
          /\ point[m] = "alive" => (holds[m][i] # None <=> i = 0 \/ kind = "pool")

HoldsMatch == \A m \in Makers : HoldsOf(m)

\* A name is unlinked before it is opened, so what stood under it when the
\* constructor was called is gone.
PoolsAreFresh ==
    kind = "pool" =>
        \A m \in Makers, i \in Slots :
            holds[m][i] # None \/ (point[m] = "open" /\ slot[m] = i) =>
                PoolName(i) \notin old[m]

\* The name of a condition variable is linked and is its own.
NamesAreOwned ==
    kind = "condvar" =>
        \A m \in Makers : point[m] = "alive" =>
            /\ linked[cvName[m]] = holds[m][0]
            /\ \A n \in Makers \ {m} : point[n] = "alive" => cvName[n] # cvName[m]

\* The retries that the threads of a process have used, one by one.
MakersOf(p) == {m \in Makers : ProcOf[m] = p}
Tries == 1..(MaxRetries - 1)
Spent(p) == {mj \in MakersOf(p) \X Tries : mj[2] >= retries[mj[1]]}

\* Every name drawn since the last srand() has used up a retry.
DrawsArePaid == \A p \in Procs : rand[p].drawn <= Cardinality(Spent(p))

\* The names of one sequence of rand().
Drawn(p) == {CvName(rand[p].second, k) : k \in 1..rand[p].drawn}

\* As long as rand() goes on, every try is with another name.
TriesOf(m) ==
    /\ point[m] \in {"draw", "open_cv"} => retries[m] >= 1
    /\ point[m] \in {"draw", "open_cv"} /\ ~reseeded[m] =>
          /\ IsFiniteSet(tried[m])
          /\ Cardinality(tried[m]) = MaxRetries - retries[m]
          /\ tried[m] \subseteq Drawn(ProcOf[m])

TriesDiffer == \A m \in Makers : TriesOf(m)

\* The inductive invariant.
NamesInv ==
    /\ TypeOK
    /\ HoldsMatch
    /\ PoolsAreFresh
    /\ NamesAreOwned
    /\ NothingLeftBehind
    /\ DrawsArePaid
    /\ TriesDiffer
    /\ GivesUpOnlyWhenCrowded

-----------------------------------------------------------------------------
\* The bounds of the model are usable: a maker has retries, its process is one
\* of the processes, and there are names to draw.
LEMMA Bounds ==
    /\ Cardinality(Makers) \in Nat
    /\ MaxRetries - 1 \in Nat \ {0}
    /\ MaxSuffix \in Nat
    /\ \A m \in Makers : /\ ProcOf[m] \in Procs
                         /\ Cardinality(Makers) >= 1
                         /\ MaxSuffix >= 1
                         /\ NoName \in CvNames
<1>1. Cardinality(Makers) \in Nat /\ MaxRetries - 1 \in Nat \ {0}
  BY NamesAssumption, FS_CardinalityType
<1>2. \A a, b \in Nat : /\ a * b \in Nat
                        /\ a >= 1 /\ b >= 1 => a * b >= 1
  OBVIOUS
<1>3. MaxSuffix \in Nat
  BY <1>1, <1>2 DEF MaxSuffix
<1>4. \A m \in Makers : Cardinality(Makers) >= 1
  <2>1. Makers # {} => Cardinality(Makers) # 0
    BY NamesAssumption, FS_EmptySet
  <2> QED
    BY <1>1, <2>1
<1>5. ASSUME NEW m \in Makers
      PROVE  MaxSuffix >= 1
  <2>1. PICK a \in Nat : a = MaxRetries - 1
    BY <1>1
  <2>2. PICK b \in Nat : b = Cardinality(Makers)
    BY <1>1
  <2>3. MaxSuffix = a * b
    BY <2>1, <2>2 DEF MaxSuffix
  <2>4. a >= 1
    BY <2>1, NamesAssumption
  <2>5. b >= 1
    BY <1>4, <1>5, <2>2
  <2> QED
    BY <1>2, <2>3, <2>4, <2>5
<1>6. ASSUME NEW m \in Makers
      PROVE  NoName \in CvNames
  BY <1>3, <1>5, NamesAssumption DEF NoName, CvNames
<1> QED
  BY <1>1, <1>3, <1>4, <1>5, <1>6, NamesAssumption

\* If the maker that is about to open a name does not hold a semaphore of that
\* name yet, there is a number left for a new one.
LEMMA FreshSemIsFree ==
    ASSUME NamesInv, NEW m \in Makers, NEW i \in Slots,
           kind = "pool" => holds[m][i] = None,
           kind = "condvar" => i = 0 /\ holds[m][0] = None
    PROVE  FreshSem(NameOf(m, i)) \in Sems \ HeldAs(NameOf(m, i))
<1> DEFINE n == NameOf(m, i)
           Others == Makers \ {m}
           f == [k \in Others |-> holds[k][i]]
           T == {f[k] : k \in Others}
<1>0. /\ kind \in {"pool", "condvar"}
      /\ holds \in [Makers -> [Slots -> Sems \cup {None}]]
      /\ \A k \in Makers : kind = "condvar" => holds[k][1] = None
  <2>1. kind \in {"pool", "condvar"} /\ holds \in [Makers -> [Slots -> Sems \cup {None}]]
        /\ point \in [Makers -> Points]
    BY DEF NamesInv, TypeOK
  <2>2. ASSUME NEW k \in Makers, kind = "condvar" PROVE holds[k][1] = None
    BY <2>1, <2>2 DEF NamesInv, HoldsMatch, HoldsOf, Points, Slots, NoSems
  <2> QED
    BY <2>1, <2>2
<1>1. HeldAs(n) \ {None} \subseteq T
  <2> SUFFICES ASSUME NEW k \in Makers, NEW j \in Slots, NameOf(k, j) = n, holds[k][j] # None
               PROVE  holds[k][j] \in T
    BY DEF HeldAs
  <2>1. CASE kind = "pool"
    <3>1. j = i
      BY <2>1 DEF NameOf, PoolName
    <3> QED
      BY <2>1, <3>1
  <2>2. CASE kind = "condvar"
    <3>1. i = 0 /\ j = 0
      BY <1>0, <2>2 DEF Slots
    <3> QED
      BY <2>2, <3>1
  <2> QED
    BY <1>0, <2>1, <2>2
<1>2. IsFiniteSet(Others) /\ Cardinality(Others) = Cardinality(Makers) - 1
  BY NamesAssumption, FS_RemoveElement
<1>3. IsFiniteSet(T) /\ Cardinality(T) <= Cardinality(Others)
  <2>1. f \in Surjection(Others, T)
    BY DEF Surjection
  <2> QED
    BY <1>2, <2>1, FS_Surjection DEF ExistsSurjection
<1>4. IsFiniteSet(Sems) /\ Cardinality(Sems) = MaxSems /\ Cardinality(T) \in Nat
  <2>1. MaxSems \in Nat
    BY NamesAssumption
  <2>2. IsFiniteSet(1..MaxSems) /\ Cardinality(1..MaxSems) = MaxSems
    BY <2>1, FS_Interval
  <2> QED
    BY <1>3, <2>2, FS_CardinalityType DEF Sems
<1>5. Sems \ HeldAs(n) # {}
  <2> SUFFICES ASSUME Sems \ HeldAs(n) = {} PROVE FALSE
    OBVIOUS
  <2>1. Sems \in SUBSET T
    BY <1>1 DEF Sems, None
  <2>2. Cardinality(Sems) <= Cardinality(T)
    BY <1>3, <2>1, FS_Subset
  <2> QED
    BY <1>2, <1>3, <1>4, <2>2, Bounds, NamesAssumption
<1>6. Sems \ HeldAs(n) \in SUBSET Nat
  BY DEF Sems
<1>7. \E s \in Sems \ HeldAs(n) : \A t \in Sems \ HeldAs(n) : s <= t
  BY <1>5, <1>6, LeastElement
<1> QED
  BY <1>7 DEF FreshSem

\* What a crash does to the makers of the process and to the others.
LEMMA CrashResets ==
    ASSUME NEW p \in Procs, Crash(p)
    PROVE  /\ crashes < MaxCrashes /\ crashes' = crashes + 1
           /\ \A m \in Makers :
                /\ ProcOf[m] = p =>
                     /\ point'[m] = "out" /\ holds'[m] = NoSems /\ slot'[m] = 0
                     /\ cvName'[m] = NoName /\ retries'[m] = 0 /\ old'[m] = {}
                     /\ tried'[m] = {} /\ reseeded'[m] = FALSE
                /\ ProcOf[m] # p =>
                     /\ point'[m] = point[m] /\ holds'[m] = holds[m]
                     /\ slot'[m] = slot[m] /\ cvName'[m] = cvName[m]
                     /\ retries'[m] = retries[m] /\ old'[m] = old[m]
                     /\ tried'[m] = tried[m] /\ reseeded'[m] = reseeded[m]
           /\ rand' = [rand EXCEPT ![p] = [second |-> 0, drawn |-> 0]]
           /\ leftover \subseteq leftover'
           /\ \A m \in Makers, i \in Slots :
                ProcOf[m] = p /\ holds[m][i] # None => NameOf(m, i) \in leftover'
           /\ UNCHANGED <<kind, linked, clock>>
<1>1. \A m \in Makers, i \in Slots :
         ProcOf[m] = p /\ holds[m][i] # None => NameOf(m, i) \in leftover'
  <2> SUFFICES ASSUME NEW m \in Makers, NEW i \in Slots, ProcOf[m] = p, holds[m][i] # None
               PROVE  NameOf(m, i) \in leftover'
    OBVIOUS
  <2> DEFINE D == {mi \in {k \in Makers : ProcOf[k] = p} \X Slots : holds[mi[1]][mi[2]] # None}
  <2>1. <<m, i>> \in D
    OBVIOUS
  <2>2. leftover' = leftover \cup {NameOf(mi[1], mi[2]) : mi \in D}
    BY DEF Crash
  <2> QED
    BY <2>1, <2>2
<1> QED
  BY <1>1 DEF Crash

-----------------------------------------------------------------------------
\* sem_open of a constructor yields a semaphore.
LEMMA OpenSemIsASem ==
    ASSUME NamesInv, NEW m \in Makers
    PROVE  /\ Open(m) => /\ OpenSem(PoolName(slot[m])) \in Sems
                         /\ PoolName(slot[m]) \in Names
           /\ OpenCondVar(m) => /\ OpenSem(cvName[m]) \in Sems
                                /\ cvName[m] \in Names
<1>t. /\ holds \in [Makers -> [Slots -> Sems \cup {None}]] /\ point \in [Makers -> Points]
      /\ slot \in [Makers -> Slots] /\ kind \in {"pool", "condvar"}
      /\ linked \in [Names -> Sems \cup {None}] /\ cvName \in [Makers -> CvNames]
  BY DEF NamesInv, TypeOK
<1>h. HoldsMatch
  BY DEF NamesInv
<1>1. ASSUME Open(m)
      PROVE  OpenSem(PoolName(slot[m])) \in Sems /\ PoolName(slot[m]) \in Names
  <2>1. kind = "pool" /\ holds[m][slot[m]] = None /\ slot[m] \in Slots
    BY <1>1, <1>t, <1>h DEF Open, MakerGoes, HoldsMatch, HoldsOf, Slots
  <2>2. FreshSem(PoolName(slot[m])) \in Sems
    BY <2>1, FreshSemIsFree DEF NameOf
  <2>3. PoolName(slot[m]) \in Names
    BY <2>1 DEF Names, PoolNames
  <2> QED
    BY <1>t, <2>2, <2>3 DEF OpenSem
<1>2. ASSUME OpenCondVar(m)
      PROVE  OpenSem(cvName[m]) \in Sems /\ cvName[m] \in Names
  <2>1. kind = "condvar" /\ holds[m][0] = None /\ 0 \in Slots
    BY <1>2, <1>t, <1>h DEF OpenCondVar, MakerGoes, HoldsMatch, HoldsOf, Slots, NoSems
  <2>2. FreshSem(cvName[m]) \in Sems
    BY <2>1, FreshSemIsFree DEF NameOf
  <2> QED
    BY <1>t, <2>2 DEF OpenSem, Names
<1> QED
  BY <1>1, <1>2

\* A constructor opens and a destructor closes one semaphore after the other.
LEMMA HoldsStep == NamesInv /\ [Next]_vars => HoldsMatch'
<1> SUFFICES ASSUME NamesInv, [Next]_vars
             PROVE  HoldsMatch'
  OBVIOUS
<1>t. /\ holds \in [Makers -> [Slots -> Sems \cup {None}]] /\ point \in [Makers -> Points]
      /\ slot \in [Makers -> Slots] /\ kind \in {"pool", "condvar"}
      /\ linked \in [Names -> Sems \cup {None}] /\ cvName \in [Makers -> CvNames]
  BY DEF NamesInv, TypeOK
<1>h. HoldsMatch
  BY DEF NamesInv
<1> USE <1>t, <1>h DEF HoldsMatch, HoldsOf, Slots, Points, NoSems, Sems, None
<1>1. CASE UNCHANGED vars
  BY <1>1 DEF vars, makerVars
<1>2. CASE Tick
  BY <1>2 DEF Tick, makerVars
<1>3. ASSUME NEW m \in Makers, ConstructPool(m)
      PROVE  HoldsMatch'
  BY <1>3 DEF ConstructPool, MakerGoes
<1>4. ASSUME NEW m \in Makers, Unlink(m)
      PROVE  HoldsMatch'
  BY <1>4 DEF Unlink, ForgetUnlinked, ClearName, MakerGoes
<1>5. ASSUME NEW m \in Makers, Open(m)
      PROVE  HoldsMatch'
  <2>1. OpenSem(PoolName(slot[m])) \in Sems
    BY <1>5, OpenSemIsASem
  <2> QED
    BY <1>5, <2>1 DEF Open, MakerGoes
<1>6. ASSUME NEW m \in Makers, OpenFails(m)
      PROVE  HoldsMatch'
  BY <1>6 DEF OpenFails, MakerGoes
<1>7. ASSUME NEW m \in Makers, DestroyPool(m)
      PROVE  HoldsMatch'
  BY <1>7 DEF DestroyPool, MakerGoes
<1>8. ASSUME NEW m \in Makers, DestroySemaphore(m)
      PROVE  HoldsMatch'
  <2>0. /\ point[m] = "destroy" /\ kind' = kind
        /\ point' = [point EXCEPT ![m] = IF slot[m] = 0 THEN "destroy" ELSE "out"]
        /\ holds' = [holds EXCEPT ![m][slot[m]] = None]
        /\ slot' = [slot EXCEPT ![m] = 1 - slot[m]]
    BY <1>8 DEF DestroySemaphore, MakerGoes
  <2> SUFFICES ASSUME NEW k \in Makers
               PROVE  HoldsOf(k)'
    OBVIOUS
  <2>1. CASE k # m
    <3>1. HoldsOf(k)
      OBVIOUS
    <3> QED
      BY <2>0, <2>1, <3>1
  <2>2. CASE k = m /\ slot[m] = 0
    <3>1. /\ point'[m] = "destroy" /\ slot'[m] = 1
          /\ holds'[m][0] = None /\ holds'[m][1] = holds[m][1]
      BY <2>0, <2>2
    <3>2. HoldsOf(m)
      OBVIOUS
    <3> QED
      BY <2>0, <2>2, <3>1, <3>2
  <2>3. CASE k = m /\ slot[m] = 1
    <3>1. /\ point'[m] = "out" /\ slot'[m] = 0
          /\ holds'[m][1] = None /\ holds'[m][0] = holds[m][0]
          /\ holds'[m] \in [Slots -> Sems \cup {None}]
      BY <2>0, <2>3
    <3>2. holds[m][0] = None
      BY <2>0, <2>3
    <3>3. holds'[m] = NoSems
      BY <3>1, <3>2
    <3> QED
      BY <2>3, <3>1, <3>3
  <2> QED
    BY <2>1, <2>2, <2>3
<1>9. ASSUME NEW m \in Makers, ConstructCondVar(m)
      PROVE  HoldsMatch'
  BY <1>9 DEF ConstructCondVar, MakerGoes
<1>10. ASSUME NEW m \in Makers, DrawName(m)
      PROVE  HoldsMatch'
  BY <1>10 DEF DrawName, MakerGoes
<1>11. ASSUME NEW m \in Makers, NameExists(m)
      PROVE  HoldsMatch'
  BY <1>11 DEF NameExists, MakerGoes
<1>12. ASSUME NEW m \in Makers, OpenCondVar(m)
      PROVE  HoldsMatch'
  <2>1. OpenSem(cvName[m]) \in Sems
    BY <1>12, OpenSemIsASem
  <2> QED
    BY <1>12, <2>1 DEF OpenCondVar, MakerGoes
<1>13. ASSUME NEW m \in Makers, OpenCondVarFails(m)
      PROVE  HoldsMatch'
  BY <1>13 DEF OpenCondVarFails, ConstructorEnds, MakerGoes
<1>14. ASSUME NEW m \in Makers, NoMoreRetries(m)
      PROVE  HoldsMatch'
  BY <1>14 DEF NoMoreRetries, MakerGoes
<1>15. ASSUME NEW m \in Makers, DestroyCondVar(m)
      PROVE  HoldsMatch'
  BY <1>15 DEF DestroyCondVar, RemoveName, MakerGoes
<1>16. ASSUME NEW p \in Procs, Crash(p)
      PROVE  HoldsMatch'
  <2> SUFFICES ASSUME NEW m \in Makers
               PROVE  HoldsOf(m)'
    OBVIOUS
  <2>1. CASE ProcOf[m] = p
    <3>1. point'[m] = "out" /\ holds'[m] = NoSems /\ slot'[m] = 0
      BY <1>16, <2>1, CrashResets
    <3> QED
      BY <3>1
  <2>2. CASE ProcOf[m] # p
    <3>1. point'[m] = point[m] /\ holds'[m] = holds[m] /\ slot'[m] = slot[m] /\ kind' = kind
      BY <1>16, <2>2, CrashResets
    <3>2. HoldsOf(m)
      OBVIOUS
    <3> QED
      BY <3>1, <3>2
  <2> QED
    BY <2>1, <2>2
<1> QED
  BY <1>1, <1>2, <1>3, <1>4, <1>5, <1>6, <1>7, <1>8, <1>9, <1>10, <1>11,
     <1>12, <1>13, <1>14, <1>15, <1>16 DEF Next, MakerStep

-----------------------------------------------------------------------------
\* A pool opens a name after it has unlinked it.
LEMMA FreshStep == NamesInv /\ [Next]_vars => PoolsAreFresh'
<1> SUFFICES ASSUME NamesInv, [Next]_vars
             PROVE  PoolsAreFresh'
  OBVIOUS
<1>t. /\ holds \in [Makers -> [Slots -> Sems \cup {None}]] /\ point \in [Makers -> Points]
      /\ slot \in [Makers -> Slots] /\ old \in [Makers -> SUBSET PoolNames]
  BY DEF NamesInv, TypeOK
<1>h. HoldsMatch /\ PoolsAreFresh
  BY DEF NamesInv
<1> USE <1>t, <1>h DEF PoolsAreFresh
<1>1. CASE UNCHANGED vars
  BY <1>1 DEF vars, makerVars
<1>2. CASE Tick
  BY <1>2 DEF Tick, makerVars
<1>3. ASSUME NEW m \in Makers, ConstructPool(m)
      PROVE  PoolsAreFresh'
  <2>1. \A i \in Slots : holds[m][i] = None
    BY <1>3 DEF ConstructPool, MakerGoes, HoldsMatch, HoldsOf, NoSems
  <2> QED
    BY <1>3, <2>1 DEF ConstructPool, MakerGoes
<1>4. ASSUME NEW m \in Makers, Unlink(m)
      PROVE  PoolsAreFresh'
  <2> DEFINE n == PoolName(slot[m])
  <2>1. /\ point' = [point EXCEPT ![m] = "open"] /\ UNCHANGED <<kind, holds, slot>>
        /\ linked' = [linked EXCEPT ![n] = None]
        /\ old' = [k \in Makers |-> {x \in old[k] : linked'[x] # None}]
    BY <1>4 DEF Unlink, MakerGoes, ForgetUnlinked, ClearName
  <2>2. n \in Names /\ linked \in [Names -> Sems \cup {None}]
    BY DEF Names, PoolNames, NamesInv, TypeOK
  <2>3. linked'[n] = None
    BY <2>1, <2>2
  <2>4. \A k \in Makers : old'[k] \subseteq old[k] /\ n \notin old'[k]
    BY <2>1, <2>3
  <2> QED
    BY <2>1, <2>4
<1>5. ASSUME NEW m \in Makers, Open(m)
      PROVE  PoolsAreFresh'
  <2> DEFINE s == OpenSem(PoolName(slot[m]))
  <2>1. /\ point' = [point EXCEPT ![m] = IF slot[m] = 0 THEN "unlink" ELSE "alive"]
        /\ holds' = [holds EXCEPT ![m][slot[m]] = s]
        /\ slot' = [slot EXCEPT ![m] = 1 - slot[m]]
        /\ UNCHANGED <<kind, old>> /\ point[m] = "open"
    BY <1>5 DEF Open, MakerGoes
  <2>2. \A k \in Makers, i \in Slots :
           holds'[k][i] # None => holds[k][i] # None \/ (k = m /\ i = slot[m])
    BY <2>1
  <2>3. \A k \in Makers : point'[k] = "open" => point[k] = "open" /\ slot'[k] = slot[k]
    BY <2>1
  <2> QED
    BY <2>1, <2>2, <2>3
<1>6. ASSUME NEW m \in Makers, OpenFails(m)
      PROVE  PoolsAreFresh'
  BY <1>6 DEF OpenFails, MakerGoes, NoSems
<1>7. ASSUME NEW m \in Makers, DestroyPool(m)
      PROVE  PoolsAreFresh'
  BY <1>7 DEF DestroyPool, MakerGoes
<1>8. ASSUME NEW m \in Makers, DestroySemaphore(m)
      PROVE  PoolsAreFresh'
  <2>1. /\ point' = [point EXCEPT ![m] = IF slot[m] = 0 THEN "destroy" ELSE "out"]
        /\ slot' = [slot EXCEPT ![m] = 1 - slot[m]]
        /\ holds' = [holds EXCEPT ![m][slot[m]] = None]
        /\ old' = [k \in Makers |-> {x \in old[k] : linked'[x] # None}] /\ kind' = kind
    BY <1>8 DEF DestroySemaphore, MakerGoes, ForgetUnlinked
  <2>2. \A k \in Makers : old'[k] \subseteq old[k]
    BY <2>1
  <2>3. \A k \in Makers, i \in Slots : holds'[k][i] # None => holds[k][i] # None
    BY <2>1
  <2>4. \A k \in Makers : point'[k] = "open" => point[k] = "open" /\ slot'[k] = slot[k]
    BY <2>1
  <2> QED
    BY <2>1, <2>2, <2>3, <2>4
<1>9. ASSUME NEW m \in Makers, ConstructCondVar(m)
      PROVE  PoolsAreFresh'
  BY <1>9 DEF ConstructCondVar
<1>10. ASSUME NEW m \in Makers, DrawName(m)
      PROVE  PoolsAreFresh'
  BY <1>10 DEF DrawName, MakerGoes, HoldsMatch, HoldsOf
<1>11. ASSUME NEW m \in Makers, NameExists(m)
      PROVE  PoolsAreFresh'
  BY <1>11 DEF NameExists, MakerGoes, HoldsMatch, HoldsOf
<1>12. ASSUME NEW m \in Makers, OpenCondVar(m)
      PROVE  PoolsAreFresh'
  BY <1>12 DEF OpenCondVar, MakerGoes, HoldsMatch, HoldsOf
<1>13. ASSUME NEW m \in Makers, OpenCondVarFails(m)
      PROVE  PoolsAreFresh'
  BY <1>13 DEF OpenCondVarFails, MakerGoes, HoldsMatch, HoldsOf
<1>14. ASSUME NEW m \in Makers, NoMoreRetries(m)
      PROVE  PoolsAreFresh'
  BY <1>14 DEF NoMoreRetries, MakerGoes, HoldsMatch, HoldsOf
<1>15. ASSUME NEW m \in Makers, DestroyCondVar(m)
      PROVE  PoolsAreFresh'
  BY <1>15 DEF DestroyCondVar
<1>16. ASSUME NEW p \in Procs, Crash(p)
      PROVE  PoolsAreFresh'
  <2>1. \A k \in Makers : \/ point'[k] = "out" /\ holds'[k] = NoSems
                         \/ /\ point'[k] = point[k] /\ holds'[k] = holds[k]
                            /\ slot'[k] = slot[k] /\ old'[k] = old[k]
    BY <1>16, CrashResets
  <2>2. kind' = kind
    BY <1>16, CrashResets
  <2> QED
    BY <2>1, <2>2 DEF NoSems
<1> QED
  BY <1>1, <1>2, <1>3, <1>4, <1>5, <1>6, <1>7, <1>8, <1>9, <1>10, <1>11,
     <1>12, <1>13, <1>14, <1>15, <1>16 DEF Next, MakerStep

\* O_EXCL: a name that is in use is not opened.
LEMMA OwnedStep == NamesInv /\ [Next]_vars => NamesAreOwned'
<1> SUFFICES ASSUME NamesInv, [Next]_vars
             PROVE  NamesAreOwned'
  OBVIOUS
<1>t. /\ holds \in [Makers -> [Slots -> Sems \cup {None}]] /\ point \in [Makers -> Points]
      /\ cvName \in [Makers -> CvNames] /\ linked \in [Names -> Sems \cup {None}]
      /\ CvNames \subseteq Names /\ 0 \in Slots
  BY DEF NamesInv, TypeOK, Names, Slots
<1>h. HoldsMatch /\ NamesAreOwned
  BY DEF NamesInv
<1> USE <1>t, <1>h DEF NamesAreOwned
<1>1. CASE UNCHANGED vars
  BY <1>1 DEF vars, makerVars
<1>2. CASE Tick
  BY <1>2 DEF Tick, makerVars
<1>3. ASSUME NEW m \in Makers, ConstructPool(m)
      PROVE  NamesAreOwned'
  BY <1>3 DEF ConstructPool, MakerGoes, HoldsMatch, HoldsOf
<1>4. ASSUME NEW m \in Makers, Unlink(m)
      PROVE  NamesAreOwned'
  BY <1>4 DEF Unlink, MakerGoes, HoldsMatch, HoldsOf
<1>5. ASSUME NEW m \in Makers, Open(m)
      PROVE  NamesAreOwned'
  BY <1>5 DEF Open, MakerGoes, HoldsMatch, HoldsOf
<1>6. ASSUME NEW m \in Makers, OpenFails(m)
      PROVE  NamesAreOwned'
  BY <1>6 DEF OpenFails, MakerGoes, HoldsMatch, HoldsOf
<1>7. ASSUME NEW m \in Makers, DestroyPool(m)
      PROVE  NamesAreOwned'
  BY <1>7 DEF DestroyPool, MakerGoes, HoldsMatch, HoldsOf
<1>8. ASSUME NEW m \in Makers, DestroySemaphore(m)
      PROVE  NamesAreOwned'
  BY <1>8 DEF DestroySemaphore, MakerGoes, HoldsMatch, HoldsOf
<1>9. ASSUME NEW m \in Makers, ConstructCondVar(m)
      PROVE  NamesAreOwned'
  BY <1>9 DEF ConstructCondVar, MakerGoes
<1>10. ASSUME NEW m \in Makers, DrawName(m)
      PROVE  NamesAreOwned'
  BY <1>10 DEF DrawName, MakerGoes
<1>11. ASSUME NEW m \in Makers, NameExists(m)
      PROVE  NamesAreOwned'
  BY <1>11 DEF NameExists, MakerGoes
<1>12. ASSUME NEW m \in Makers, OpenCondVar(m)
      PROVE  NamesAreOwned'
  <2> DEFINE s == OpenSem(cvName[m])
  <2>1. /\ linked[cvName[m]] = None
        /\ point' = [point EXCEPT ![m] = "alive"]
        /\ linked' = [linked EXCEPT ![cvName[m]] = s]
        /\ holds' = [holds EXCEPT ![m][0] = s]
        /\ UNCHANGED <<kind, cvName>> /\ kind = "condvar"
    BY <1>12 DEF OpenCondVar, MakerGoes, Exists, HoldsMatch, HoldsOf
  <2>2. ASSUME NEW k \in Makers, k # m, point[k] = "alive"
        PROVE  cvName[k] # cvName[m] /\ linked'[cvName[k]] = holds'[k][0]
    <3>1. linked[cvName[k]] = holds[k][0] /\ holds[k][0] # None
      BY <2>1, <2>2 DEF HoldsMatch, HoldsOf
    <3> QED
      BY <2>1, <2>2, <3>1
  <2>3. linked'[cvName[m]] = holds'[m][0]
    BY <2>1
  <2> QED
    BY <2>1, <2>2, <2>3
<1>13. ASSUME NEW m \in Makers, OpenCondVarFails(m)
      PROVE  NamesAreOwned'
  BY <1>13 DEF OpenCondVarFails, ConstructorEnds, MakerGoes
<1>14. ASSUME NEW m \in Makers, NoMoreRetries(m)
      PROVE  NamesAreOwned'
  BY <1>14 DEF NoMoreRetries, MakerGoes
<1>15. ASSUME NEW m \in Makers, DestroyCondVar(m)
      PROVE  NamesAreOwned'
  <2>1. /\ point[m] = "alive" /\ point' = [point EXCEPT ![m] = "out"]
        /\ linked' = [linked EXCEPT ![cvName[m]] = None]
        /\ holds' = [holds EXCEPT ![m] = NoSems]
        /\ cvName' = [cvName EXCEPT ![m] = NoName] /\ kind' = kind
    BY <1>15 DEF DestroyCondVar, MakerGoes, RemoveName
  <2> QED
    BY <2>1
<1>16. ASSUME NEW p \in Procs, Crash(p)
      PROVE  NamesAreOwned'
  <2>1. \A k \in Makers : \/ point'[k] = "out"
                         \/ /\ point'[k] = point[k] /\ holds'[k] = holds[k]
                            /\ cvName'[k] = cvName[k]
    BY <1>16, CrashResets
  <2>2. UNCHANGED <<kind, linked>>
    BY <1>16, CrashResets
  <2> QED
    BY <2>1, <2>2
<1> QED
  BY <1>1, <1>2, <1>3, <1>4, <1>5, <1>6, <1>7, <1>8, <1>9, <1>10, <1>11,
     <1>12, <1>13, <1>14, <1>15, <1>16 DEF Next, MakerStep

\* A name that loses its object is unlinked, or becomes a leftover.
LEMMA LeftoverStep == NamesInv /\ [Next]_vars => NothingLeftBehind'
<1> SUFFICES ASSUME NamesInv, [Next]_vars
             PROVE  NothingLeftBehind'
  OBVIOUS
<1>t. /\ holds \in [Makers -> [Slots -> Sems \cup {None}]] /\ point \in [Makers -> Points]
      /\ cvName \in [Makers -> CvNames] /\ linked \in [Names -> Sems \cup {None}]
      /\ slot \in [Makers -> Slots] /\ 0 \in Slots
  BY DEF NamesInv, TypeOK, Slots
<1>h. HoldsMatch /\ NothingLeftBehind
  BY DEF NamesInv
<1> USE <1>t, <1>h DEF NothingLeftBehind, NameOf
<1>1. CASE UNCHANGED vars
  BY <1>1 DEF vars, makerVars
<1>2. CASE Tick
  BY <1>2 DEF Tick, makerVars
<1>3. ASSUME NEW m \in Makers, ConstructPool(m)
      PROVE  NothingLeftBehind'
  BY <1>3 DEF ConstructPool, MakerGoes
<1>4. ASSUME NEW m \in Makers, Unlink(m)
      PROVE  NothingLeftBehind'
  <2>1. /\ linked' = [linked EXCEPT ![PoolName(slot[m])] = None]
        /\ leftover' = {n \in leftover : linked'[n] # None}
        /\ UNCHANGED <<kind, holds, cvName>>
    BY <1>4 DEF Unlink, ForgetUnlinked, ClearName
  <2> QED
    BY <2>1
<1>5. ASSUME NEW m \in Makers, Open(m)
      PROVE  NothingLeftBehind'
  <2> DEFINE s == OpenSem(PoolName(slot[m]))
  <2>1. /\ linked' = [linked EXCEPT ![PoolName(slot[m])] = s]
        /\ holds' = [holds EXCEPT ![m][slot[m]] = s]
        /\ UNCHANGED <<kind, cvName, leftover>> /\ kind = "pool"
    BY <1>5 DEF Open, MakerGoes, HoldsMatch, HoldsOf
  <2>2. s \in Sems /\ s # None
    BY <1>5, OpenSemIsASem DEF Sems, None
  <2>3. /\ holds'[m][slot[m]] # None
        /\ \A k \in Makers, i \in Slots : holds[k][i] # None => holds'[k][i] # None
    BY <2>1, <2>2
  <2>4. \A n \in Names : n # PoolName(slot[m]) => linked'[n] = linked[n]
    BY <2>1
  <2> QED
    BY <2>1, <2>3, <2>4
<1>6. ASSUME NEW m \in Makers, OpenFails(m)
      PROVE  NothingLeftBehind'
  <2>1. /\ holds' = [holds EXCEPT ![m] = NoSems]
        /\ leftover' = leftover \cup {PoolName(i) : i \in 0..(slot[m] - 1)}
        /\ UNCHANGED <<kind, linked, cvName>> /\ kind = "pool"
        /\ \A i \in Slots : holds[m][i] # None => i < slot[m]
    BY <1>6 DEF OpenFails, MakerGoes, HoldsMatch, HoldsOf
  <2>2. \A i \in Slots : holds[m][i] # None => PoolName(i) \in leftover'
    <3>1. \A i \in Slots : i < slot[m] => i \in 0..(slot[m] - 1)
      BY DEF Slots
    <3> QED
      BY <2>1, <3>1
  <2>3. \A k \in Makers : k # m => holds'[k] = holds[k]
    BY <2>1
  <2> QED
    BY <2>1, <2>2, <2>3
<1>7. ASSUME NEW m \in Makers, DestroyPool(m)
      PROVE  NothingLeftBehind'
  BY <1>7 DEF DestroyPool, MakerGoes
<1>8. ASSUME NEW m \in Makers, DestroySemaphore(m)
      PROVE  NothingLeftBehind'
  <2>1. /\ linked' = [linked EXCEPT ![PoolName(slot[m])] = None]
        /\ leftover' = {n \in leftover : linked'[n] # None}
        /\ holds' = [holds EXCEPT ![m][slot[m]] = None]
        /\ UNCHANGED <<kind, cvName>> /\ kind = "pool"
    BY <1>8 DEF DestroySemaphore, MakerGoes, ForgetUnlinked, RemoveName, HoldsMatch, HoldsOf
  <2>2. \A k \in Makers, i \in Slots : holds[k][i] # None =>
           holds'[k][i] # None \/ i = slot[m]
    BY <2>1
  <2>3. \A n \in Names : linked'[n] # None => linked[n] # None /\ n # PoolName(slot[m])
    BY <2>1
  <2> QED
    BY <2>1, <2>2, <2>3
<1>9. ASSUME NEW m \in Makers, ConstructCondVar(m)
      PROVE  NothingLeftBehind'
  BY <1>9 DEF ConstructCondVar, MakerGoes
<1>10. ASSUME NEW m \in Makers, DrawName(m)
      PROVE  NothingLeftBehind'
  <2>1. /\ holds[m] = NoSems
        /\ \A k \in Makers : k # m => cvName'[k] = cvName[k]
        /\ UNCHANGED <<kind, linked, holds, leftover>>
    BY <1>10 DEF DrawName, MakerGoes, HoldsMatch, HoldsOf
  <2> QED
    BY <2>1 DEF NoSems
<1>11. ASSUME NEW m \in Makers, NameExists(m)
      PROVE  NothingLeftBehind'
  BY <1>11 DEF NameExists, MakerGoes
<1>12. ASSUME NEW m \in Makers, OpenCondVar(m)
      PROVE  NothingLeftBehind'
  <2> DEFINE s == OpenSem(cvName[m])
  <2>1. /\ linked' = [linked EXCEPT ![cvName[m]] = s]
        /\ holds' = [holds EXCEPT ![m][0] = s]
        /\ UNCHANGED <<kind, cvName, leftover>> /\ kind = "condvar"
    BY <1>12 DEF OpenCondVar, MakerGoes, HoldsMatch, HoldsOf
  <2>2. s \in Sems /\ s # None
    BY <1>12, OpenSemIsASem DEF Sems, None
  <2>3. /\ holds'[m][0] # None
        /\ \A k \in Makers, i \in Slots : holds[k][i] # None => holds'[k][i] # None
    BY <2>1, <2>2
  <2>4. \A n \in Names : n # cvName[m] => linked'[n] = linked[n]
    BY <2>1
  <2> QED
    BY <2>1, <2>3, <2>4
<1>13. ASSUME NEW m \in Makers, OpenCondVarFails(m)
      PROVE  NothingLeftBehind'
  <2>1. /\ holds[m] = NoSems
        /\ \A k \in Makers : k # m => cvName'[k] = cvName[k]
        /\ UNCHANGED <<kind, linked, holds, leftover>>
    BY <1>13 DEF OpenCondVarFails, MakerGoes, HoldsMatch, HoldsOf
  <2> QED
    BY <2>1 DEF NoSems
<1>14. ASSUME NEW m \in Makers, NoMoreRetries(m)
      PROVE  NothingLeftBehind'
  <2>1. /\ holds[m] = NoSems
        /\ \A k \in Makers : k # m => cvName'[k] = cvName[k]
        /\ UNCHANGED <<kind, linked, holds, leftover>>
    BY <1>14 DEF NoMoreRetries, MakerGoes, HoldsMatch, HoldsOf
  <2> QED
    BY <2>1 DEF NoSems
<1>15. ASSUME NEW m \in Makers, DestroyCondVar(m)
      PROVE  NothingLeftBehind'
  <2>1. /\ linked' = [linked EXCEPT ![cvName[m]] = None]
        /\ holds' = [holds EXCEPT ![m] = NoSems]
        /\ cvName' = [cvName EXCEPT ![m] = NoName]
        /\ UNCHANGED <<kind, leftover>> /\ kind = "condvar"
    BY <1>15 DEF DestroyCondVar, RemoveName
  <2>2. \A n \in Names : linked'[n] # None => linked[n] # None /\ n # cvName[m]
    BY <2>1
  <2>3. \A k \in Makers : k # m => holds'[k] = holds[k] /\ cvName'[k] = cvName[k]
    BY <2>1
  <2> QED
    BY <2>1, <2>2, <2>3
<1>16. ASSUME NEW p \in Procs, Crash(p)
      PROVE  NothingLeftBehind'
  <2>1. /\ UNCHANGED <<kind, linked>> /\ leftover \subseteq leftover'
        /\ \A k \in Makers : ProcOf[k] # p => holds'[k] = holds[k] /\ cvName'[k] = cvName[k]
    BY <1>16, CrashResets
  <2>2. \A k \in Makers, i \in Slots :
           ProcOf[k] = p /\ holds[k][i] # None => NameOf(k, i) \in leftover'
    BY <1>16, CrashResets
  <2> SUFFICES ASSUME NEW n \in Names, linked[n] # None, n \notin leftover'
               PROVE  \E k \in Makers, i \in Slots : NameOf(k, i)' = n /\ holds'[k][i] # None
    BY <2>1
  <2>3. PICK k \in Makers, i \in Slots : NameOf(k, i) = n /\ holds[k][i] # None
    BY <2>1
  <2>4. ProcOf[k] # p
    BY <2>2, <2>3
  <2> QED
    BY <2>1, <2>3, <2>4
<1> QED
  BY <1>1, <1>2, <1>3, <1>4, <1>5, <1>6, <1>7, <1>8, <1>9, <1>10, <1>11,
     <1>12, <1>13, <1>14, <1>15, <1>16 DEF Next, MakerStep

-----------------------------------------------------------------------------
\* There are not more tries than the bound on the names says.
LEMMA TriesFinite ==
    ASSUME NEW S \in SUBSET (Makers \X Tries)
    PROVE  IsFiniteSet(S) /\ Cardinality(S) \in Nat /\ Cardinality(S) <= MaxSuffix
<1>1. IsFiniteSet(Tries) /\ Cardinality(Tries) = MaxRetries - 1
  <2>1. PICK a \in Nat : a = MaxRetries - 1
    BY Bounds
  <2> QED
    BY <2>1, FS_Interval DEF Tries
<1>2. /\ IsFiniteSet(Makers \X Tries)
      /\ Cardinality(Makers \X Tries) = Cardinality(Makers) * (MaxRetries - 1)
  BY <1>1, NamesAssumption, FS_Product
<1>3. Cardinality(Makers) * (MaxRetries - 1) = MaxSuffix
  <2>1. \A a, b \in Nat : a * b = b * a
    OBVIOUS
  <2> QED
    BY <2>1, Bounds DEF MaxSuffix
<1> QED
  BY <1>2, <1>3, FS_Subset, FS_CardinalityType

\* What is spent is some of the tries there are, before a step and after it.
LEMMA SpentFinite ==
    ASSUME NEW p
    PROVE  /\ IsFiniteSet(Spent(p)) /\ Cardinality(Spent(p)) \in Nat
           /\ Cardinality(Spent(p)) <= MaxSuffix
           /\ IsFiniteSet(Spent(p)') /\ Cardinality(Spent(p)') \in Nat
           /\ Cardinality(Spent(p)') <= MaxSuffix
<1>1. Spent(p) \in SUBSET (Makers \X Tries) /\ Spent(p)' \in SUBSET (Makers \X Tries)
  BY DEF Spent, MakersOf
<1> QED
  BY <1>1, TriesFinite

\* rand() is drawn from by makers that pay for it, and begins again for those
\* that have new retries.
LEMMA DrawsStep == NamesInv /\ [Next]_vars => DrawsArePaid'
<1> SUFFICES ASSUME NamesInv, [Next]_vars
             PROVE  DrawsArePaid'
  OBVIOUS
<1>t. /\ rand \in [Procs -> [second : 0..MaxSecond, drawn : 0..MaxSuffix]]
      /\ retries \in [Makers -> 0..MaxRetries] /\ DrawsArePaid
  BY DEF NamesInv, TypeOK
<1>b. MaxSuffix \in Nat /\ MaxRetries \in Nat
  BY Bounds, NamesAssumption
<1>f. ASSUME \A p \in Procs :
                \/ rand'[p].drawn = 0
                \/ rand'[p] = rand[p] /\ \A k \in MakersOf(p) : retries'[k] \in 0..retries[k]
      PROVE  DrawsArePaid'
  <2> SUFFICES ASSUME NEW p \in Procs
               PROVE  rand'[p].drawn <= Cardinality(Spent(p)')
    BY DEF DrawsArePaid
  <2>1. CASE rand'[p].drawn = 0
    BY <2>1, SpentFinite
  <2>2. CASE rand'[p] = rand[p] /\ \A k \in MakersOf(p) : retries'[k] \in 0..retries[k]
    <3>1. Spent(p) \subseteq Spent(p)'
      <4> SUFFICES ASSUME NEW k \in MakersOf(p), NEW j \in Tries, j >= retries[k]
                   PROVE  j >= retries'[k]
        BY DEF Spent
      <4>1. retries[k] \in 0..MaxRetries /\ retries'[k] \in 0..retries[k] /\ j \in Int
        BY <1>t, <2>2 DEF MakersOf, Tries
      <4> QED
        BY <4>1, <1>b
    <3>2. Cardinality(Spent(p)) <= Cardinality(Spent(p)')
      BY <3>1, SpentFinite, FS_Subset
    <3>3. rand[p].drawn \in Nat /\ rand[p].drawn <= Cardinality(Spent(p))
      BY <1>t, <1>b DEF DrawsArePaid
    <3> QED
      BY <2>2, <3>2, <3>3, SpentFinite
  <2> QED
    BY <1>f, <2>1, <2>2
<1>k. \A k \in Makers : retries[k] \in 0..retries[k] /\ 0 \in 0..retries[k]
  BY <1>t, <1>b
<1>1. CASE UNCHANGED vars
  BY <1>1, <1>f, <1>k DEF vars, makerVars, MakersOf
<1>2. CASE Tick
  BY <1>2, <1>f, <1>k DEF Tick, makerVars, MakersOf
<1>3. ASSUME NEW m \in Makers, ConstructPool(m)
      PROVE  DrawsArePaid'
  BY <1>3, <1>f, <1>k DEF ConstructPool, MakersOf
<1>4. ASSUME NEW m \in Makers, Unlink(m)
      PROVE  DrawsArePaid'
  BY <1>4, <1>f, <1>k DEF Unlink, MakersOf
<1>5. ASSUME NEW m \in Makers, Open(m)
      PROVE  DrawsArePaid'
  BY <1>5, <1>f, <1>k DEF Open, MakersOf
<1>6. ASSUME NEW m \in Makers, OpenFails(m)
      PROVE  DrawsArePaid'
  BY <1>6, <1>f, <1>k DEF OpenFails, MakersOf
<1>7. ASSUME NEW m \in Makers, DestroyPool(m)
      PROVE  DrawsArePaid'
  BY <1>7, <1>f, <1>k DEF DestroyPool, MakersOf
<1>8. ASSUME NEW m \in Makers, DestroySemaphore(m)
      PROVE  DrawsArePaid'
  BY <1>8, <1>f, <1>k DEF DestroySemaphore, MakersOf
<1>9. ASSUME NEW m \in Makers, ConstructCondVar(m)
      PROVE  DrawsArePaid'
  <2>1. /\ retries' = [retries EXCEPT ![m] = MaxRetries]
        /\ rand' = [rand EXCEPT ![ProcOf[m]] = [second |-> clock, drawn |-> 0]]
    BY <1>9 DEF ConstructCondVar
  <2>2. ASSUME NEW p \in Procs
        PROVE  \/ rand'[p].drawn = 0
               \/ rand'[p] = rand[p] /\ \A k \in MakersOf(p) : retries'[k] \in 0..retries[k]
    <3>1. CASE p = ProcOf[m]
      BY <1>t, <2>1, <3>1
    <3>2. CASE p # ProcOf[m]
      BY <1>t, <1>k, <2>1, <3>2 DEF MakersOf
    <3> QED
      BY <3>1, <3>2
  <2> QED
    BY <1>f, <2>2
<1>10. ASSUME NEW m \in Makers, DrawName(m)
      PROVE  DrawsArePaid'
  <2> DEFINE q == ProcOf[m]
             r == retries[m] - 1
  <2>1. /\ retries' = [retries EXCEPT ![m] = r] /\ retries[m] > 1
        /\ rand' = [rand EXCEPT ![q].drawn = rand[q].drawn + 1]
    BY <1>10 DEF DrawName, Draw, TriesLeft
  <2>2. q \in Procs /\ m \in MakersOf(q) /\ r \in Tries /\ retries[m] \in 0..MaxRetries
    <3>1. retries[m] \in 0..MaxRetries
      BY <1>t
    <3>2. r \in Tries
      BY <1>b, <2>1, <3>1 DEF Tries
    <3> QED
      BY <3>1, <3>2, NamesAssumption DEF MakersOf
  <2> SUFFICES ASSUME NEW p \in Procs
               PROVE  rand'[p].drawn <= Cardinality(Spent(p)')
    BY DEF DrawsArePaid
  <2>3. CASE p # q
    <3>1. rand'[p] = rand[p]
      BY <1>t, <2>1, <2>3
    <3>2. \A k \in MakersOf(p) : retries'[k] = retries[k]
      BY <1>t, <2>1, <2>3 DEF MakersOf
    <3>3. Spent(p)' = Spent(p)
      BY <3>2 DEF Spent, MakersOf
    <3> QED
      BY <1>t, <3>1, <3>3 DEF DrawsArePaid
  <2>4. CASE p = q
    <3>1. Spent(q)' = Spent(q) \cup {<<m, r>>}
      <4>1. ASSUME NEW k \in MakersOf(q), NEW j \in Tries
            PROVE  j >= retries'[k] <=> j >= retries[k] \/ (k = m /\ j = r)
        <5>1. CASE k = m
          BY <1>t, <1>b, <2>1, <2>2, <5>1 DEF Tries
        <5>2. CASE k # m
          BY <1>t, <2>1, <5>2 DEF MakersOf
        <5> QED
          BY <5>1, <5>2
      <4>2. MakersOf(q)' = MakersOf(q)
        BY DEF MakersOf
      <4> QED
        BY <2>2, <4>1, <4>2 DEF Spent
    <3>2. <<m, r>> \notin Spent(q)
      BY <1>b, <2>2 DEF Spent
    <3>3. Cardinality(Spent(q)') = Cardinality(Spent(q)) + 1
      BY <3>1, <3>2, SpentFinite, FS_AddElement
    <3>4. rand'[q].drawn = rand[q].drawn + 1 /\ rand[q].drawn \in Nat
      BY <1>t, <1>b, <2>1, <2>2
    <3> QED
      BY <2>2, <2>4, <3>3, <3>4, <1>t, SpentFinite DEF DrawsArePaid
  <2> QED
    BY <2>3, <2>4
<1>11. ASSUME NEW m \in Makers, NameExists(m)
      PROVE  DrawsArePaid'
  BY <1>11, <1>f, <1>k DEF NameExists, MakersOf
<1>12. ASSUME NEW m \in Makers, OpenCondVar(m)
      PROVE  DrawsArePaid'
  <2>1. retries' = [retries EXCEPT ![m] = 0] /\ rand' = rand
    BY <1>12 DEF OpenCondVar, ConstructorEnds
  <2>2. \A k \in Makers : retries'[k] \in 0..retries[k]
    BY <1>t, <1>k, <2>1
  <2> QED
    BY <1>f, <2>1, <2>2 DEF MakersOf
<1>13. ASSUME NEW m \in Makers, OpenCondVarFails(m)
      PROVE  DrawsArePaid'
  <2>1. retries' = [retries EXCEPT ![m] = 0] /\ rand' = rand
    BY <1>13 DEF OpenCondVarFails, ConstructorEnds
  <2>2. \A k \in Makers : retries'[k] \in 0..retries[k]
    BY <1>t, <1>k, <2>1
  <2> QED
    BY <1>f, <2>1, <2>2 DEF MakersOf
<1>14. ASSUME NEW m \in Makers, NoMoreRetries(m)
      PROVE  DrawsArePaid'
  <2>1. retries' = [retries EXCEPT ![m] = 0] /\ rand' = rand
    BY <1>14 DEF NoMoreRetries
  <2>2. \A k \in Makers : retries'[k] \in 0..retries[k]
    BY <1>t, <1>k, <2>1
  <2> QED
    BY <1>f, <2>1, <2>2 DEF MakersOf
<1>15. ASSUME NEW m \in Makers, DestroyCondVar(m)
      PROVE  DrawsArePaid'
  BY <1>15, <1>f, <1>k DEF DestroyCondVar, MakersOf
<1>16. ASSUME NEW p \in Procs, Crash(p)
      PROVE  DrawsArePaid'
  <2>1. /\ rand' = [rand EXCEPT ![p] = [second |-> 0, drawn |-> 0]]
        /\ \A k \in Makers : ProcOf[k] # p => retries'[k] = retries[k]
    BY <1>16, CrashResets
  <2>2. ASSUME NEW q \in Procs
        PROVE  \/ rand'[q].drawn = 0
               \/ rand'[q] = rand[q] /\ \A k \in MakersOf(q) : retries'[k] \in 0..retries[k]
    <3>1. CASE q = p
      BY <1>t, <2>1, <3>1
    <3>2. CASE q # p
      BY <1>t, <1>k, <2>1, <3>2 DEF MakersOf
    <3> QED
      BY <3>1, <3>2
  <2> QED
    BY <1>f, <2>2
<1> QED
  BY <1>1, <1>2, <1>3, <1>4, <1>5, <1>6, <1>7, <1>8, <1>9, <1>10, <1>11,
     <1>12, <1>13, <1>14, <1>15, <1>16 DEF Next, MakerStep

\* The values of rand() after the same srand() are taken to differ.
LEMMA NamesDiffer ==
    ASSUME NEW s, NEW k \in Nat, NEW l \in Nat, CvName(s, k) = CvName(s, l)
    PROVE  k = l
  BY DEF CvName

\* Each try of a constructor draws a name that was not drawn before.
LEMMA TriesStep == NamesInv /\ [Next]_vars => TriesDiffer'
<1> SUFFICES ASSUME NamesInv, [Next]_vars
             PROVE  TriesDiffer'
  OBVIOUS
<1>t. /\ rand \in [Procs -> [second : 0..MaxSecond, drawn : 0..MaxSuffix]]
      /\ retries \in [Makers -> 0..MaxRetries] /\ point \in [Makers -> Points]
      /\ tried \in [Makers -> SUBSET CvNames] /\ reseeded \in [Makers -> BOOLEAN]
  BY DEF NamesInv, TypeOK
<1>h. TriesDiffer
  BY DEF NamesInv
<1>b. MaxSuffix \in Nat /\ MaxRetries \in Nat /\ \A m \in Makers : ProcOf[m] \in Procs
  BY Bounds, NamesAssumption
<1>f. ASSUME NEW k \in Makers,
             \/ point'[k] \notin {"draw", "open_cv"}
             \/ /\ point[k] \in {"draw", "open_cv"}
                /\ retries'[k] = retries[k] /\ tried'[k] = tried[k]
                /\ \/ reseeded'[k]
                   \/ /\ reseeded'[k] = reseeded[k]
                      /\ Drawn(ProcOf[k]) \subseteq Drawn(ProcOf[k])'
      PROVE  TriesOf(k)'
  BY <1>f, <1>h DEF TriesDiffer, TriesOf
<1> USE DEF TriesDiffer
<1>1. CASE UNCHANGED vars
  BY <1>1, <1>f DEF vars, makerVars, Drawn
<1>2. CASE Tick
  BY <1>2, <1>f DEF Tick, makerVars, Drawn
<1>3. ASSUME NEW m \in Makers, ConstructPool(m)
      PROVE  TriesDiffer'
  <2>1. /\ rand' = rand
        /\ \A k \in Makers : k # m =>
              /\ point'[k] = point[k] /\ retries'[k] = retries[k]
              /\ tried'[k] = tried[k] /\ reseeded'[k] = reseeded[k]
        /\ \/ point'[m] \notin {"draw", "open_cv"}
           \/ /\ point[m] \in {"draw", "open_cv"} /\ UNCHANGED <<retries, tried, reseeded>>
    BY <1>3, <1>t DEF ConstructPool, MakerGoes
  <2>2. \A k \in Makers : Drawn(ProcOf[k])' = Drawn(ProcOf[k])
    BY <2>1 DEF Drawn
  <2> QED
    BY <1>f, <2>1, <2>2
<1>4. ASSUME NEW m \in Makers, Unlink(m)
      PROVE  TriesDiffer'
  <2>1. /\ rand' = rand
        /\ \A k \in Makers : k # m =>
              /\ point'[k] = point[k] /\ retries'[k] = retries[k]
              /\ tried'[k] = tried[k] /\ reseeded'[k] = reseeded[k]
        /\ \/ point'[m] \notin {"draw", "open_cv"}
           \/ /\ point[m] \in {"draw", "open_cv"} /\ UNCHANGED <<retries, tried, reseeded>>
    BY <1>4, <1>t DEF Unlink, MakerGoes
  <2>2. \A k \in Makers : Drawn(ProcOf[k])' = Drawn(ProcOf[k])
    BY <2>1 DEF Drawn
  <2> QED
    BY <1>f, <2>1, <2>2
<1>5. ASSUME NEW m \in Makers, Open(m)
      PROVE  TriesDiffer'
  <2>1. /\ rand' = rand
        /\ \A k \in Makers : k # m =>
              /\ point'[k] = point[k] /\ retries'[k] = retries[k]
              /\ tried'[k] = tried[k] /\ reseeded'[k] = reseeded[k]
        /\ \/ point'[m] \notin {"draw", "open_cv"}
           \/ /\ point[m] \in {"draw", "open_cv"} /\ UNCHANGED <<retries, tried, reseeded>>
    BY <1>5, <1>t DEF Open, MakerGoes
  <2>2. \A k \in Makers : Drawn(ProcOf[k])' = Drawn(ProcOf[k])
    BY <2>1 DEF Drawn
  <2> QED
    BY <1>f, <2>1, <2>2
<1>6. ASSUME NEW m \in Makers, OpenFails(m)
      PROVE  TriesDiffer'
  <2>1. /\ rand' = rand
        /\ \A k \in Makers : k # m =>
              /\ point'[k] = point[k] /\ retries'[k] = retries[k]
              /\ tried'[k] = tried[k] /\ reseeded'[k] = reseeded[k]
        /\ \/ point'[m] \notin {"draw", "open_cv"}
           \/ /\ point[m] \in {"draw", "open_cv"} /\ UNCHANGED <<retries, tried, reseeded>>
    BY <1>6, <1>t DEF OpenFails, MakerGoes
  <2>2. \A k \in Makers : Drawn(ProcOf[k])' = Drawn(ProcOf[k])
    BY <2>1 DEF Drawn
  <2> QED
    BY <1>f, <2>1, <2>2
<1>7. ASSUME NEW m \in Makers, DestroyPool(m)
      PROVE  TriesDiffer'
  <2>1. /\ rand' = rand
        /\ \A k \in Makers : k # m =>
              /\ point'[k] = point[k] /\ retries'[k] = retries[k]
              /\ tried'[k] = tried[k] /\ reseeded'[k] = reseeded[k]
        /\ \/ point'[m] \notin {"draw", "open_cv"}
           \/ /\ point[m] \in {"draw", "open_cv"} /\ UNCHANGED <<retries, tried, reseeded>>
    BY <1>7, <1>t DEF DestroyPool, MakerGoes
  <2>2. \A k \in Makers : Drawn(ProcOf[k])' = Drawn(ProcOf[k])
    BY <2>1 DEF Drawn
  <2> QED
    BY <1>f, <2>1, <2>2
<1>8. ASSUME NEW m \in Makers, DestroySemaphore(m)
      PROVE  TriesDiffer'
  <2>1. /\ rand' = rand
        /\ \A k \in Makers : k # m =>
              /\ point'[k] = point[k] /\ retries'[k] = retries[k]
              /\ tried'[k] = tried[k] /\ reseeded'[k] = reseeded[k]
        /\ \/ point'[m] \notin {"draw", "open_cv"}
           \/ /\ point[m] \in {"draw", "open_cv"} /\ UNCHANGED <<retries, tried, reseeded>>
    BY <1>8, <1>t DEF DestroySemaphore, MakerGoes
  <2>2. \A k \in Makers : Drawn(ProcOf[k])' = Drawn(ProcOf[k])
    BY <2>1 DEF Drawn
  <2> QED
    BY <1>f, <2>1, <2>2
<1>9. ASSUME NEW m \in Makers, ConstructCondVar(m)
      PROVE  TriesDiffer'
  <2> DEFINE q == ProcOf[m]
  <2>1. /\ point' = [point EXCEPT ![m] = "draw"]
        /\ retries' = [retries EXCEPT ![m] = MaxRetries]
        /\ rand' = [rand EXCEPT ![q] = [second |-> clock, drawn |-> 0]]
        /\ tried' = [tried EXCEPT ![m] = {}]
        /\ \A k \in Makers : k # m =>
              reseeded'[k] = (reseeded[k] \/ (k \in Siblings(m)
                                               /\ point[k] \in {"draw", "open_cv"}))
    BY <1>9 DEF ConstructCondVar, MakerGoes
  <2> SUFFICES ASSUME NEW k \in Makers
               PROVE  TriesOf(k)'
    OBVIOUS
  <2>2. CASE k = m
    <3>1. retries'[m] = MaxRetries /\ tried'[m] = {}
      BY <1>t, <2>1
    <3>2. IsFiniteSet({}) /\ Cardinality({}) = 0
      BY FS_EmptySet
    <3> QED
      BY <2>2, <3>1, <3>2, <1>b, NamesAssumption DEF TriesOf
  <2>3. CASE k # m /\ ProcOf[k] = q
    BY <1>f, <1>t, <2>1, <2>3 DEF Siblings
  <2>4. CASE k # m /\ ProcOf[k] # q
    <3>1. rand'[ProcOf[k]] = rand[ProcOf[k]]
      BY <1>t, <1>b, <2>1, <2>4
    <3>2. Drawn(ProcOf[k])' = Drawn(ProcOf[k])
      BY <3>1 DEF Drawn
    <3>3. reseeded'[k] = reseeded[k]
      BY <1>t, <2>1, <2>4 DEF Siblings
    <3> QED
      BY <1>f, <1>t, <2>1, <2>4, <3>2, <3>3
  <2> QED
    BY <2>2, <2>3, <2>4
<1>10. ASSUME NEW m \in Makers, DrawName(m)
      PROVE  TriesDiffer'
  <2> DEFINE q == ProcOf[m]
             d == rand[q].drawn
             n == CvName(rand[q].second, d + 1)
  <2>1. /\ point[m] = "draw" /\ point' = [point EXCEPT ![m] = "open_cv"]
        /\ retries[m] > 1 /\ retries' = [retries EXCEPT ![m] = retries[m] - 1]
        /\ rand' = [rand EXCEPT ![q].drawn = d + 1]
        /\ reseeded' = reseeded
    BY <1>10 DEF DrawName, MakerGoes, Draw, TriesLeft
  <2>2. /\ q \in Procs /\ d \in Nat
        /\ rand'[q].second = rand[q].second /\ rand'[q].drawn = d + 1
        /\ \A p \in Procs : p # q => rand'[p] = rand[p]
    BY <1>t, <1>b, <2>1
  <2>3. tried' = [tried EXCEPT ![m] = tried[m] \cup {n}]
    <3>1. cvName' = [cvName EXCEPT ![m] = n]
      BY <1>10, <2>2 DEF DrawName
    <3>2. cvName'[m] = n
      BY <3>1 DEF NamesInv, TypeOK
    <3> QED
      BY <1>10, <3>2 DEF DrawName
  <2>4. Drawn(q)' = Drawn(q) \cup {n} /\ n \notin Drawn(q)
    <3>1. 1..(d + 1) = 1..d \cup {d + 1}
      BY <2>2
    <3>2. Drawn(q)' = {CvName(rand[q].second, k) : k \in 1..(d + 1)}
      BY <2>2 DEF Drawn
    <3>3. n \notin Drawn(q)
      BY <2>2, NamesDiffer DEF Drawn
    <3> QED
      BY <3>1, <3>2, <3>3 DEF Drawn
  <2> SUFFICES ASSUME NEW k \in Makers
               PROVE  TriesOf(k)'
    OBVIOUS
  <2>5. CASE k = m
    <3>1. retries[m] \in Nat /\ retries'[m] = retries[m] - 1 /\ retries'[m] >= 1
      BY <1>t, <1>b, <2>1
    <3>2. tried'[m] = tried[m] \cup {n} /\ reseeded'[m] = reseeded[m]
      BY <1>t, <2>1, <2>3
    <3>3. ASSUME ~reseeded[m]
          PROVE  /\ IsFiniteSet(tried'[m])
                 /\ Cardinality(tried'[m]) = MaxRetries - retries'[m]
                 /\ tried'[m] \subseteq Drawn(q)'
      <4>1. /\ IsFiniteSet(tried[m]) /\ Cardinality(tried[m]) = MaxRetries - retries[m]
            /\ tried[m] \subseteq Drawn(q)
        BY <1>h, <2>1, <3>3 DEF TriesOf
      <4>2. n \notin tried[m]
        BY <2>4, <4>1
      <4>3. IsFiniteSet(tried'[m]) /\ Cardinality(tried'[m]) = Cardinality(tried[m]) + 1
        BY <3>2, <4>1, <4>2, FS_AddElement
      <4> QED
        BY <1>b, <2>4, <3>1, <3>2, <4>1, <4>3
    <3> QED
      BY <2>5, <3>1, <3>2, <3>3 DEF TriesOf
  <2>6. CASE k # m
    <3>1. Drawn(ProcOf[k]) \subseteq Drawn(ProcOf[k])'
      <4>1. CASE ProcOf[k] = q
        BY <2>4, <4>1
      <4>2. CASE ProcOf[k] # q
        BY <1>b, <2>2, <4>2 DEF Drawn
      <4> QED
        BY <4>1, <4>2
    <3> QED
      BY <1>f, <1>t, <2>1, <2>3, <2>6, <3>1
  <2> QED
    BY <2>5, <2>6
<1>11. ASSUME NEW m \in Makers, NameExists(m)
      PROVE  TriesDiffer'
  <2>1. /\ rand' = rand
        /\ \A k \in Makers : k # m =>
              /\ point'[k] = point[k] /\ retries'[k] = retries[k]
              /\ tried'[k] = tried[k] /\ reseeded'[k] = reseeded[k]
        /\ \/ point'[m] \notin {"draw", "open_cv"}
           \/ /\ point[m] \in {"draw", "open_cv"} /\ UNCHANGED <<retries, tried, reseeded>>
    BY <1>11, <1>t DEF NameExists, MakerGoes
  <2>2. \A k \in Makers : Drawn(ProcOf[k])' = Drawn(ProcOf[k])
    BY <2>1 DEF Drawn
  <2> QED
    BY <1>f, <2>1, <2>2
<1>12. ASSUME NEW m \in Makers, OpenCondVar(m)
      PROVE  TriesDiffer'
  <2>1. /\ rand' = rand
        /\ \A k \in Makers : k # m =>
              /\ point'[k] = point[k] /\ retries'[k] = retries[k]
              /\ tried'[k] = tried[k] /\ reseeded'[k] = reseeded[k]
        /\ \/ point'[m] \notin {"draw", "open_cv"}
           \/ /\ point[m] \in {"draw", "open_cv"} /\ UNCHANGED <<retries, tried, reseeded>>
    BY <1>12, <1>t DEF OpenCondVar, MakerGoes, ConstructorEnds
  <2>2. \A k \in Makers : Drawn(ProcOf[k])' = Drawn(ProcOf[k])
    BY <2>1 DEF Drawn
  <2> QED
    BY <1>f, <2>1, <2>2
<1>13. ASSUME NEW m \in Makers, OpenCondVarFails(m)
      PROVE  TriesDiffer'
  <2>1. /\ rand' = rand
        /\ \A k \in Makers : k # m =>
              /\ point'[k] = point[k] /\ retries'[k] = retries[k]
              /\ tried'[k] = tried[k] /\ reseeded'[k] = reseeded[k]
        /\ \/ point'[m] \notin {"draw", "open_cv"}
           \/ /\ point[m] \in {"draw", "open_cv"} /\ UNCHANGED <<retries, tried, reseeded>>
    BY <1>13, <1>t DEF OpenCondVarFails, MakerGoes, ConstructorEnds
  <2>2. \A k \in Makers : Drawn(ProcOf[k])' = Drawn(ProcOf[k])
    BY <2>1 DEF Drawn
  <2> QED
    BY <1>f, <2>1, <2>2
<1>14. ASSUME NEW m \in Makers, NoMoreRetries(m)
      PROVE  TriesDiffer'
  <2>1. /\ rand' = rand
        /\ \A k \in Makers : k # m =>
              /\ point'[k] = point[k] /\ retries'[k] = retries[k]
              /\ tried'[k] = tried[k] /\ reseeded'[k] = reseeded[k]
        /\ \/ point'[m] \notin {"draw", "open_cv"}
           \/ /\ point[m] \in {"draw", "open_cv"} /\ UNCHANGED <<retries, tried, reseeded>>
    BY <1>14, <1>t DEF NoMoreRetries, MakerGoes
  <2>2. \A k \in Makers : Drawn(ProcOf[k])' = Drawn(ProcOf[k])
    BY <2>1 DEF Drawn
  <2> QED
    BY <1>f, <2>1, <2>2
<1>15. ASSUME NEW m \in Makers, DestroyCondVar(m)
      PROVE  TriesDiffer'
  <2>1. /\ rand' = rand
        /\ \A k \in Makers : k # m =>
              /\ point'[k] = point[k] /\ retries'[k] = retries[k]
              /\ tried'[k] = tried[k] /\ reseeded'[k] = reseeded[k]
        /\ \/ point'[m] \notin {"draw", "open_cv"}
           \/ /\ point[m] \in {"draw", "open_cv"} /\ UNCHANGED <<retries, tried, reseeded>>
    BY <1>15, <1>t DEF DestroyCondVar, MakerGoes
  <2>2. \A k \in Makers : Drawn(ProcOf[k])' = Drawn(ProcOf[k])
    BY <2>1 DEF Drawn
  <2> QED
    BY <1>f, <2>1, <2>2
<1>16. ASSUME NEW p \in Procs, Crash(p)
      PROVE  TriesDiffer'
  <2> SUFFICES ASSUME NEW k \in Makers
               PROVE  TriesOf(k)'
    OBVIOUS
  <2>1. CASE ProcOf[k] = p
    <3>1. point'[k] = "out"
      BY <1>16, <2>1, CrashResets
    <3> QED
      BY <1>f, <3>1
  <2>2. CASE ProcOf[k] # p
    <3>1. /\ rand' = [rand EXCEPT ![p] = [second |-> 0, drawn |-> 0]]
          /\ point'[k] = point[k] /\ retries'[k] = retries[k]
          /\ tried'[k] = tried[k] /\ reseeded'[k] = reseeded[k]
      BY <1>16, <2>2, CrashResets
    <3>2. rand'[ProcOf[k]] = rand[ProcOf[k]]
      BY <1>t, <1>b, <2>2, <3>1
    <3>3. Drawn(ProcOf[k])' = Drawn(ProcOf[k])
      BY <3>2 DEF Drawn
    <3> QED
      BY <1>f, <3>1, <3>3
  <2> QED
    BY <2>1, <2>2
<1> QED
  BY <1>1, <1>2, <1>3, <1>4, <1>5, <1>6, <1>7, <1>8, <1>9, <1>10, <1>11,
     <1>12, <1>13, <1>14, <1>15, <1>16 DEF Next, MakerStep

\* A constructor gives up after its last try.
LEMMA GivesUpStep == NamesInv /\ [Next]_vars => GivesUpOnlyWhenCrowded'
<1> SUFFICES ASSUME NamesInv, [Next]_vars
             PROVE  GivesUpOnlyWhenCrowded'
  OBVIOUS
<1>t. /\ retries \in [Makers -> 0..MaxRetries] /\ point \in [Makers -> Points]
      /\ tried \in [Makers -> SUBSET CvNames] /\ reseeded \in [Makers -> BOOLEAN]
  BY DEF NamesInv, TypeOK
<1>h. TriesDiffer /\ GivesUpOnlyWhenCrowded
  BY DEF NamesInv
<1> USE <1>t, <1>h DEF GivesUpOnlyWhenCrowded
<1>1. CASE UNCHANGED vars
  BY <1>1 DEF vars, makerVars
<1>2. CASE Tick
  BY <1>2 DEF Tick, makerVars
<1>3. ASSUME NEW m \in Makers, ConstructPool(m)
      PROVE  GivesUpOnlyWhenCrowded'
  BY <1>3 DEF ConstructPool, MakerGoes
<1>4. ASSUME NEW m \in Makers, Unlink(m)
      PROVE  GivesUpOnlyWhenCrowded'
  BY <1>4 DEF Unlink, ForgetUnlinked, ClearName, MakerGoes
<1>5. ASSUME NEW m \in Makers, Open(m)
      PROVE  GivesUpOnlyWhenCrowded'
  BY <1>5 DEF Open, MakerGoes
<1>6. ASSUME NEW m \in Makers, OpenFails(m)
      PROVE  GivesUpOnlyWhenCrowded'
  BY <1>6 DEF OpenFails, MakerGoes
<1>7. ASSUME NEW m \in Makers, DestroyPool(m)
      PROVE  GivesUpOnlyWhenCrowded'
  BY <1>7 DEF DestroyPool, MakerGoes
<1>8. ASSUME NEW m \in Makers, DestroySemaphore(m)
      PROVE  GivesUpOnlyWhenCrowded'
  BY <1>8 DEF DestroySemaphore, ForgetUnlinked, RemoveName, MakerGoes
<1>9. ASSUME NEW m \in Makers, ConstructCondVar(m)
      PROVE  GivesUpOnlyWhenCrowded'
  <2>1. /\ point' = [point EXCEPT ![m] = "draw"]
        /\ tried' = [tried EXCEPT ![m] = {}]
        /\ \A k \in Makers : k # m /\ point[k] = "gave_up" => reseeded'[k] = reseeded[k]
    BY <1>9 DEF ConstructCondVar, MakerGoes
  <2> QED
    BY <2>1
<1>10. ASSUME NEW m \in Makers, DrawName(m)
      PROVE  GivesUpOnlyWhenCrowded'
  BY <1>10 DEF DrawName, MakerGoes
<1>11. ASSUME NEW m \in Makers, NameExists(m)
      PROVE  GivesUpOnlyWhenCrowded'
  BY <1>11 DEF NameExists, MakerGoes
<1>12. ASSUME NEW m \in Makers, OpenCondVar(m)
      PROVE  GivesUpOnlyWhenCrowded'
  BY <1>12 DEF OpenCondVar, ConstructorEnds, MakerGoes
<1>13. ASSUME NEW m \in Makers, OpenCondVarFails(m)
      PROVE  GivesUpOnlyWhenCrowded'
  BY <1>13 DEF OpenCondVarFails, ConstructorEnds, MakerGoes
<1>14. ASSUME NEW m \in Makers, NoMoreRetries(m)
      PROVE  GivesUpOnlyWhenCrowded'
  <2>1. /\ point[m] = "draw" /\ point' = [point EXCEPT ![m] = "gave_up"]
        /\ ~(retries[m] > 1) /\ UNCHANGED <<tried, reseeded>>
    BY <1>14 DEF NoMoreRetries, MakerGoes, TriesLeft
  <2>2. ~reseeded[m] => Cardinality(tried[m]) = MaxRetries - 1
    <3>1. retries[m] \in Nat /\ retries[m] = 1
      BY <2>1, NamesAssumption DEF TriesDiffer, TriesOf
    <3> QED
      BY <2>1, <3>1 DEF TriesDiffer, TriesOf
  <2> QED
    BY <2>1, <2>2
<1>15. ASSUME NEW m \in Makers, DestroyCondVar(m)
      PROVE  GivesUpOnlyWhenCrowded'
  BY <1>15 DEF DestroyCondVar, RemoveName, MakerGoes
<1>16. ASSUME NEW p \in Procs, Crash(p)
      PROVE  GivesUpOnlyWhenCrowded'
  <2>1. \A k \in Makers : \/ point'[k] = "out"
                         \/ /\ point'[k] = point[k] /\ tried'[k] = tried[k]
                            /\ reseeded'[k] = reseeded[k]
    BY <1>16, CrashResets
  <2> QED
    BY <2>1
<1> QED
  BY <1>1, <1>2, <1>3, <1>4, <1>5, <1>6, <1>7, <1>8, <1>9, <1>10, <1>11,
     <1>12, <1>13, <1>14, <1>15, <1>16 DEF Next, MakerStep

-----------------------------------------------------------------------------
\* The types, in three parts.
SemTypes ==
    /\ kind \in {"pool", "condvar"}
    /\ linked \in [Names -> Sems \cup {None}]
    /\ holds \in [Makers -> [Slots -> Sems \cup {None}]]
    /\ point \in [Makers -> Points]
    /\ slot \in [Makers -> Slots]
    /\ old \in [Makers -> SUBSET PoolNames]
    /\ leftover \subseteq Names

DrawTypes ==
    /\ cvName \in [Makers -> CvNames]
    /\ retries \in [Makers -> 0..MaxRetries]
    /\ rand \in [Procs -> [second : 0..MaxSecond, drawn : 0..MaxSuffix]]
    /\ clock \in 0..MaxSecond
    /\ crashes \in 0..MaxCrashes
    /\ tried \in [Makers -> SUBSET CvNames]

SeedTypes == reseeded \in [Makers -> BOOLEAN]

\* Every name refers to a semaphore or to none.
LEMMA SemTypesStep == NamesInv /\ [Next]_vars => SemTypes'
<1> SUFFICES ASSUME NamesInv, [Next]_vars
             PROVE  SemTypes'
  OBVIOUS
<1>t. SemTypes /\ HoldsMatch
  BY DEF NamesInv, TypeOK, SemTypes
<1>n. /\ \A i \in Slots : PoolName(i) \in PoolNames
      /\ PoolNames \subseteq Names /\ CvNames \subseteq Names
      /\ NoSems \in [Slots -> Sems \cup {None}]
      /\ cvName \in [Makers -> CvNames]
  BY DEF PoolNames, Names, NoSems, NamesInv, TypeOK
<1> USE <1>t, <1>n DEF SemTypes, Points, Slots
<1>1. CASE UNCHANGED vars
  BY <1>1 DEF vars, makerVars
<1>2. CASE Tick
  BY <1>2 DEF Tick, makerVars
<1>3. ASSUME NEW m \in Makers, ConstructPool(m)
      PROVE  SemTypes'
  BY <1>3 DEF ConstructPool, MakerGoes
<1>4. ASSUME NEW m \in Makers, Unlink(m)
      PROVE  SemTypes'
  BY <1>4 DEF Unlink, ForgetUnlinked, ClearName, MakerGoes
<1>5. ASSUME NEW m \in Makers, Open(m)
      PROVE  SemTypes'
  <2> DEFINE s == OpenSem(PoolName(slot[m]))
  <2>1. s \in Sems
    BY <1>5, OpenSemIsASem
  <2> QED
    BY <1>5, <2>1 DEF Open, MakerGoes
<1>6. ASSUME NEW m \in Makers, OpenFails(m)
      PROVE  SemTypes'
  <2>1. \A i \in 0..(slot[m] - 1) : PoolName(i) \in Names
    OBVIOUS
  <2> QED
    BY <1>6, <2>1 DEF OpenFails, MakerGoes
<1>7. ASSUME NEW m \in Makers, DestroyPool(m)
      PROVE  SemTypes'
  BY <1>7 DEF DestroyPool, MakerGoes
<1>8. ASSUME NEW m \in Makers, DestroySemaphore(m)
      PROVE  SemTypes'
  BY <1>8 DEF DestroySemaphore, ForgetUnlinked, RemoveName, MakerGoes
<1>9. ASSUME NEW m \in Makers, ConstructCondVar(m)
      PROVE  SemTypes'
  BY <1>9 DEF ConstructCondVar, MakerGoes
<1>10. ASSUME NEW m \in Makers, DrawName(m)
      PROVE  SemTypes'
  BY <1>10 DEF DrawName, MakerGoes
<1>11. ASSUME NEW m \in Makers, NameExists(m)
      PROVE  SemTypes'
  BY <1>11 DEF NameExists, MakerGoes
<1>12. ASSUME NEW m \in Makers, OpenCondVar(m)
      PROVE  SemTypes'
  <2> DEFINE s == OpenSem(cvName[m])
  <2>1. s \in Sems
    BY <1>12, OpenSemIsASem
  <2> QED
    BY <1>12, <2>1 DEF OpenCondVar, MakerGoes
<1>13. ASSUME NEW m \in Makers, OpenCondVarFails(m)
      PROVE  SemTypes'
  BY <1>13 DEF OpenCondVarFails, ConstructorEnds, MakerGoes
<1>14. ASSUME NEW m \in Makers, NoMoreRetries(m)
      PROVE  SemTypes'
  BY <1>14 DEF NoMoreRetries, MakerGoes
<1>15. ASSUME NEW m \in Makers, DestroyCondVar(m)
      PROVE  SemTypes'
  BY <1>15 DEF DestroyCondVar, RemoveName, MakerGoes
<1>16. ASSUME NEW p \in Procs, Crash(p)
      PROVE  SemTypes'
  <2>1. UNCHANGED <<kind, linked>>
    BY <1>16 DEF Crash
  <2>2. point' \in [Makers -> Points] /\ slot' \in [Makers -> Slots]
    BY <1>16 DEF Crash
  <2>3. holds' \in [Makers -> [Slots -> Sems \cup {None}]]
    BY <1>16 DEF Crash
  <2>4. old' \in [Makers -> SUBSET PoolNames]
    BY <1>16 DEF Crash
  <2>5. leftover' \subseteq Names
    <3>1. \A k \in Makers, i \in Slots : NameOf(k, i) \in Names
      BY DEF NameOf
    <3> QED
      BY <1>16, <3>1 DEF Crash
  <2> QED
    BY <2>1, <2>2, <2>3, <2>4, <2>5
<1> QED
  BY <1>1, <1>2, <1>3, <1>4, <1>5, <1>6, <1>7, <1>8, <1>9, <1>10, <1>11,
     <1>12, <1>13, <1>14, <1>15, <1>16 DEF Next, MakerStep

\* No more names are drawn than there are retries to pay for them.
LEMMA DrawTypesStep == NamesInv /\ [Next]_vars => DrawTypes'
<1> SUFFICES ASSUME NamesInv, [Next]_vars
             PROVE  DrawTypes'
  OBVIOUS
<1>t. DrawTypes
  BY DEF NamesInv, TypeOK, DrawTypes
<1>b. /\ MaxSuffix \in Nat /\ MaxRetries \in Nat /\ MaxSecond \in Nat /\ MaxCrashes \in Nat
      /\ \A m \in Makers : ProcOf[m] \in Procs /\ NoName \in CvNames
  BY Bounds, NamesAssumption
<1> USE <1>t, <1>b DEF DrawTypes
<1>1. CASE UNCHANGED vars
  BY <1>1 DEF vars, makerVars
<1>2. CASE Tick
  BY <1>2 DEF Tick, makerVars
<1>3. ASSUME NEW m \in Makers, ConstructPool(m)
      PROVE  DrawTypes'
  BY <1>3 DEF ConstructPool, MakerGoes
<1>4. ASSUME NEW m \in Makers, Unlink(m)
      PROVE  DrawTypes'
  BY <1>4 DEF Unlink, ForgetUnlinked, ClearName, MakerGoes
<1>5. ASSUME NEW m \in Makers, Open(m)
      PROVE  DrawTypes'
  BY <1>5 DEF Open, MakerGoes
<1>6. ASSUME NEW m \in Makers, OpenFails(m)
      PROVE  DrawTypes'
  BY <1>6 DEF OpenFails, MakerGoes
<1>7. ASSUME NEW m \in Makers, DestroyPool(m)
      PROVE  DrawTypes'
  BY <1>7 DEF DestroyPool, MakerGoes
<1>8. ASSUME NEW m \in Makers, DestroySemaphore(m)
      PROVE  DrawTypes'
  BY <1>8 DEF DestroySemaphore, ForgetUnlinked, RemoveName, MakerGoes
<1>9. ASSUME NEW m \in Makers, ConstructCondVar(m)
      PROVE  DrawTypes'
  BY <1>9 DEF ConstructCondVar, MakerGoes
<1>10. ASSUME NEW m \in Makers, DrawName(m)
      PROVE  DrawTypes'
  <2> DEFINE q == ProcOf[m]
             d == rand[q].drawn
             n == CvName(rand[q].second, d + 1)
  <2>1. /\ retries[m] > 1 /\ retries' = [retries EXCEPT ![m] = retries[m] - 1]
        /\ rand' = [rand EXCEPT ![q].drawn = d + 1]
        /\ UNCHANGED <<clock, crashes>>
    BY <1>10 DEF DrawName, Draw, TriesLeft
  <2>2. /\ q \in Procs /\ d \in Nat /\ rand[q].second \in 0..MaxSecond
        /\ rand'[q].second = rand[q].second /\ rand'[q].drawn = d + 1
    BY <2>1
  <2>3. d + 1 \in 1..MaxSuffix
    <3>1. DrawsArePaid'
      BY DrawsStep
    <3>2. d + 1 <= Cardinality(Spent(q)')
      BY <2>2, <3>1 DEF DrawsArePaid
    <3>3. Cardinality(Spent(q)') \in Nat /\ Cardinality(Spent(q)') <= MaxSuffix
      BY SpentFinite
    <3> QED
      BY <2>2, <3>2, <3>3
  <2>4. n \in CvNames
    BY <2>2, <2>3 DEF CvNames
  <2>5. cvName' = [cvName EXCEPT ![m] = n]
    BY <1>10, <2>2 DEF DrawName
  <2>6. tried' = [tried EXCEPT ![m] = tried[m] \cup {n}]
    BY <1>10, <2>5 DEF DrawName
  <2>7. retries' \in [Makers -> 0..MaxRetries]
    BY <2>1
  <2>8. rand' \in [Procs -> [second : 0..MaxSecond, drawn : 0..MaxSuffix]]
    BY <2>1, <2>2, <2>3
  <2> QED
    BY <2>1, <2>4, <2>5, <2>6, <2>7, <2>8
<1>11. ASSUME NEW m \in Makers, NameExists(m)
      PROVE  DrawTypes'
  BY <1>11 DEF NameExists, MakerGoes
<1>12. ASSUME NEW m \in Makers, OpenCondVar(m)
      PROVE  DrawTypes'
  BY <1>12 DEF OpenCondVar, ConstructorEnds
<1>13. ASSUME NEW m \in Makers, OpenCondVarFails(m)
      PROVE  DrawTypes'
  BY <1>13 DEF OpenCondVarFails, ConstructorEnds, MakerGoes
<1>14. ASSUME NEW m \in Makers, NoMoreRetries(m)
      PROVE  DrawTypes'
  BY <1>14 DEF NoMoreRetries, MakerGoes
<1>15. ASSUME NEW m \in Makers, DestroyCondVar(m)
      PROVE  DrawTypes'
  BY <1>15 DEF DestroyCondVar, RemoveName, MakerGoes
<1>16. ASSUME NEW p \in Procs, Crash(p)
      PROVE  DrawTypes'
  <2>1. /\ cvName' \in [Makers -> CvNames] /\ retries' \in [Makers -> 0..MaxRetries]
        /\ tried' \in [Makers -> SUBSET CvNames]
    BY <1>16 DEF Crash
  <2>2. /\ crashes < MaxCrashes /\ crashes' = crashes + 1 /\ clock' = clock
        /\ rand' = [rand EXCEPT ![p] = [second |-> 0, drawn |-> 0]]
    BY <1>16, CrashResets
  <2> QED
    BY <2>1, <2>2
<1> QED
  BY <1>1, <1>2, <1>3, <1>4, <1>5, <1>6, <1>7, <1>8, <1>9, <1>10, <1>11,
     <1>12, <1>13, <1>14, <1>15, <1>16 DEF Next, MakerStep

\* Whether rand() has begun again is known for every maker.
LEMMA SeedTypesStep == NamesInv /\ [Next]_vars => SeedTypes'
<1> SUFFICES ASSUME NamesInv, [Next]_vars
             PROVE  SeedTypes'
  OBVIOUS
<1>t. SeedTypes
  BY DEF NamesInv, TypeOK, SeedTypes
<1> USE <1>t DEF SeedTypes
<1>1. CASE UNCHANGED vars
  BY <1>1 DEF vars, makerVars
<1>2. CASE Tick
  BY <1>2 DEF Tick, makerVars
<1>3. ASSUME NEW m \in Makers, ConstructPool(m)
      PROVE  SeedTypes'
  BY <1>3 DEF ConstructPool
<1>4. ASSUME NEW m \in Makers, Unlink(m)
      PROVE  SeedTypes'
  BY <1>4 DEF Unlink
<1>5. ASSUME NEW m \in Makers, Open(m)
      PROVE  SeedTypes'
  BY <1>5 DEF Open
<1>6. ASSUME NEW m \in Makers, OpenFails(m)
      PROVE  SeedTypes'
  BY <1>6 DEF OpenFails
<1>7. ASSUME NEW m \in Makers, DestroyPool(m)
      PROVE  SeedTypes'
  BY <1>7 DEF DestroyPool
<1>8. ASSUME NEW m \in Makers, DestroySemaphore(m)
      PROVE  SeedTypes'
  BY <1>8 DEF DestroySemaphore
<1>9. ASSUME NEW m \in Makers, ConstructCondVar(m)
      PROVE  SeedTypes'
  BY <1>9 DEF ConstructCondVar
<1>10. ASSUME NEW m \in Makers, DrawName(m)
      PROVE  SeedTypes'
  BY <1>10 DEF DrawName
<1>11. ASSUME NEW m \in Makers, NameExists(m)
      PROVE  SeedTypes'
  BY <1>11 DEF NameExists
<1>12. ASSUME NEW m \in Makers, OpenCondVar(m)
      PROVE  SeedTypes'
  BY <1>12 DEF OpenCondVar, ConstructorEnds
<1>13. ASSUME NEW m \in Makers, OpenCondVarFails(m)
      PROVE  SeedTypes'
  BY <1>13 DEF OpenCondVarFails, ConstructorEnds
<1>14. ASSUME NEW m \in Makers, NoMoreRetries(m)
      PROVE  SeedTypes'
  BY <1>14 DEF NoMoreRetries
<1>15. ASSUME NEW m \in Makers, DestroyCondVar(m)
      PROVE  SeedTypes'
  BY <1>15 DEF DestroyCondVar
<1>16. ASSUME NEW p \in Procs, Crash(p)
      PROVE  SeedTypes'
  BY <1>16 DEF Crash
<1> QED
  BY <1>1, <1>2, <1>3, <1>4, <1>5, <1>6, <1>7, <1>8, <1>9, <1>10, <1>11,
     <1>12, <1>13, <1>14, <1>15, <1>16 DEF Next, MakerStep

-----------------------------------------------------------------------------
\* At first no name is linked and nobody has anything.
LEMMA InitInv == Init => NamesInv
<1> SUFFICES ASSUME Init PROVE NamesInv
  OBVIOUS
<1> USE DEF Init
<1>1. SemTypes
  BY DEF SemTypes, NoSems, Points, Slots
<1>2. DrawTypes
  BY Bounds, NamesAssumption DEF DrawTypes
<1>3. SeedTypes
  BY DEF SeedTypes
<1>4. TypeOK
  BY <1>1, <1>2, <1>3 DEF TypeOK, SemTypes, DrawTypes, SeedTypes
<1>5. HoldsMatch
  BY DEF HoldsMatch, HoldsOf, NoSems
<1>6. PoolsAreFresh /\ NamesAreOwned /\ NothingLeftBehind
  BY DEF PoolsAreFresh, NamesAreOwned, NothingLeftBehind
<1>7. DrawsArePaid
  BY SpentFinite DEF DrawsArePaid
<1>8. TriesDiffer /\ GivesUpOnlyWhenCrowded
  BY DEF TriesDiffer, TriesOf, GivesUpOnlyWhenCrowded
<1> QED
  BY <1>4, <1>5, <1>6, <1>7, <1>8 DEF NamesInv

\* The inductive invariant holds in every state.
LEMMA Invariance == Spec => []NamesInv
<1>1. NamesInv /\ [Next]_vars => NamesInv'
  <2> SUFFICES ASSUME NamesInv, [Next]_vars
               PROVE  NamesInv'
    OBVIOUS
  <2>1. TypeOK'
    BY SemTypesStep, DrawTypesStep, SeedTypesStep
       DEF TypeOK, SemTypes, DrawTypes, SeedTypes
  <2> QED
    BY <2>1, HoldsStep, FreshStep, OwnedStep, LeftoverStep, DrawsStep, TriesStep,
       GivesUpStep DEF NamesInv
<1> QED
  BY <1>1, InitInv, PTL DEF Spec

-----------------------------------------------------------------------------
\* Every name refers to a semaphore or to none, and no process draws more
\* names than its constructors have retries.
THEOREM TypeCorrect == Spec => []TypeOK
<1>1. NamesInv => TypeOK
  BY DEF NamesInv
<1> QED
  BY <1>1, Invariance, PTL

\* semaphore_create: no pool works with a semaphore that was there before its
\* constructor was called, however many processes construct, destroy and crash.
THEOREM FreshStartHolds == Spec => []FreshStart
<1>1. NamesInv => FreshStart
  BY DEF NamesInv, PoolsAreFresh, FreshStart
<1> QED
  BY <1>1, Invariance, PTL

\* PosixSemaphoreConditionVariable: the name of a condition variable refers to
\* its semaphore and to that of no other, as long as it exists.
THEOREM CondVarOwnsItsNameHolds == Spec => []CondVarOwnsItsName
<1>1. NamesInv => CondVarOwnsItsName
  <2> SUFFICES ASSUME NamesInv, kind = "condvar", NEW m \in Makers, point[m] = "alive"
               PROVE  /\ linked[cvName[m]] = holds[m][0]
                      /\ \A n \in Makers \ {m} :
                            cvName[n] = cvName[m] => holds[n][0] # holds[m][0]
    BY DEF CondVarOwnsItsName
  <2>1. /\ linked[cvName[m]] = holds[m][0]
        /\ \A n \in Makers \ {m} : point[n] = "alive" => cvName[n] # cvName[m]
    BY DEF NamesInv, NamesAreOwned
  <2>2. holds[m][0] # None
    BY DEF NamesInv, HoldsMatch, HoldsOf, Slots
  <2>3. \A n \in Makers : point[n] # "alive" => holds[n][0] = None
    BY DEF NamesInv, TypeOK, HoldsMatch, HoldsOf, Points, Slots, NoSems
  <2> QED
    BY <2>1, <2>2, <2>3
<1> QED
  BY <1>1, Invariance, PTL

\* semaphore_destroy and the destructor of the condition variable: a name stays
\* in the system only for an object that will unlink it, or because a process
\* crashed or a constructor threw.
THEOREM NothingLeftBehindHolds == Spec => []NothingLeftBehind
<1>1. NamesInv => NothingLeftBehind
  BY DEF NamesInv
<1> QED
  BY <1>1, Invariance, PTL

\* The constructor of the condition variable gives up only after as many
\* different names as it has tries, unless another thread calls srand().
THEOREM GivesUpOnlyWhenCrowdedHolds == Spec => []GivesUpOnlyWhenCrowded
<1>1. NamesInv => GivesUpOnlyWhenCrowded
  BY DEF NamesInv
<1> QED
  BY <1>1, Invariance, PTL
=============================================================================
