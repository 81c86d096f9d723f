--------------------------- MODULE BarrierProofs ---------------------------
(***************************************************************************)
(* Theorems about Barrier.tla, for any finite set of workers and any       *)
(* controllers.                                                            *)
(*                                                                         *)
(* The heart of the argument is BarrierInv.  Its interesting step is the   *)
(* release: the contract says that as many threads are halted on the       *)
(* active semaphore as use the barrier at all, so nobody is left on the    *)
(* other one, whose value is then zero, and it can become the active one.  *)
(***************************************************************************)
EXTENDS Barrier, FiniteSetTheorems, TLAPS

\* Posts are owed only while a controller holds the mutex.
PostsUnderMutex == MutexFree => posts = 0

BarrierInv == BarrierTypeOK /\ TokensMatchThreads /\ PostsUnderMutex

-----------------------------------------------------------------------------
LEMMA NextSemFacts ==
    ASSUME NEW s \in Sems
    PROVE  /\ NextSem(s) \in Sems
           /\ NextSem(s) # s
           /\ NextSem(NextSem(s)) = s
           /\ \A t \in Sems : t # s => t = NextSem(s)
BY DEF NextSem, Sems

LEMMA WaitingFinite ==
    ASSUME NEW s
    PROVE  /\ IsFiniteSet(Waiting(s))
           /\ Cardinality(Waiting(s)) \in Nat
<1>1. Waiting(s) \subseteq Workers
  BY DEF Waiting
<1> QED
  BY <1>1, BarrierAssumption, FS_Subset, FS_CardinalityType

LEMMA AttachedFinite ==
    /\ IsFiniteSet(Attached)
    /\ Cardinality(Attached) \in Nat
<1>1. Attached \subseteq Workers
  BY DEF Attached
<1> QED
  BY <1>1, BarrierAssumption, FS_Subset, FS_CardinalityType

\* If at least as many threads are halted on the active semaphore as use the
\* barrier, then all of them are, and none is on the other semaphore.
LEMMA FullBarrier ==
    ASSUME BarrierTypeOK, TokensMatchThreads,
           Cardinality(Attached) <= onBarrier
    PROVE  /\ Attached = Waiting(active)
           /\ Waiting(NextSem(active)) = {}
<1>1. Waiting(active) \subseteq Attached
  BY DEF Waiting, Attached, BarrierTypeOK, Sems
<1>2. Cardinality(Waiting(active)) = onBarrier
  BY DEF TokensMatchThreads
<1>3. Cardinality(Waiting(active)) <= Cardinality(Attached)
  BY <1>1, AttachedFinite, FS_Subset
<1>4. Cardinality(Waiting(active)) = Cardinality(Attached)
  BY <1>2, <1>3, AttachedFinite DEF BarrierTypeOK
<1>5. Attached = Waiting(active)
  BY <1>1, <1>4, AttachedFinite, FS_Subset
<1>6. \A w \in Waiting(NextSem(active)) : w \in Attached /\ w \notin Waiting(active)
  BY NextSemFacts DEF Waiting, Attached, BarrierTypeOK, Sems
<1> QED
  BY <1>5, <1>6

-----------------------------------------------------------------------------
\* BarrierTypeOK is inductive on its own: sem_wait never goes below zero and
\* nothing else is subtracted from.
LEMMA TypeStep == BarrierTypeOK /\ [BarrierNext]_barrierVars => BarrierTypeOK'
<1> SUFFICES ASSUME BarrierTypeOK, [BarrierNext]_barrierVars
             PROVE  BarrierTypeOK'
  OBVIOUS
<1> USE DEF BarrierTypeOK, Places, Calls
<1>1. ASSUME NEW w \in Workers, Attach(w) PROVE BarrierTypeOK'
  BY <1>1 DEF Attach
<1>2. ASSUME NEW w \in Workers, Detach(w) PROVE BarrierTypeOK'
  BY <1>2 DEF Detach
<1>3. ASSUME NEW w \in Workers, Arrive(w) PROVE BarrierTypeOK'
  BY <1>3 DEF Arrive, SignalOne
<1>4. ASSUME NEW w \in Workers, SemWait(w) PROVE BarrierTypeOK'
  BY <1>4 DEF SemWait, TokenFor
<1>5. ASSUME NEW c \in Controllers, NEW n \in 0..Cardinality(Workers),
             SetNoThreads(c, n)
      PROVE  BarrierTypeOK'
  BY <1>5, BarrierAssumption, FS_CardinalityType DEF SetNoThreads
<1>6. ASSUME NEW c \in Controllers, WaitForAll(c) PROVE BarrierTypeOK'
  BY <1>6 DEF WaitForAll
<1>7. ASSUME NEW c \in Controllers, Check(c) PROVE BarrierTypeOK'
  BY <1>7 DEF Check
<1>8. ASSUME NEW c \in Controllers, SpuriousWake(c) PROVE BarrierTypeOK'
  BY <1>8 DEF SpuriousWake
<1>9. ASSUME NEW c \in Controllers, NEW call \in {"post", "post_wait"},
             Release(c, call)
      PROVE  BarrierTypeOK'
  BY <1>9, NextSemFacts DEF Release, ReleaseBody, PostsOfRelease
<1>10. ASSUME NEW c \in Controllers, PostOne(c) PROVE BarrierTypeOK'
  BY <1>10, NextSemFacts DEF PostOne, PrevSem
<1>11. ASSUME NEW c \in Controllers, ReleaseDone(c) PROVE BarrierTypeOK'
  BY <1>11 DEF ReleaseDone
<1>12. CASE UNCHANGED barrierVars
  BY <1>12 DEF barrierVars
<1> QED
  BY <1>1, <1>2, <1>3, <1>4, <1>5, <1>6, <1>7, <1>8, <1>9, <1>10, <1>11,
     <1>12 DEF BarrierNext, WorkerStep, ControllerStep

\* No thread is attached to the barrier at first and no token is out.
LEMMA InitInv == BarrierInit => BarrierInv
<1> SUFFICES ASSUME BarrierInit PROVE BarrierInv
  OBVIOUS
<1>1. BarrierTypeOK
  BY DEF BarrierInit, BarrierTypeOK, Places, Calls, Sems
<1>2. Waiting(active) = {} /\ Waiting(NextSem(active)) = {}
  BY DEF BarrierInit, Waiting, NextSem
<1>3. Cardinality({}) = 0
  BY FS_EmptySet
<1>4. sem[active] = 0 /\ sem[NextSem(active)] = 0
  BY DEF BarrierInit, NextSem, Sems
<1>5. TokensMatchThreads
  BY <1>2, <1>3, <1>4 DEF BarrierInit, TokensMatchThreads
<1>6. PostsUnderMutex
  BY DEF BarrierInit, PostsUnderMutex
<1> QED
  BY <1>1, <1>5, <1>6 DEF BarrierInv

-----------------------------------------------------------------------------
\* What the steps of a worker do to the sets of halted threads.
LEMMA ArriveMoves ==
    ASSUME BarrierTypeOK, NEW w \in Workers, Arrive(w)
    PROVE  /\ w \notin Waiting(active)
           /\ Waiting(active)' = Waiting(active) \cup {w}
           /\ Waiting(NextSem(active))' = Waiting(NextSem(active))
<1>1. active' = active /\ at' = [at EXCEPT ![w] = active] /\ at[w] = "out"
  BY DEF Arrive
<1>2. active \in Sems /\ at \in [Workers -> Places]
  BY DEF BarrierTypeOK
<1>3. NextSem(active) # active /\ NextSem(active)' = NextSem(active)
  BY <1>1, <1>2, NextSemFacts DEF NextSem
<1>4. "out" \notin Sems
  BY DEF Sems
<1> QED
  BY <1>1, <1>2, <1>3, <1>4, NextSemFacts DEF Waiting

LEMMA SemWaitMoves ==
    ASSUME BarrierTypeOK, TokensMatchThreads, NEW w \in Workers, SemWait(w)
    PROVE  /\ at[w] = NextSem(active)
           /\ w \in Waiting(NextSem(active))
           /\ Waiting(active)' = Waiting(active)
           /\ Waiting(NextSem(active))' = Waiting(NextSem(active)) \ {w}
<1>1. /\ active' = active /\ at' = [at EXCEPT ![w] = "out"]
      /\ at[w] \in Sems /\ sem[at[w]] > 0
  BY DEF SemWait, TokenFor
<1>2. active \in Sems /\ at \in [Workers -> Places]
  BY DEF BarrierTypeOK
<1>3. at[w] # active
  BY <1>1 DEF TokensMatchThreads
<1>4. at[w] = NextSem(active)
  BY <1>1, <1>2, <1>3, NextSemFacts
<1>5. NextSem(active)' = NextSem(active)
  BY <1>1 DEF NextSem
<1>6. "out" \notin Sems
  BY DEF Sems
<1> QED
  BY <1>1, <1>2, <1>3, <1>4, <1>5, <1>6, NextSemFacts DEF Waiting

\* A step that leaves the semaphores, the places and the count alone keeps
\* the tokens in line with the threads.
LEMMA TokensFrame ==
    ASSUME TokensMatchThreads, UNCHANGED <<sem, active, onBarrier, at, posts>>
    PROVE  TokensMatchThreads'
BY DEF TokensMatchThreads, Waiting, NextSem

LEMMA TokensStep ==
    BarrierInv /\ [BarrierNext]_barrierVars => TokensMatchThreads'
<1> SUFFICES ASSUME BarrierInv, [BarrierNext]_barrierVars
             PROVE  TokensMatchThreads'
  OBVIOUS
<1>0. BarrierTypeOK /\ TokensMatchThreads /\ PostsUnderMutex
  BY DEF BarrierInv
<1>a. active \in Sems /\ sem \in [Sems -> Nat] /\ onBarrier \in Nat /\ posts \in Nat
  BY <1>0 DEF BarrierTypeOK
<1>b. NextSem(active) \in Sems /\ NextSem(active) # active
  BY <1>a, NextSemFacts
<1>1. ASSUME NEW w \in Workers, Attach(w) \/ Detach(w)
      PROVE  TokensMatchThreads'
  <2>1. UNCHANGED <<sem, active, onBarrier, posts>>
    BY <1>1 DEF Attach, Detach
  <2>2. \A s \in Sems : Waiting(s)' = Waiting(s)
    BY <1>0, <1>1 DEF Attach, Detach, Waiting, Sems, BarrierTypeOK
  <2>3. NextSem(active)' = NextSem(active)
    BY <2>1 DEF NextSem
  <2>4. Waiting(active)' = Waiting(active)
    BY <2>1, <2>2, <1>a DEF Waiting
  <2>5. Waiting(NextSem(active))' = Waiting(NextSem(active))
    BY <2>2, <2>3, <1>b DEF Waiting
  <2> QED
    BY <1>0, <2>1, <2>3, <2>4, <2>5 DEF TokensMatchThreads
<1>2. ASSUME NEW w \in Workers, Arrive(w) PROVE TokensMatchThreads'
  <2>1. /\ UNCHANGED <<sem, active, posts>>
        /\ onBarrier' = onBarrier + 1
        /\ NextSem(active)' = NextSem(active)
    BY <1>2 DEF Arrive, NextSem
  <2>2. Cardinality(Waiting(active))' = Cardinality(Waiting(active)) + 1
    BY <1>0, <1>2, ArriveMoves, WaitingFinite, FS_AddElement
  <2>3. Cardinality(Waiting(NextSem(active)))' = Cardinality(Waiting(NextSem(active)))
    BY <1>0, <1>2, ArriveMoves
  <2> QED
    BY <1>0, <2>1, <2>2, <2>3 DEF TokensMatchThreads
<1>3. ASSUME NEW w \in Workers, SemWait(w) PROVE TokensMatchThreads'
  <2>1. /\ UNCHANGED <<active, onBarrier, posts>>
        /\ NextSem(active)' = NextSem(active)
    BY <1>3 DEF SemWait, NextSem
  <2>2. at[w] = NextSem(active)
    BY <1>0, <1>3, SemWaitMoves
  <2>3. /\ sem'[active] = 0
        /\ sem'[NextSem(active)] = sem[NextSem(active)] - 1
    BY <1>0, <1>a, <1>b, <1>3, <2>2 DEF SemWait, TokenFor, TokensMatchThreads
  <2>4. Cardinality(Waiting(active))' = Cardinality(Waiting(active))
    BY <1>0, <1>3, SemWaitMoves
  <2>5. Cardinality(Waiting(NextSem(active)))'
            = Cardinality(Waiting(NextSem(active))) - 1
    BY <1>0, <1>3, SemWaitMoves, WaitingFinite, FS_RemoveElement
  <2> QED
    BY <1>0, <1>a, <1>b, <2>1, <2>3, <2>4, <2>5 DEF TokensMatchThreads
<1>4. ASSUME NEW c \in Controllers,
             \/ \E n \in 0..Cardinality(Workers) : SetNoThreads(c, n)
             \/ WaitForAll(c) \/ Check(c) \/ SpuriousWake(c) \/ ReleaseDone(c)
      PROVE  TokensMatchThreads'
  <2>1. UNCHANGED <<sem, active, onBarrier, at, posts>>
    BY <1>4 DEF SetNoThreads, WaitForAll, Check, SpuriousWake, ReleaseDone
  <2> QED
    BY <1>0, <2>1, TokensFrame
<1>5. ASSUME NEW c \in Controllers, NEW call \in {"post", "post_wait"},
             Release(c, call)
      PROVE  TokensMatchThreads'
  <2>1. /\ onBarrier = noThreads
        /\ Cardinality(Attached) <= onBarrier
        /\ MutexFree
        /\ onBarrier' = 0 /\ posts' = noThreads
        /\ active' = NextSem(active)
        /\ UNCHANGED <<sem, at>>
    BY <1>5 DEF Release, ReleaseBody, ReleaseContract, ReleaseAssertion,
                PostsOfRelease
  <2>2. Waiting(NextSem(active)) = {}
    BY <1>0, <2>1, FullBarrier
  <2>3. Cardinality(Waiting(NextSem(active))) = 0
    BY <2>2, FS_EmptySet
  <2>4. sem[NextSem(active)] = 0
    BY <1>0, <1>a, <1>b, <2>3 DEF TokensMatchThreads
  <2>5. NextSem(active)' = active
    BY <1>a, <2>1, NextSemFacts DEF NextSem
  <2>6. Waiting(active)' = Waiting(NextSem(active))
    BY <2>1 DEF Waiting
  <2>7. Waiting(NextSem(active))' = Waiting(active)
    BY <2>1, <2>5 DEF Waiting
  <2>8. onBarrier' = Cardinality(Waiting(active))' /\ sem[active]' = 0
    BY <2>1, <2>3, <2>4, <2>6
  <2>9. sem[NextSem(active)]' = 0
    BY <1>0, <2>1, <2>5 DEF TokensMatchThreads
  <2>10. Cardinality(Waiting(NextSem(active)))' = noThreads
    BY <1>0, <2>1, <2>7 DEF TokensMatchThreads
  <2>11. (sem[NextSem(active)] + posts)' = noThreads
    BY <1>a, <2>1, <2>9
  <2> QED
    BY <2>8, <2>10, <2>11 DEF TokensMatchThreads
<1>6. ASSUME NEW c \in Controllers, PostOne(c) PROVE TokensMatchThreads'
  <2>1. /\ UNCHANGED <<active, onBarrier, at>>
        /\ posts' = posts - 1
        /\ sem' = [sem EXCEPT ![NextSem(active)] = @ + 1]
        /\ NextSem(active)' = NextSem(active)
    BY <1>6 DEF PostOne, PrevSem, NextSem
  <2>2. Waiting(active)' = Waiting(active)
    BY <2>1 DEF Waiting
  <2>3. Waiting(NextSem(active))' = Waiting(NextSem(active))
    BY <2>1 DEF Waiting
  <2> QED
    BY <1>0, <1>a, <1>b, <2>1, <2>2, <2>3 DEF TokensMatchThreads
<1>7. CASE UNCHANGED barrierVars
  BY <1>0, <1>7, TokensFrame DEF barrierVars
<1> QED
  BY <1>1, <1>2, <1>3, <1>4, <1>5, <1>6, <1>7
  DEF BarrierNext, WorkerStep, ControllerStep

\* The mutex is released only when no post is left.
LEMMA PostsStep ==
    BarrierInv /\ [BarrierNext]_barrierVars => PostsUnderMutex'
<1> SUFFICES ASSUME BarrierInv, [BarrierNext]_barrierVars
             PROVE  PostsUnderMutex'
  OBVIOUS
<1>0. ctl \in [Controllers -> Calls] /\ PostsUnderMutex
  BY DEF BarrierInv, BarrierTypeOK
<1> USE DEF PostsUnderMutex, MutexFree, Releasing
<1>1. ASSUME NEW w \in Workers, WorkerStep(w) PROVE PostsUnderMutex'
  <2>1. CASE Attach(w) \/ Detach(w) \/ SemWait(w)
    BY <1>0, <2>1 DEF Attach, Detach, SemWait
  <2>2. CASE Arrive(w)
    BY <1>0, <2>2 DEF Arrive
  <2> QED
    BY <1>1, <2>1, <2>2 DEF WorkerStep
<1>2. ASSUME NEW c \in Controllers,
             \/ \E n \in 0..Cardinality(Workers) : SetNoThreads(c, n)
             \/ Check(c)
      PROVE  PostsUnderMutex'
  BY <1>0, <1>2 DEF SetNoThreads, Check
<1>3. ASSUME NEW c \in Controllers, WaitForAll(c) \/ SpuriousWake(c)
      PROVE  PostsUnderMutex'
  BY <1>0, <1>3 DEF WaitForAll, SpuriousWake
<1>4. ASSUME NEW c \in Controllers, NEW call \in {"post", "post_wait"},
             Release(c, call)
      PROVE  PostsUnderMutex'
  BY <1>0, <1>4 DEF Release, ReleaseBody
<1>5. ASSUME NEW c \in Controllers, PostOne(c) \/ ReleaseDone(c)
      PROVE  PostsUnderMutex'
  BY <1>0, <1>5 DEF PostOne, ReleaseDone
<1>6. CASE UNCHANGED barrierVars
  BY <1>0, <1>6 DEF barrierVars
<1> QED
  BY <1>1, <1>2, <1>3, <1>4, <1>5, <1>6 DEF BarrierNext, ControllerStep

-----------------------------------------------------------------------------
\* No semaphore is below zero and every variable stays in its range, whatever
\* the threads and controllers do.
THEOREM TypeCorrect == BarrierSpec => []BarrierTypeOK
<1>1. BarrierInit => BarrierTypeOK
  BY InitInv DEF BarrierInv
<1> QED
  BY <1>1, TypeStep, PTL DEF BarrierSpec

LEMMA Invariance == BarrierSpec => []BarrierInv
<1>1. BarrierInv /\ [BarrierNext]_barrierVars => BarrierInv'
  BY TypeStep, TokensStep, PostsStep DEF BarrierInv
<1> QED
  BY <1>1, InitInv, PTL DEF BarrierSpec

\* The two semaphores hold exactly the tokens of the threads that were
\* released and have not left yet: no wakeup is lost and none is left over.
THEOREM TokensAccounted == BarrierSpec => []TokensMatchThreads
<1>1. BarrierInv => TokensMatchThreads
  BY DEF BarrierInv
<1> QED
  BY <1>1, Invariance, PTL

-----------------------------------------------------------------------------
\* A thread leaves the sem_wait of wait() only by taking a token, and the
\* active semaphore has none.
THEOREM NoThreadRunsTwiceHolds == BarrierSpec => NoThreadRunsTwice
<1> DEFINE A == \A w \in Workers :
                   at[w] \in Sems /\ at'[w] \notin Sems => at[w] # active
<1>1. ASSUME BarrierInv, BarrierNext PROVE A
  <2>0. BarrierTypeOK /\ TokensMatchThreads
    BY <1>1 DEF BarrierInv
  <2> SUFFICES ASSUME NEW w \in Workers, at[w] \in Sems, at'[w] \notin Sems
               PROVE  at[w] # active
    OBVIOUS
  <2>a. at \in [Workers -> Places] /\ active \in Sems
    BY <2>0 DEF BarrierTypeOK
  <2>1. ASSUME NEW v \in Workers, WorkerStep(v) PROVE at[w] # active
    <3>1. CASE Attach(v) \/ Detach(v) \/ Arrive(v)
      <4>1. at[v] \notin Sems
        BY <3>1 DEF Attach, Detach, Arrive, Sems
      <4>2. v # w
        BY <4>1
      <4> QED
        BY <2>a, <3>1, <4>2 DEF Attach, Detach, Arrive
    <3>2. CASE SemWait(v)
      BY <2>0, <2>a, <3>2 DEF SemWait, TokenFor, TokensMatchThreads
    <3> QED
      BY <2>1, <3>1, <3>2 DEF WorkerStep
  <2>2. ASSUME NEW c \in Controllers, ControllerStep(c) PROVE at[w] # active
    <3>1. at' = at
      BY <2>2 DEF ControllerStep, SetNoThreads, WaitForAll, Check,
                  SpuriousWake, Release, ReleaseBody, PostOne, ReleaseDone
    <3> QED
      BY <3>1
  <2> QED
    BY <1>1, <2>1, <2>2 DEF BarrierNext
<1>2. BarrierInv /\ [BarrierNext]_barrierVars => [A]_barrierVars
  BY <1>1
<1> QED
  BY <1>2, Invariance, PTL DEF BarrierSpec, NoThreadRunsTwice

\* wait_for_all and release_and_wait return only at a complete count, which
\* is the number of threads halted on the active semaphore.
THEOREM ReturnMeansHaltedHolds == BarrierSpec => ReturnMeansHalted
<1> DEFINE A == \A c \in Controllers :
                   /\ ctl[c] \in {"check", "post_wait"}
                   /\ ctl'[c] = "out"
                   /\ Cardinality(Attached) <= noThreads
                   => Attached = Waiting(active)
<1>1. ASSUME BarrierInv, BarrierNext PROVE A
  <2>0. BarrierTypeOK /\ TokensMatchThreads
    BY <1>1 DEF BarrierInv
  <2> SUFFICES ASSUME NEW c \in Controllers,
                      ctl[c] \in {"check", "post_wait"}, ctl'[c] = "out",
                      Cardinality(Attached) <= noThreads
               PROVE  Attached = Waiting(active)
    OBVIOUS
  <2>a. ctl \in [Controllers -> Calls]
    BY <2>0 DEF BarrierTypeOK
  <2>1. ASSUME NEW w \in Workers, WorkerStep(w) PROVE FALSE
    <3>1. CASE Attach(w) \/ Detach(w) \/ SemWait(w)
      BY <3>1 DEF Attach, Detach, SemWait
    <3>2. CASE Arrive(w)
      BY <2>a, <3>2 DEF Arrive, SignalOne
    <3> QED
      BY <2>1, <3>1, <3>2 DEF WorkerStep
  <2>2. ASSUME NEW d \in Controllers, ControllerStep(d) PROVE AllHalted
    <3>1. CASE \E n \in 0..Cardinality(Workers) : SetNoThreads(d, n)
      BY <3>1 DEF SetNoThreads
    <3>2. CASE WaitForAll(d) \/ SpuriousWake(d)
      BY <2>a, <3>2 DEF WaitForAll, SpuriousWake
    <3>3. CASE Check(d)
      BY <2>a, <3>3 DEF Check
    <3>4. CASE \E call \in {"post", "post_wait"} : Release(d, call)
      BY <2>a, <3>4 DEF Release, ReleaseBody
    <3>5. CASE PostOne(d)
      BY <3>5 DEF PostOne
    <3>6. CASE ReleaseDone(d)
      BY <2>a, <3>6 DEF ReleaseDone, Releasing
    <3> QED
      BY <2>2, <3>1, <3>2, <3>3, <3>4, <3>5, <3>6 DEF ControllerStep
  <2>3. AllHalted
    BY <1>1, <2>1, <2>2 DEF BarrierNext
  <2>4. Cardinality(Attached) <= onBarrier
    BY <2>0, <2>3, AttachedFinite DEF AllHalted, BarrierTypeOK
  <2> QED
    BY <2>0, <2>4, FullBarrier
<1>2. BarrierInv /\ [BarrierNext]_barrierVars => [A]_barrierVars
  BY <1>1
<1> QED
  BY <1>2, Invariance, PTL DEF BarrierSpec, ReturnMeansHalted

-----------------------------------------------------------------------------
\* With one controller no step completes the count, or lowers what it is
\* compared with, without waking the controller if that is asleep: the
\* controller itself makes the calls that change _no_threads.
THEOREM NoLostWakeupHolds ==
    ASSUME \A c, d \in Controllers : c = d
    PROVE  BarrierSpec => []NoLostWakeup
<1> USE DEF NoLostWakeup, Sleepers, AllHalted
<1>1. BarrierInit => NoLostWakeup
  BY DEF BarrierInit
<1>2. BarrierTypeOK /\ NoLostWakeup /\ [BarrierNext]_barrierVars => NoLostWakeup'
  <2> SUFFICES ASSUME BarrierTypeOK, NoLostWakeup, [BarrierNext]_barrierVars
               PROVE  NoLostWakeup'
    OBVIOUS
  <2>0. ctl \in [Controllers -> Calls] /\ onBarrier \in Nat /\ noThreads \in Nat
    BY DEF BarrierTypeOK
  <2>1. ASSUME NEW w \in Workers, WorkerStep(w) PROVE NoLostWakeup'
    <3>1. CASE Attach(w) \/ Detach(w) \/ SemWait(w)
      BY <3>1 DEF Attach, Detach, SemWait
    <3>2. CASE Arrive(w)
      <4>1. CASE Sleepers = {}
        BY <2>0, <3>2, <4>1 DEF Arrive, SignalOne, LastToArrive
      <4>2. CASE Sleepers # {} /\ onBarrier + 1 >= noThreads
        <5>1. PICK c \in Sleepers : ctl' = [ctl EXCEPT ![c] = "check"]
          BY <3>2, <4>2 DEF Arrive, SignalOne, LastToArrive
        <5>2. \A d \in Controllers : ctl'[d] = "check"
          BY <2>0, <5>1
        <5> QED
          BY <5>2
      <4>3. CASE onBarrier + 1 < noThreads
        BY <2>0, <3>2, <4>3 DEF Arrive, LastToArrive
      <4> QED
        BY <2>0, <4>1, <4>2, <4>3
    <3> QED
      BY <2>1, <3>1, <3>2 DEF WorkerStep
  <2>2. ASSUME NEW c \in Controllers, ControllerStep(c) PROVE NoLostWakeup'
    <3>0. \A d \in Controllers : d = c
      OBVIOUS
    <3>1. CASE \E n \in 0..Cardinality(Workers) : SetNoThreads(c, n)
      BY <2>0, <3>0, <3>1 DEF SetNoThreads
    <3>2. CASE WaitForAll(c) \/ SpuriousWake(c)
      BY <2>0, <3>0, <3>2 DEF WaitForAll, SpuriousWake
    <3>3. CASE Check(c)
      BY <2>0, <3>0, <3>3 DEF Check
    <3>4. CASE \E call \in {"post", "post_wait"} : Release(c, call)
      BY <2>0, <3>0, <3>4 DEF Release, ReleaseBody
    <3>5. CASE PostOne(c)
      BY <2>0, <3>0, <3>5 DEF PostOne
    <3>6. CASE ReleaseDone(c)
      BY <2>0, <3>0, <3>6 DEF ReleaseDone
    <3> QED
      BY <2>2, <3>1, <3>2, <3>3, <3>4, <3>5, <3>6 DEF ControllerStep
  <2>3. CASE UNCHANGED barrierVars
    BY <2>3 DEF barrierVars
  <2> QED
    BY <2>1, <2>2, <2>3 DEF BarrierNext
<1> QED
  BY <1>1, <1>2, TypeCorrect, PTL DEF BarrierSpec
=============================================================================
