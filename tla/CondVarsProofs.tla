---------------------------- MODULE CondVarsProofs ----------------------------
(***************************************************************************)
(* What the four classes of condition variables promise, for queues of any *)
(* size and any number of retries of the EVL destructor.                   *)
(***************************************************************************)
EXTENDS CondVars, TLAPS

\* Each class has its own place to wait in, and its own queues.
RightWaiter ==
    /\ rtWaiter => kind = "evl"
    /\ waiter = "blocked" => kind \in {"std", "posix"}
    /\ waiter = "woken" => kind = "std"
    /\ waiter = "poll" => kind \in {"xenomai", "evl"} /\ ~rtWaiter
    /\ waiter = "read" => kind = "xenomai"
    /\ waiter = "oob_read" => kind = "evl" /\ rtWaiter
    /\ result = "waiting" <=> IsWaiting

\* One destructor puts a notify into a queue that may be full, and it does so
\* once.
RightQueues ==
    /\ queue["flag"] \in {0, 1}
    /\ queue["flag"] # 0 => kind = "std"
    /\ queue["sem"] # 0 => kind = "posix"
    /\ object = "alive" => queue["sem"] <= QueueSize
    /\ \A f \in Files : queue[f] <= QueueSize

\* What poll() has found ready is still in its file when it is read: nobody
\* else reads it.  What was read is counted until the wait returns.
RightReads ==
    /\ waiter # "read" => ready = {} /\ \A f \in Files : taken[f] = 0
    /\ \A f \in ready : queue[f] > 0 /\ taken[f] = 0

\* Only EVL objects are closed before they are freed, and the retries of the
\* destructor are the ticks that a waiter in poll() has aged since.
RightLife ==
    /\ object = "closed" => kind = "evl"
    /\ object = "alive" => retries = Retries
    /\ object = "closed" /\ waiter = "poll" => retries + age = Retries
    /\ object = "freed" /\ kind \in {"std", "xenomai"} => ~IsWaiting

\* The inductive invariant.
CondVarInv ==
    /\ TypeOK
    /\ RightWaiter
    /\ RightQueues
    /\ RightReads
    /\ RightLife
    /\ FreedAfterWaiter

-----------------------------------------------------------------------------
\* A waiter in poll() is out of it before the last retry.
LEMMA PollTicksFacts ==
    /\ PollTicks \in Nat
    /\ WakeupTicks \in Nat
    /\ PollTicks + WakeupTicks < Retries
  BY CondVarsAssumption, TimingAssumption DEF PollTicks

\* Nothing has been notified and nobody waits.
LEMMA InitCondVars == Init => CondVarInv
<1> SUFFICES ASSUME Init
             PROVE  CondVarInv
  OBVIOUS
<1>1. TypeOK
  <2>1. 0 \in 0..(QueueSize + 1) /\ 0 \in 0..QueueSize /\ 0 \in 0..(PollTicks + WakeupTicks)
    BY CondVarsAssumption, PollTicksFacts
  <2>2. Retries \in 0..Retries
    BY CondVarsAssumption
  <2>3. kind \in Kinds /\ rtWaiter \in BOOLEAN
    BY DEF Init
  <2> QED
    BY <2>1, <2>2, <2>3 DEF Init, TypeOK, WaiterPoints
<1>2. RightWaiter /\ FreedAfterWaiter
  BY DEF Init, RightWaiter, FreedAfterWaiter, IsWaiting
<1>3. RightQueues /\ RightReads /\ RightLife
  BY CondVarsAssumption DEF Init, RightQueues, RightReads, RightLife, Queues, Files
<1> QED
  BY <1>1, <1>2, <1>3 DEF CondVarInv

\* Every step keeps the invariant.
LEMMA CondVarStep == CondVarInv /\ [Next]_vars => CondVarInv'
<1> SUFFICES ASSUME CondVarInv, [Next]_vars
             PROVE  CondVarInv'
  OBVIOUS
<1> USE CondVarsAssumption, PollTicksFacts
    DEF CondVarInv, TypeOK, RightWaiter, RightQueues, RightReads, RightLife,
        FreedAfterWaiter, IsWaiting, Queues, Files, WaiterPoints, AllKinds
<1>1. CASE UNCHANGED vars
  BY <1>1 DEF vars
<1>2. CASE NotifyStd
  BY <1>2 DEF NotifyStd
<1>3. ASSUME NEW rt \in BOOLEAN, Notify(rt)
      PROVE  CondVarInv'
  BY <1>3 DEF Notify, Put, FileOf
<1>4. CASE Wait
  BY <1>4 DEF Wait
<1>5. CASE StdSpuriousWake
  BY <1>5 DEF StdSpuriousWake
<1>6. CASE StdReturn
  BY <1>6 DEF StdReturn, Return
<1>7. CASE PosixReturn
  BY <1>7 DEF PosixReturn, Return
<1>8. CASE PosixInterrupted
  BY <1>8 DEF PosixInterrupted, Return
<1>9. CASE XenomaiPoll
  BY <1>9 DEF XenomaiPoll, ReadyFiles
<1>10. CASE XenomaiInterrupted
  BY <1>10 DEF XenomaiInterrupted
<1>11. ASSUME NEW f \in Files, XenomaiRead(f)
      PROVE  CondVarInv'
  BY <1>11 DEF XenomaiRead
<1>12. CASE XenomaiReturn
  BY <1>12 DEF XenomaiReturn, Return
<1>13. CASE EvlOobRead
  BY <1>13 DEF EvlOobRead, Return
<1>14. CASE EvlPollData
  BY <1>14 DEF EvlPollData, Return
<1>15. CASE EvlPollEnds
  BY <1>15 DEF EvlPollEnds, Return
<1>16. CASE Destroy
  BY <1>16 DEF Destroy
<1>17. CASE DestroyPosix
  BY <1>17 DEF DestroyPosix, LastNotify
<1>18. CASE CloseEvl
  BY <1>18 DEF CloseEvl
<1>19. CASE RetryEvl
  BY <1>19 DEF RetryEvl, RetriesLeft
<1>20. CASE FreeEvl
  BY <1>20 DEF FreeEvl, RetriesLeft
<1> QED
  BY <1>1, <1>2, <1>3, <1>4, <1>5, <1>6, <1>7, <1>8, <1>9, <1>10, <1>11, <1>12, <1>13, <1>14, <1>15, <1>16, <1>17, <1>18, <1>19, <1>20
     DEF Next, WaiterStep, DestroyerStep, Terminated

\* The invariant holds in every state.
LEMMA CondVarInvHolds == Spec => []CondVarInv
  BY InitCondVars, CondVarStep, PTL DEF Spec

\* The counts, the queues and the places of the object are in range: neither
\* the retries of the EVL destructor nor a queue that is read go below zero.
THEOREM TypeCorrect == Spec => []TypeOK
  BY CondVarInvHolds, PTL DEF CondVarInv

\* However many retries EVL_SHUTDOWN_RETRIES are, under SleepIsExact and
\* TimingAssumption, and whatever the interleaving, ~EvlConditionVariable does
\* not free the object while wait() is in its poll().
THEOREM FreedAfterWaiterHolds == Spec => []FreedAfterWaiter
  BY CondVarInvHolds, PTL DEF CondVarInv

-----------------------------------------------------------------------------
\* The number of notifies that no wait has answered is a number.
LEMMA PendingIsNat == CondVarInv => Pending \in Nat
  BY CondVarsAssumption DEF CondVarInv, TypeOK, Pending, InFile, Files, Queues

\* A new object satisfies the initial condition of the promise.
LEMMA InitPromise == Init => Promise!Init
  BY DEF Init, Promise!Init, Pending, InFile, Files, Queues

\* Every step of every class is a step of the promise or is not seen there, but
\* for the one that is excluded.
LEMMA PromiseStep ==
    CondVarInv /\ [Next]_vars =>
        [Promise!Next \/ PosixInterrupted]_(Promise!condVars)
<1> SUFFICES ASSUME CondVarInv, [Next]_vars
             PROVE  Promise!Next \/ PosixInterrupted \/ UNCHANGED <<Pending, result>>
  BY DEF Promise!condVars
<1> USE CondVarsAssumption, PendingIsNat
    DEF CondVarInv, TypeOK, RightWaiter, RightQueues, RightReads, RightLife,
        IsWaiting, Queues, Files, AllKinds, Pending, InFile, Reads,
        Promise!Notify, Promise!Call, Promise!ReturnTrue, Promise!ReturnFalse
<1>1. CASE UNCHANGED vars
  BY <1>1 DEF vars
<1>2. ASSUME NotifyStd
      PROVE  Promise!Notify \/ UNCHANGED <<Pending, result>>
  BY <1>2 DEF NotifyStd
<1>3. ASSUME NEW rt \in BOOLEAN, Notify(rt)
      PROVE  Promise!Notify \/ UNCHANGED <<Pending, result>>
  BY <1>3 DEF Notify, Put, FileOf
<1>4. ASSUME Wait
      PROVE  Promise!Call
  BY <1>4 DEF Wait
<1>5. ASSUME StdSpuriousWake
      PROVE  UNCHANGED <<Pending, result>>
  BY <1>5 DEF StdSpuriousWake
<1>6. ASSUME StdReturn
      PROVE  Promise!ReturnTrue \/ Promise!ReturnFalse
  BY <1>6 DEF StdReturn, Return, FlagIsSet
<1>7. ASSUME PosixReturn
      PROVE  Promise!ReturnTrue
  BY <1>7 DEF PosixReturn, Return
<1>9. ASSUME XenomaiPoll
      PROVE  UNCHANGED <<Pending, result>>
  BY <1>9 DEF XenomaiPoll, ReadyFiles
<1>10. ASSUME XenomaiInterrupted
      PROVE  UNCHANGED <<Pending, result>>
  BY <1>10 DEF XenomaiInterrupted
<1>11. ASSUME NEW f \in Files, XenomaiRead(f)
      PROVE  UNCHANGED <<Pending, result>>
  BY <1>11 DEF XenomaiRead
<1>12. ASSUME XenomaiReturn
      PROVE  Promise!ReturnTrue \/ Promise!ReturnFalse
  BY <1>12 DEF XenomaiReturn, Return, XenomaiNotified
<1>13. ASSUME EvlOobRead
      PROVE  Promise!ReturnTrue
  BY <1>13 DEF EvlOobRead, Return, EvlNotified
<1>14. ASSUME EvlPollData
      PROVE  Promise!ReturnTrue
  BY <1>14 DEF EvlPollData, Return, EvlNotified
<1>15. ASSUME EvlPollEnds
      PROVE  Promise!ReturnFalse
  BY <1>15 DEF EvlPollEnds, Return, EvlNotified
<1>16. ASSUME Destroy
      PROVE  UNCHANGED <<Pending, result>>
  BY <1>16 DEF Destroy
<1>17. ASSUME DestroyPosix
      PROVE  Promise!Notify
  BY <1>17 DEF DestroyPosix, LastNotify
<1>18. ASSUME CloseEvl
      PROVE  UNCHANGED <<Pending, result>>
  BY <1>18 DEF CloseEvl
<1>19. ASSUME RetryEvl
      PROVE  UNCHANGED <<Pending, result>>
  BY <1>19 DEF RetryEvl
<1>20. ASSUME FreeEvl
      PROVE  UNCHANGED <<Pending, result>>
  BY <1>20 DEF FreeEvl
<1> QED
  BY <1>1, <1>2, <1>3, <1>4, <1>5, <1>6, <1>7, <1>9, <1>10, <1>11, <1>12, <1>13, <1>14, <1>15, <1>16, <1>17, <1>18, <1>19, <1>20
     DEF Next, WaiterStep, DestroyerStep, Terminated, Promise!Next

\* Each of the four classes implements RtConditionVariable as RtCondVar.tla has
\* it, but for a sem_wait() of the Posix class that a signal interrupts: wait()
\* returns true only for a notify() that no wait has answered, and what it
\* answers is gone.
THEOREM KeepsPromiseHolds == Spec => KeepsPromise
<1>1. CondVarInv /\ [Next]_vars =>
          [Promise!Next \/ PosixInterrupted]_(Promise!condVars)
  BY PromiseStep
<1> QED
  BY <1>1, InitPromise, CondVarInvHolds, PTL DEF Spec, KeepsPromise
-----------------------------------------------------------------------------
\* Only a wait() that returns true takes a notify, but for the Xenomai class:
\* what a wait of the others leaves unanswered, because it ran into its timeout
\* or woke up by itself, is there for the next one.
THEOREM NothingIsSwallowedHolds == Spec => NothingIsSwallowed
<1> DEFINE A == kind # "xenomai" /\ result = "waiting"
                    /\ result' = "false" => Pending' = Pending
<1>1. CondVarInv /\ [Next]_vars => [A]_vars
  <2> SUFFICES ASSUME CondVarInv, Next, kind # "xenomai", result = "waiting",
                      result' = "false"
               PROVE  Pending' = Pending
    BY DEF vars
  <2> USE CondVarsAssumption
      DEF CondVarInv, TypeOK, RightWaiter, RightQueues, RightReads, Queues, Files,
          Pending, InFile, Reads
  <2>1. CASE StdReturn
    BY <2>1 DEF StdReturn, Return, FlagIsSet
  <2>2. CASE PosixReturn \/ EvlOobRead \/ EvlPollData
    BY <2>2 DEF PosixReturn, EvlOobRead, EvlPollData, Return, EvlNotified
  <2>3. CASE PosixInterrupted
    BY <2>3 DEF PosixInterrupted, Return
  <2>4. CASE EvlPollEnds
    BY <2>4 DEF EvlPollEnds, Return
  <2>5. CASE NotifyStd \/ \E rt \in BOOLEAN : Notify(rt)
    BY <2>5 DEF NotifyStd, Notify
  <2>6. CASE Wait \/ StdSpuriousWake
    BY <2>6 DEF Wait, StdSpuriousWake
  <2>7. CASE XenomaiPoll \/ XenomaiInterrupted \/ XenomaiReturn \/ \E f \in Files : XenomaiRead(f)
    BY <2>7 DEF XenomaiPoll, XenomaiInterrupted, XenomaiReturn, XenomaiRead
  <2>8. CASE Destroy \/ DestroyPosix \/ CloseEvl \/ DestroyerStep \/ Terminated
    BY <2>8 DEF Destroy, DestroyPosix, CloseEvl, DestroyerStep, RetryEvl, FreeEvl,
                Terminated, vars
  <2> QED
    BY <2>1, <2>2, <2>3, <2>4, <2>5, <2>6, <2>7, <2>8 DEF Next, WaiterStep
<1> QED
  BY <1>1, CondVarInvHolds, PTL DEF Spec, NothingIsSwallowed
=============================================================================
