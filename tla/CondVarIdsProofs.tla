--------------------------- MODULE CondVarIdsProofs ---------------------------
(***************************************************************************)
(* What the ids of the condition variables promise, for any number of ids  *)
(* and of threads.  That an id has one owner needs more: no two threads    *)
(* may create at the same time.                                            *)
(***************************************************************************)
EXTENDS CondVarIds, FiniteSetTheorems, TLAPS

\* create_rt_condition_variable is called by one thread only: get_next_id
\* takes no mutex, and run ids_race shows what two creators do.
OneCreator == \A s, t \in Creators : s = t

\* Who can be where: the scan is for those that create, and the rest has an
\* id of the table.
RightPlaces ==
    \A t \in Threads :
        /\ step[t] \in {"scan", "mark", "construct"} => t \in Creators
        /\ step[t] \in {"mark", "construct", "close", "deregister"} => index[t] \in Ids

\* A port is closed by the one thread that took its object out of the living.
ClosedByOne ==
    \A t \in Threads :
        step[t] = "close" =>
            /\ index[t] \in open \ live
            /\ \A s \in Threads : step[s] = "close" /\ index[s] = index[t] => s = t

\* An open port has an object that exists or that is being destroyed.
OpenIsOwned ==
    \A id \in open \ live : \E t \in Threads : step[t] = "close" /\ index[t] = id

\* The inductive invariant of the ports, for any number of creators.
PortsInv == TypeOK /\ RightPlaces /\ ClosedByOne /\ OpenIsOwned

\* Thread t constructs or destroys the object with the id that it is at.
Holds(t) == step[t] \in {"construct", "close", "deregister"}

\* An id that somebody has is taken, and one that was seen free is free until
\* the thread that saw it takes it.
TakenWhenOwned ==
    /\ live \subseteq activeIds
    /\ \A t \in Threads :
          /\ Holds(t) => index[t] \in activeIds \ live
          /\ step[t] = "mark" => index[t] \notin activeIds

\* No two threads construct or destroy the object of one id.
HeldByOne ==
    \A s, t \in Threads : Holds(s) /\ Holds(t) /\ index[s] = index[t] => s = t

\* The inductive invariant of the ids, for one creator.
IdsInv == PortsInv /\ TakenWhenOwned /\ HeldByOne

-----------------------------------------------------------------------------
\* The destructor closes the port first, and then gives the id back or ends.
LEMMA DestructorSteps ==
    /\ DtorOrder[1] = "close"
    /\ AfterDtorStep("close") = IF GivesBackIds THEN "deregister" ELSE "out"
    /\ AfterDtorStep("deregister") = "out"
  BY DEF DtorOrder, AfterDtorStep

\* No port is open and no id taken, and no thread does anything.
LEMMA InitIds == Init => IdsInv
  BY CondVarIdsAssumption DEF Init, IdsInv, PortsInv, TypeOK, RightPlaces,
       ClosedByOne, OpenIsOwned, TakenWhenOwned, HeldByOne, Holds, Steps, Ids

\* Every step keeps the invariant of the ports.
LEMMA PortsStep == PortsInv /\ [Next]_vars => PortsInv'
<1> SUFFICES ASSUME PortsInv, [Next]_vars
             PROVE  PortsInv'
  OBVIOUS
<1> USE CondVarIdsAssumption
    DEF PortsInv, TypeOK, RightPlaces, ClosedByOne, OpenIsOwned, Steps, Ids, Go
<1>1. CASE UNCHANGED vars
  BY <1>1 DEF vars
<1>2. ASSUME NEW t \in Threads, Create(t)
      PROVE  PortsInv'
  BY <1>2 DEF Create
<1>3. ASSUME NEW t \in Threads, SkipTaken(t)
      PROVE  PortsInv'
  BY <1>3 DEF SkipTaken, ScanEnded, Taken
<1>4. ASSUME NEW t \in Threads, SeeFree(t)
      PROVE  PortsInv'
  BY <1>4 DEF SeeFree, ScanEnded, Taken
<1>5. ASSUME NEW t \in Threads, Mark(t)
      PROVE  PortsInv'
  BY <1>5 DEF Mark
<1>6. ASSUME NEW t \in Threads, ThrowMaximum(t)
      PROVE  PortsInv'
  BY <1>6 DEF ThrowMaximum
<1>7. ASSUME NEW t \in Threads, Construct(t)
      PROVE  PortsInv'
  BY <1>7 DEF Construct
<1>8. ASSUME NEW t \in Threads, ConstructorThrows(t)
      PROVE  PortsInv'
  BY <1>8 DEF ConstructorThrows
<1>9. ASSUME NEW t \in Threads, NEW id \in Ids, Destroy(t, id)
      PROVE  PortsInv'
  BY <1>9, DestructorSteps DEF Destroy
<1>10. ASSUME NEW t \in Threads, ClosePort(t)
       PROVE  PortsInv'
  BY <1>10, DestructorSteps DEF ClosePort
<1>11. ASSUME NEW t \in Threads, Deregister(t)
       PROVE  PortsInv'
  BY <1>11, DestructorSteps DEF Deregister
<1> QED
  BY <1>1, <1>2, <1>3, <1>4, <1>5, <1>6, <1>7, <1>8, <1>9, <1>10, <1>11
     DEF Next, ThreadStep

\* Every step keeps the invariant of the ids.  Only Mark needs OneCreator: a
\* second creator could have seen the same id free.
LEMMA IdsStep == OneCreator /\ IdsInv /\ [Next]_vars => IdsInv'
<1> SUFFICES ASSUME OneCreator, IdsInv, [Next]_vars
             PROVE  TakenWhenOwned' /\ HeldByOne'
  BY PortsStep DEF IdsInv
<1> USE DEF IdsInv, PortsInv, TypeOK, RightPlaces, TakenWhenOwned, HeldByOne, Holds, Go
<1>1. CASE UNCHANGED vars
  BY <1>1 DEF vars
<1>2. ASSUME NEW t \in Threads, Create(t)
      PROVE  TakenWhenOwned' /\ HeldByOne'
  BY <1>2 DEF Create
<1>3. ASSUME NEW t \in Threads, SkipTaken(t)
      PROVE  TakenWhenOwned' /\ HeldByOne'
  BY <1>3 DEF SkipTaken, ScanEnded, Taken
<1>4. ASSUME NEW t \in Threads, SeeFree(t)
      PROVE  TakenWhenOwned' /\ HeldByOne'
  BY <1>4 DEF SeeFree, ScanEnded, Taken
<1>5. ASSUME NEW t \in Threads, Mark(t)
      PROVE  TakenWhenOwned' /\ HeldByOne'
  BY <1>5 DEF Mark, OneCreator
<1>6. ASSUME NEW t \in Threads, ThrowMaximum(t)
      PROVE  TakenWhenOwned' /\ HeldByOne'
  BY <1>6 DEF ThrowMaximum
<1>7. ASSUME NEW t \in Threads, Construct(t)
      PROVE  TakenWhenOwned' /\ HeldByOne'
  BY <1>7 DEF Construct
<1>8. ASSUME NEW t \in Threads, ConstructorThrows(t)
      PROVE  TakenWhenOwned' /\ HeldByOne'
  BY <1>8 DEF ConstructorThrows
<1>9. ASSUME NEW t \in Threads, NEW id \in Ids, Destroy(t, id)
      PROVE  TakenWhenOwned' /\ HeldByOne'
  BY <1>9, DestructorSteps DEF Destroy
<1>10. ASSUME NEW t \in Threads, ClosePort(t)
       PROVE  TakenWhenOwned' /\ HeldByOne'
  BY <1>10, DestructorSteps DEF ClosePort
<1>11. ASSUME NEW t \in Threads, Deregister(t)
       PROVE  TakenWhenOwned' /\ HeldByOne'
  BY <1>11, DestructorSteps DEF Deregister
<1> QED
  BY <1>1, <1>2, <1>3, <1>4, <1>5, <1>6, <1>7, <1>8, <1>9, <1>10, <1>11
     DEF Next, ThreadStep

\* The ports are right in every state.
LEMMA PortsInvHolds == Spec => []PortsInv
<1>1. Init => PortsInv
  BY InitIds DEF IdsInv
<1>2. PortsInv /\ [Next]_vars => PortsInv'
  BY PortsStep
<1> QED
  BY <1>1, <1>2, PTL DEF Spec

\* The ids are right in every state when one thread creates.
LEMMA IdsInvHolds == OneCreator /\ Spec => []IdsInv
<1> SUFFICES ASSUME OneCreator
             PROVE  Spec => []IdsInv
  OBVIOUS
<1>1. Init => IdsInv
  BY InitIds
<1>2. IdsInv /\ [Next]_vars => IdsInv'
  BY IdsStep
<1> QED
  BY <1>1, <1>2, PTL DEF Spec

-----------------------------------------------------------------------------
\* The scan of get_next_id stays inside active_ids and a condition variable
\* that exists has its port open, however many threads create and destroy.
THEOREM TypeCorrect == Spec => []TypeOK
  BY PortsInvHolds, PTL DEF PortsInv

\* At most one thread handles an id, and none if its object is alive.
LEMMA OwnersOfAnId == IdsInv => IdHasOneOwner
<1> SUFFICES ASSUME IdsInv, NEW id \in Ids
             PROVE  Cardinality(HandledBy(id)) + (IF id \in live THEN 1 ELSE 0) <= 1
  BY DEF IdHasOneOwner
<1>1. CASE HandledBy(id) = {}
  BY <1>1, FS_EmptySet
<1>2. CASE HandledBy(id) # {}
  <2>1. PICK t : t \in HandledBy(id)
    BY <1>2
  <2>2. HandledBy(id) = {t}
    BY <2>1 DEF HandledBy, IdsInv, HeldByOne, Holds
  <2>3. id \notin live
    BY <2>1 DEF HandledBy, IdsInv, TakenWhenOwned, Holds
  <2>4. Cardinality({t}) = 1
    BY FS_Singleton
  <2> QED
    BY <2>2, <2>3, <2>4
<1> QED
  BY <1>1, <1>2

\* get_next_id and the destructors give an id to one condition variable at a
\* time, for every number of ids and of destroying threads, while one thread
\* creates: the mutex that get_next_id lacks is not needed then.
THEOREM IdHasOneOwnerHolds == OneCreator /\ Spec => []IdHasOneOwner
  BY IdsInvHolds, OwnersOfAnId, PTL

\* While one thread creates, a constructor never finds the port of its id in
\* use: what run ids_race shows of two creators does not happen.
THEOREM PortIsFreeHolds == OneCreator /\ Spec => []PortIsFree
<1>1. IdsInv => PortIsFree
  BY DEF IdsInv, PortsInv, OpenIsOwned, TakenWhenOwned, HeldByOne, Holds, PortIsFree
<1> QED
  BY <1>1, IdsInvHolds, PTL

-----------------------------------------------------------------------------
\* One step loses no id, if the destructor calls deregister_id.
LEMMA NoIdIsLostStep ==
    GivesBackIds /\ TypeOK /\ NoIdIsLost /\ [Next]_vars => NoIdIsLost'
<1> SUFFICES ASSUME GivesBackIds, TypeOK, NoIdIsLost, [Next]_vars,
                    NEW id \in activeIds' \ leaked', id \notin live'
             PROVE  \E t \in Threads : Holds(t)' /\ index'[t] = id
  BY DEF NoIdIsLost, HandledBy, Holds
<1> DEFINE WasHeld == \E s \in Threads : Holds(s) /\ index[s] = id
<1>1. id \in activeIds \ leaked => id \in live \/ WasHeld
  BY DEF NoIdIsLost, HandledBy, Holds
<1> USE <1>1 DEF TypeOK, Holds, Go
<1>2. CASE UNCHANGED vars
  BY <1>2 DEF vars
<1>3. ASSUME NEW t \in Threads,
             \/ Create(t) \/ SkipTaken(t) \/ SeeFree(t) \/ ThrowMaximum(t)
      PROVE  \E s \in Threads : Holds(s)' /\ index'[s] = id
  BY <1>3 DEF Create, SkipTaken, SeeFree, ThrowMaximum
<1>4. ASSUME NEW t \in Threads, Mark(t)
      PROVE  \E s \in Threads : Holds(s)' /\ index'[s] = id
  BY <1>4 DEF Mark
<1>5. ASSUME NEW t \in Threads, Construct(t)
      PROVE  \E s \in Threads : Holds(s)' /\ index'[s] = id
  BY <1>5 DEF Construct
<1>6. ASSUME NEW t \in Threads, ConstructorThrows(t)
      PROVE  \E s \in Threads : Holds(s)' /\ index'[s] = id
  BY <1>6 DEF ConstructorThrows
<1>7. ASSUME NEW t \in Threads, NEW i \in Ids, Destroy(t, i)
      PROVE  \E s \in Threads : Holds(s)' /\ index'[s] = id
  BY <1>7, DestructorSteps DEF Destroy
<1>8. ASSUME NEW t \in Threads, ClosePort(t)
      PROVE  \E s \in Threads : Holds(s)' /\ index'[s] = id
  BY <1>8, DestructorSteps DEF ClosePort
<1>9. ASSUME NEW t \in Threads, Deregister(t)
      PROVE  \E s \in Threads : Holds(s)' /\ index'[s] = id
  BY <1>9, DestructorSteps DEF Deregister
<1> QED
  BY <1>2, <1>3, <1>4, <1>5, <1>6, <1>7, <1>8, <1>9 DEF Next, ThreadStep

\* With a destructor that calls deregister_id, as the Xenomai one does and
\* the EVL one does not, the table loses no id but those of the constructors
\* that threw, however many threads create.
THEOREM NoIdIsLostHolds == GivesBackIds /\ Spec => []NoIdIsLost
<1> SUFFICES ASSUME GivesBackIds
             PROVE  Spec => []NoIdIsLost
  OBVIOUS
<1>1. Init => NoIdIsLost
  BY DEF Init, NoIdIsLost
<1>2. TypeOK /\ NoIdIsLost /\ [Next]_vars => NoIdIsLost'
  BY NoIdIsLostStep
<1>3. Spec => []TypeOK
  BY TypeCorrect
<1> QED
  BY <1>1, <1>2, <1>3, PTL DEF Spec
=============================================================================
