-------------------------- MODULE AppleThreadsProofs --------------------------
(***************************************************************************)
(* What a worker of macOS promises, for any number of workers and of audio *)
(* devices, and whatever CoreAudio answers.                                *)
(***************************************************************************)
EXTENDS AppleThreads, TLAPS

\* A device with the name of the pool, or none.
NamedOrNone == named \cup {NULL}

\* Until its thread starts a worker is no realtime thread and has joined
\* nothing; until get_device_workgroup returns it has no workgroup either.
NotStarted(t) ==
    point[t] \in {"new", "lookup", "name", "workgroup", "created"} =>
        t \notin realtime /\ joined[t] = NULL

NotFoundYet(t) ==
    point[t] \in {"new", "lookup", "name", "workgroup"} =>
        status[t] = "OK" /\ workgroup[t] = NULL

\* The device whose workgroup is asked for has the right name.
RightDevice(t) == point[t] = "workgroup" => device[t] \in named

\* The lookup and the join are of macOS 11.
NeedsMacOS11(t) ==
    point[t] \in {"lookup", "name", "workgroup", "test", "join"} => macOS11

\* What the lookup leaves: a failure has no workgroup, or one that was
\* cancelled and stays so, and without a lookup there is no failure.
Looked(t) ==
    point[t] = "created" =>
        /\ ~macOS11 => status[t] = "OK"
        /\ macOS11 /\ status[t] = "OK" => workgroup[t] \in named
        /\ status[t] # "OK" => workgroup[t] \in cancelled \cup {NULL}

\* Before it joins, a worker without failure has a workgroup and is a realtime
\* thread, and one with a failure is no realtime thread or cannot join.
Joining(t) ==
    point[t] \in {"test", "join"} =>
        /\ joined[t] = NULL
        /\ status[t] = "OK" => t \in realtime /\ workgroup[t] \in named
        /\ status[t] # "OK" => t \notin realtime \/ workgroup[t] \in cancelled \cup {NULL}

\* A worker is in no workgroup but its own, and in none when it has exited.
JoinedItsOwn(t) ==
    /\ workgroup[t] \in NamedOrNone
    /\ joined[t] \in {NULL, workgroup[t]}
    /\ point[t] = "exited" => joined[t] = NULL

\* The inductive invariant of one worker, and of all.
WorkerInv(t) ==
    /\ NotStarted(t)
    /\ NotFoundYet(t)
    /\ RightDevice(t)
    /\ NeedsMacOS11(t)
    /\ Looked(t)
    /\ Joining(t)
    /\ JoinedItsOwn(t)

AppleInv == TypeOK /\ StatusIsRight /\ \A t \in Threads : WorkerInv(t)

-----------------------------------------------------------------------------
\* A workgroup of a device is not the null pointer.
LEMMA NoDeviceIsNull == NULL \notin Devices
  BY DEF NULL, Devices

\* No worker has been constructed.
LEMMA InitApple == Init => AppleInv
<1> SUFFICES ASSUME Init
             PROVE  AppleInv
  OBVIOUS
<1>1. TypeOK
  <2>1. 1 \in 1..(NumDevices + 1)
    BY AppleAssumption
  <2> QED
    BY <2>1 DEF Init, TypeOK, Points, AppleThreadingStatus
<1>2. StatusIsRight
  BY DEF Init, StatusIsRight
<1>3. ASSUME NEW t \in Threads
      PROVE  WorkerInv(t)
  BY <1>3 DEF Init, WorkerInv, NotStarted, NotFoundYet, RightDevice, NeedsMacOS11,
         Looked, Joining, JoinedItsOwn, NamedOrNone
<1> QED
  BY <1>1, <1>2, <1>3 DEF AppleInv

\* A failure of the lookup has a status of the enumeration, and the search
\* goes on to a device of the list or to the one after its end.
LEMMA LookupTypes ==
    ASSUME TypeOK, NEW t \in Threads, NEW from,
           \/ \E statuses \in SUBSET AppleThreadingStatus : LookupFails(t, from, statuses)
           \/ \E to \in Points, d \in 1..(NumDevices + 1) : LookupMoves(t, from, to, d)
    PROVE  TypeOK'
<1>1. ASSUME NEW statuses \in SUBSET AppleThreadingStatus, LookupFails(t, from, statuses)
      PROVE  TypeOK'
  <2>1. "created" \in Points
    BY DEF Points
  <2> QED
    BY <1>1, <2>1 DEF LookupFails, TypeOK, Goes, world, Devices
<1>2. ASSUME NEW to \in Points, NEW d \in 1..(NumDevices + 1), LookupMoves(t, from, to, d)
      PROVE  TypeOK'
  BY <1>2 DEF LookupMoves, TypeOK, Goes, world, Devices
<1> QED
  BY <1>1, <1>2

\* Every step keeps the types: the device whose workgroup is asked for is one
\* of the list, for it has the right name.
LEMMA TypeStep == AppleInv /\ [Next]_vars => TypeOK'
<1> SUFFICES ASSUME TypeOK, \A t \in Threads : RightDevice(t), [Next]_vars
             PROVE  TypeOK'
  BY DEF AppleInv, WorkerInv
<1> USE AppleAssumption DEF TypeOK, Points, AppleThreadingStatus, NULL, Devices, Goes, world
<1>1. CASE UNCHANGED vars
  BY <1>1 DEF vars
<1>2. ASSUME NEW t \in Threads, Construct(t)
      PROVE  TypeOK'
  BY <1>2 DEF Construct
<1>3. ASSUME NEW t \in Threads, GetDevices(t)
      PROVE  TypeOK'
  <2>1. /\ {"PD_SIZE_FAILED", "PD_FAILED"} \in SUBSET AppleThreadingStatus
        /\ "name" \in Points
        /\ 1 \in 1..(NumDevices + 1)
    OBVIOUS
  <2> QED
    BY ONLY <1>3, <2>1, TypeOK, LookupTypes DEF GetDevices
<1>4. ASSUME NEW t \in Threads, GetName(t)
      PROVE  TypeOK'
  <2>1. /\ {"INVALID_DEVICE_NAME_PASSED"} \in SUBSET AppleThreadingStatus
        /\ {"FETCH_NAME_SIZE_FAILED", "FETCH_NAME_FAILED"} \in SUBSET AppleThreadingStatus
        /\ {"name", "workgroup"} \subseteq Points
    OBVIOUS
  <2>2. InDeviceIds(device[t]) => {device[t], device[t] + 1} \subseteq 1..(NumDevices + 1)
    BY DEF InDeviceIds
  <2> QED
    BY ONLY <1>4, <2>1, <2>2, TypeOK, LookupTypes DEF GetName
<1>5. ASSUME NEW t \in Threads, GetWorkgroup(t)
      PROVE  TypeOK'
  <2>1. CASE LookupFails(t, "workgroup", {"WG_SIZE_FAILED", "WG_FAILED"})
    <3>1. {"WG_SIZE_FAILED", "WG_FAILED"} \in SUBSET AppleThreadingStatus
      OBVIOUS
    <3> QED
      BY ONLY <2>1, <3>1, TypeOK, t \in Threads, LookupTypes
  <2>2. CASE ~LookupFails(t, "workgroup", {"WG_SIZE_FAILED", "WG_FAILED"})
    <3>1. device[t] \in Devices
      BY <1>5, <2>2 DEF GetWorkgroup, RightDevice
    <3> QED
      BY <1>5, <2>2, <3>1 DEF GetWorkgroup
  <2> QED
    BY <2>1, <2>2
<1>6. ASSUME NEW t \in Threads, SetRealtime(t)
      PROVE  TypeOK'
  BY <1>6 DEF SetRealtime
<1>7. ASSUME NEW t \in Threads, TestCancel(t)
      PROVE  TypeOK'
  BY <1>7 DEF TestCancel, JoinReturns, FailureOr
<1>8. ASSUME NEW t \in Threads, JoinWorkgroup(t)
      PROVE  TypeOK'
  BY <1>8 DEF JoinWorkgroup, JoinReturns, FailureOr
<1>9. ASSUME NEW t \in Threads, IsStopped(t)
      PROVE  TypeOK'
  BY <1>9 DEF IsStopped
<1>10. ASSUME NEW t \in Threads, Leave(t)
       PROVE  TypeOK'
  BY <1>10 DEF Leave
<1>11. CASE Destroy
  BY <1>11 DEF Destroy
<1>12. ASSUME NEW d \in Devices, Cancel(d)
       PROVE  TypeOK'
  BY <1>12 DEF Cancel
<1>13. ASSUME NEW t \in Threads, RunFails(t)
       PROVE  TypeOK'
  BY <1>13 DEF RunFails
<1> QED
  BY <1>1, <1>2, <1>3, <1>4, <1>5, <1>6, <1>7, <1>8, <1>9, <1>10, <1>11, <1>12, <1>13
     DEF Next, WorkerStep

\* Whatever one worker does, the host or the device, the promise is kept for
\* every worker.
LEMMA WorkersStep ==
    AppleInv /\ [Next]_vars => StatusIsRight' /\ \A t \in Threads : WorkerInv(t)'
<1> SUFFICES ASSUME AppleInv, [Next]_vars, NEW w \in Threads
             PROVE  /\ point'[w] = "halted" =>
                         (status'[w] = "OK" <=> w \in realtime' /\ (macOS11' => joined'[w] \in named'))
                    /\ WorkerInv(w)'
  BY DEF StatusIsRight
<1> DEFINE Kept1 ==
      /\ point'[w] = "halted" =>
           (status'[w] = "OK" <=> w \in realtime' /\ (macOS11' => joined'[w] \in named'))
      /\ WorkerInv(w)'
<1> USE NoDeviceIsNull
    DEF AppleInv, TypeOK, StatusIsRight, WorkerInv, NotStarted, NotFoundYet, RightDevice,
        NeedsMacOS11, Looked, Joining, JoinedItsOwn, NamedOrNone, Goes, world
<1>1. CASE UNCHANGED vars
  BY <1>1 DEF vars
<1>2. ASSUME NEW t \in Threads, Construct(t)
      PROVE  Kept1
  BY <1>2 DEF Construct
<1>3. ASSUME NEW t \in Threads, GetDevices(t)
      PROVE  Kept1
  BY <1>3 DEF GetDevices, LookupFails, LookupMoves
<1>4. ASSUME NEW t \in Threads, GetName(t)
      PROVE  Kept1
  BY <1>4 DEF GetName, LookupFails, LookupMoves, InDeviceIds
<1>5. ASSUME NEW t \in Threads, GetWorkgroup(t)
      PROVE  Kept1
  BY <1>5 DEF GetWorkgroup, LookupFails
<1>6. ASSUME NEW t \in Threads, SetRealtime(t)
      PROVE  Kept1
  BY <1>6 DEF SetRealtime
<1>7. ASSUME NEW t \in Threads, TestCancel(t)
      PROVE  Kept1
  BY <1>7 DEF TestCancel, JoinReturns, FailureOr
<1>8. ASSUME NEW t \in Threads, JoinWorkgroup(t)
      PROVE  Kept1
  BY <1>8 DEF JoinWorkgroup, JoinReturns, FailureOr
<1>9. ASSUME NEW t \in Threads, IsStopped(t)
      PROVE  Kept1
  BY <1>9 DEF IsStopped
<1>10. ASSUME NEW t \in Threads, Leave(t)
       PROVE  Kept1
  BY <1>10 DEF Leave, LeaveNeeded
<1>11. CASE Destroy
  BY <1>11 DEF Destroy
<1>12. ASSUME NEW d \in Devices, Cancel(d)
       PROVE  Kept1
  BY <1>12 DEF Cancel
<1>13. ASSUME NEW t \in Threads, RunFails(t)
       PROVE  Kept1
  BY <1>13 DEF RunFails
<1> QED
  BY <1>1, <1>2, <1>3, <1>4, <1>5, <1>6, <1>7, <1>8, <1>9, <1>10, <1>11, <1>12, <1>13
     DEF Next, WorkerStep

\* The invariant holds in every state.
LEMMA AppleInvHolds == Spec => []AppleInv
<1>1. Init => AppleInv
  BY InitApple
<1>2. AppleInv /\ [Next]_vars => AppleInv'
  BY TypeStep, WorkersStep DEF AppleInv
<1> QED
  BY <1>1, <1>2, PTL DEF Spec

-----------------------------------------------------------------------------
\* The state of the workers is well formed: the loop over the device ids ends
\* with the list, and _status has a value of AppleThreadingStatus.
THEOREM TypeCorrect == Spec => []TypeOK
  BY AppleInvHolds, PTL DEF AppleInv

\* add_worker reports OK exactly for a worker that is a realtime thread and,
\* from macOS 11 on, a member of the right workgroup, even if the workgroup is
\* cancelled between the lookup, the test and the join.
THEOREM StatusIsRightHolds == Spec => []StatusIsRight
  BY AppleInvHolds, PTL DEF AppleInv

\* No thread exits in a workgroup: leave_workgroup_if_needed goes by the
\* pointer that the join went by, and not by the status.
THEOREM LeftBeforeExitHolds == Spec => []LeftBeforeExit
<1>1. AppleInv => LeftBeforeExit
  BY DEF AppleInv, WorkerInv, JoinedItsOwn, LeftBeforeExit
<1> QED
  BY <1>1, AppleInvHolds, PTL
=============================================================================
