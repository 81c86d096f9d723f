---------------------------- MODULE AppleThreads ----------------------------
(***************************************************************************)
(* What a worker does on macOS besides WorkerPool.tla: WorkerThread looks  *)
(* up the workgroup of an audio device when it is constructed, its thread  *)
(* becomes a realtime thread and joins the workgroup before it halts on    *)
(* the barrier, and leaves it before it exits                              *)
(* (src/src/apple_threading.cpp, src/src/worker_pool_implementation.h).    *)
(*                                                                         *)
(* The host adds one worker at a time.  CoreAudio may fail in any call,    *)
(* and may cancel a workgroup at any time.                                 *)
(***************************************************************************)
EXTENDS Naturals

CONSTANTS
    Threads,    \* the workers that may be added
    NumDevices  \* the number of audio devices

ASSUME AppleAssumption == NumDevices \in Nat

VARIABLES
    macOS11,     \* __builtin_available(macOS 11.00, *)
    named,       \* the devices with the name that the pool was given
    cancelled,   \* the devices whose workgroup was cancelled
    point,       \* where each worker is
    device,      \* the device that the lookup has got to
    workgroup,   \* _p_workgroup, as the device it belongs to
    status,      \* _status
    realtime,    \* the threads with a time constraint policy
    joined,      \* the workgroup that the kernel has each thread in
    destroying   \* the pool is being destroyed

world == <<macOS11, named>>
vars == <<world, cancelled, point, device, workgroup, status, realtime,
          joined, destroying>>

Devices == 1..NumDevices

NULL == 0

Points == {"new", "lookup", "name", "workgroup", "created", "test", "join",
           "halted", "leave", "exited"}

AppleThreadingStatus ==
    {"OK", "WG_CANCELLED", "WG_FAILED", "WG_SIZE_FAILED",
     "FETCH_NAME_SIZE_FAILED", "FETCH_NAME_FAILED", "PD_FAILED",
     "PD_SIZE_FAILED", "INVALID_DEVICE_NAME_PASSED", "REALTIME_FAILED",
     "NO_WORKGROUP_PASSED", "WORKGROUP_ALREADY_CANCELLED",
     "WORKGROUP_JOINING_UNKNOWN_FAILURE"}

-----------------------------------------------------------------------------
\* Mutants: the result of the join always overwrites the status; a worker
\* that failed does not leave; the lookup goes one device too far; a worker
\* that failed stays until the pool is destroyed.
AlwaysTheLast(old, new) == new
OnlyIfOK(t) == workgroup[t] # NULL /\ status[t] = "OK"
OneTooFar(d) == d \in 1..(NumDevices + 1)
PoolFlagOnly(t) == destroying

\* What becomes of the status when the join is done.
FailureOr(old, new) == IF new # "OK" THEN new ELSE old

\* leave_workgroup_if_needed
LeaveNeeded(t) == workgroup[t] # NULL

\* The loop over the device ids goes on.
InDeviceIds(d) == d \in Devices

\* add_worker found a failure, or the pool is being destroyed.
MustStop(t) == destroying \/ status[t] # "OK"

-----------------------------------------------------------------------------
Init ==
    /\ macOS11 \in BOOLEAN
    /\ named \in SUBSET Devices
    /\ cancelled = {}
    /\ point = [t \in Threads |-> "new"]
    /\ device = [t \in Threads |-> 1]
    /\ workgroup = [t \in Threads |-> NULL]
    /\ status = [t \in Threads |-> "OK"]
    /\ realtime = {}
    /\ joined = [t \in Threads |-> NULL]
    /\ destroying = FALSE

Goes(t, from, to) == point[t] = from /\ point' = [point EXCEPT ![t] = to]

\* The worker is halted on the barrier and add_worker has found no failure.
Kept(t) == point[t] = "halted" /\ status[t] = "OK"

\* add_worker, and its failure path, is over before the host goes on.
HostIsFree == \A t \in Threads : point[t] \in {"new", "exited"} \/ Kept(t)

\* The constructor of WorkerThread.
Construct(t) ==
    /\ HostIsFree
    /\ ~destroying
    /\ Goes(t, "new", IF macOS11 THEN "lookup" ELSE "created")
    /\ UNCHANGED <<world, cancelled, device, workgroup, status, realtime,
                   joined, destroying>>

\* get_device_workgroup returns no workgroup and one of the statuses.
LookupFails(t, from, statuses) ==
    /\ Goes(t, from, "created")
    /\ \E s \in statuses : status' = [status EXCEPT ![t] = s]
    /\ UNCHANGED <<world, cancelled, device, workgroup, realtime, joined,
                   destroying>>

\* get_device_workgroup goes on.
LookupMoves(t, from, to, d) ==
    /\ Goes(t, from, to)
    /\ device' = [device EXCEPT ![t] = d]
    /\ UNCHANGED <<world, cancelled, workgroup, status, realtime, joined,
                   destroying>>

GetDevices(t) ==
    \/ LookupFails(t, "lookup", {"PD_SIZE_FAILED", "PD_FAILED"})
    \/ LookupMoves(t, "lookup", "name", 1)

\* A name that cannot be had ends the search, whatever devices follow.
GetName(t) ==
    LET d == device[t]
    IN  \/ ~InDeviceIds(d)
           /\ LookupFails(t, "name", {"INVALID_DEVICE_NAME_PASSED"})
        \/ InDeviceIds(d)
           /\ LookupFails(t, "name", {"FETCH_NAME_SIZE_FAILED", "FETCH_NAME_FAILED"})
        \/ InDeviceIds(d) /\ d \notin named
           /\ LookupMoves(t, "name", "name", d + 1)
        \/ InDeviceIds(d) /\ d \in named
           /\ LookupMoves(t, "name", "workgroup", d)

\* A cancelled workgroup is returned together with the failure.
GetWorkgroup(t) ==
    \/ LookupFails(t, "workgroup", {"WG_SIZE_FAILED", "WG_FAILED"})
    \/ /\ Goes(t, "workgroup", "created")
       /\ workgroup' = [workgroup EXCEPT ![t] = device[t]]
       /\ status' = [status EXCEPT ![t] =
              IF device[t] \in cancelled THEN "WG_CANCELLED" ELSE "OK"]
       /\ UNCHANGED <<world, cancelled, device, realtime, joined, destroying>>

\* run() fails after the lookup: there is no thread, and add_worker returns the
\* error and destroys the WorkerThread, whatever its status is.
RunFails(t) ==
    /\ Goes(t, "created", "exited")
    /\ UNCHANGED <<world, cancelled, device, workgroup, status, realtime,
                   joined, destroying>>

\* The thread starts, with _init_apple_thread.
SetRealtime(t) ==
    /\ Goes(t, "created", IF macOS11 THEN "test" ELSE "halted")
    /\ \/ realtime' = realtime \cup {t} /\ UNCHANGED status
       \/ status' = [status EXCEPT ![t] = "REALTIME_FAILED"] /\ UNCHANGED realtime
    /\ UNCHANGED <<world, cancelled, device, workgroup, joined, destroying>>

\* join_workgroup returns, and the thread goes on to the barrier.
JoinReturns(t, from, s) ==
    /\ Goes(t, from, "halted")
    /\ status' = [status EXCEPT ![t] = FailureOr(@, s)]
    /\ UNCHANGED <<world, cancelled, device, workgroup, realtime, destroying>>

\* join_workgroup up to the call of os_workgroup_join.
TestCancel(t) ==
    \/ /\ workgroup[t] = NULL
       /\ JoinReturns(t, "test", "NO_WORKGROUP_PASSED")
       /\ UNCHANGED joined
    \/ /\ workgroup[t] \in cancelled
       /\ JoinReturns(t, "test", "WORKGROUP_ALREADY_CANCELLED")
       /\ UNCHANGED joined
    \/ /\ workgroup[t] \in Devices \ cancelled
       /\ Goes(t, "test", "join")
       /\ UNCHANGED <<world, cancelled, device, workgroup, status, realtime,
                      joined, destroying>>

\* os_workgroup_join; the workgroup may have been cancelled since the test.
\* EALREADY does not come up, for the thread is in no workgroup.
JoinWorkgroup(t) ==
    \/ /\ workgroup[t] \notin cancelled
       /\ JoinReturns(t, "join", "OK")
       /\ joined' = [joined EXCEPT ![t] = workgroup[t]]
    \/ /\ workgroup[t] \in cancelled
       /\ JoinReturns(t, "join", "WORKGROUP_ALREADY_CANCELLED")
       /\ UNCHANGED joined
    \/ /\ JoinReturns(t, "join", "WORKGROUP_JOINING_UNKNOWN_FAILURE")
       /\ UNCHANGED joined

\* The thread comes out of the barrier to exit.
IsStopped(t) ==
    /\ MustStop(t)
    /\ Goes(t, "halted", "leave")
    /\ UNCHANGED <<world, cancelled, device, workgroup, status, realtime,
                   joined, destroying>>

\* os_workgroup_leave of a workgroup that was not joined is undefined; it is
\* taken to do nothing, see LeavesWhatItJoined.
Leave(t) ==
    /\ Goes(t, "leave", "exited")
    /\ joined' = IF LeaveNeeded(t) THEN [joined EXCEPT ![t] = NULL] ELSE joined
    /\ UNCHANGED <<world, cancelled, device, workgroup, status, realtime,
                   destroying>>

Destroy ==
    /\ HostIsFree
    /\ ~destroying
    /\ destroying' = TRUE
    /\ UNCHANGED <<world, cancelled, point, device, workgroup, status,
                   realtime, joined>>

\* The device is unplugged, or its driver stops.
Cancel(d) ==
    /\ cancelled' = cancelled \cup {d}
    /\ UNCHANGED <<world, point, device, workgroup, status, realtime, joined,
                   destroying>>

WorkerStep(t) ==
    \/ GetDevices(t)
    \/ GetName(t)
    \/ GetWorkgroup(t)
    \/ RunFails(t)
    \/ SetRealtime(t)
    \/ TestCancel(t)
    \/ JoinWorkgroup(t)
    \/ IsStopped(t)
    \/ Leave(t)

Next ==
    \/ \E t \in Threads : Construct(t) \/ WorkerStep(t)
    \/ Destroy
    \/ \E d \in Devices : Cancel(d)

Spec == Init /\ [][Next]_vars

\* The host thread in a constructor goes on, and so does a worker thread.
FairSpec == Spec /\ \A t \in Threads : WF_vars(WorkerStep(t))

-----------------------------------------------------------------------------
\* The state of the workers is well formed: the lookup does not run past the
\* list of devices, and every status is one of the enumeration.
TypeOK ==
    /\ macOS11 \in BOOLEAN
    /\ named \subseteq Devices
    /\ cancelled \subseteq Devices
    /\ point \in [Threads -> Points]
    /\ device \in [Threads -> 1..(NumDevices + 1)]
    /\ workgroup \in [Threads -> Devices \cup {NULL}]
    /\ status \in [Threads -> AppleThreadingStatus]
    /\ realtime \subseteq Threads
    /\ joined \in [Threads -> Devices \cup {NULL}]
    /\ destroying \in BOOLEAN

\* What add_worker reports: OK if and only if the worker is a realtime thread
\* and, from macOS 11 on, a member of the workgroup of a device with the name
\* the pool was given.  Three places write _status, and none may hide the
\* failure that another one has found.
StatusIsRight ==
    \A t \in Threads : point[t] = "halted" =>
        (status[t] = "OK" <=> t \in realtime /\ (macOS11 => joined[t] \in named))

\* A thread that exits is in no workgroup: "Failing to do so before exiting
\* will result in undefined behavior".
LeftBeforeExit == \A t \in Threads : point[t] = "exited" => joined[t] = NULL

\* The lookup and the set-up of a thread end, and add_worker can return.
AddWorkerReturns ==
    \A t \in Threads : point[t] # "new" ~> Kept(t) \/ point[t] = "exited"

\* leave_workgroup_if_needed removes a thread from a workgroup "if it has
\* previously joined it".
LeavesWhatItJoined ==
    [][\A t \in Threads : Leave(t) /\ LeaveNeeded(t) => joined[t] = workgroup[t]]_vars
=============================================================================
