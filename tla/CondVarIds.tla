----------------------------- MODULE CondVarIds -----------------------------
(***************************************************************************)
(* The ids of the Xenomai and EVL condition variables of                   *)
(* src/src/condition_variable_implementation.h: create_rt_condition_variable *)
(* takes the first id that is not active and constructs the object on the  *)
(* kernel port with that number; the destructor closes the port and gives  *)
(* the id back.  get_next_id takes no mutex, so its scan is one step for   *)
(* each entry it reads, and its write a step of its own.                   *)
(*                                                                         *)
(* The ports stand for the kernel: /dev/rtp<id> (Xenomai) or the pair of   *)
(* xbufs named after the id (EVL), which cannot be opened twice.           *)
(***************************************************************************)
EXTENDS Integers, FiniteSets

CONSTANTS
    Creators,       \* threads that create condition variables
    Destroyers,     \* threads that destroy them
    MaxCondVars,    \* MAX_RT_COND_VARS
    GivesBackIds,   \* does the destructor call deregister_id
    CtorMayFail     \* may the kernel refuse to set up a port

Threads == Creators \cup Destroyers

ASSUME CondVarIdsAssumption ==
    /\ MaxCondVars \in Nat \ {0}
    /\ {GivesBackIds, CtorMayFail} \subseteq BOOLEAN

Ids == 0..(MaxCondVars - 1)

VARIABLES
    activeIds,  \* active_ids: the ids that are taken
    open,       \* the ports that a condition variable has open
    live,       \* the ids of the condition variables whose life has not ended
    leaked,     \* the ids taken for an object whose constructor threw
    step,       \* where each thread is
    index       \* the id each thread is at: the i of the scan, then the id

vars == <<activeIds, open, live, leaked, step, index>>

Steps == {"out", "scan", "mark", "construct", "close", "deregister"}

-----------------------------------------------------------------------------
Go(t, from, to) ==
    /\ step[t] = from
    /\ step' = [step EXCEPT ![t] = to]

\* Mutants: a loop that ends one id late; an id that is given back before its
\* port is closed, or never.
OneIdTooMany(t) == index[t] > MaxCondVars
DeregisterFirst == <<"deregister", "close">>
NothingFollows(s) == "out"

ScanEnded(t) == index[t] >= MaxCondVars

Taken(t) == index[t] \in activeIds

\* The destructor closes the files and the socket, then deregisters.
DtorOrder == <<"close", "deregister">>

Init ==
    /\ activeIds = {}
    /\ open = {}
    /\ live = {}
    /\ leaked = {}
    /\ step = [t \in Threads |-> "out"]
    /\ index = [t \in Threads |-> 0]

\* create_rt_condition_variable
Create(t) ==
    /\ t \in Creators
    /\ Go(t, "out", "scan")
    /\ index' = [index EXCEPT ![t] = 0]
    /\ UNCHANGED <<activeIds, open, live, leaked>>

\* get_next_id: active_ids[i] is read, and written a moment later if free.
SkipTaken(t) ==
    /\ Go(t, "scan", "scan")
    /\ ~ScanEnded(t)
    /\ Taken(t)
    /\ index' = [index EXCEPT ![t] = @ + 1]
    /\ UNCHANGED <<activeIds, open, live, leaked>>

SeeFree(t) ==
    /\ Go(t, "scan", "mark")
    /\ ~ScanEnded(t)
    /\ ~Taken(t)
    /\ UNCHANGED <<activeIds, open, live, leaked, index>>

Mark(t) ==
    /\ Go(t, "mark", "construct")
    /\ activeIds' = activeIds \cup {index[t]}
    /\ UNCHANGED <<open, live, leaked, index>>

\* "Maximum number of RtConditionVariables reached"
ThrowMaximum(t) ==
    /\ Go(t, "scan", "out")
    /\ ScanEnded(t)
    /\ UNCHANGED <<activeIds, open, live, leaked, index>>

\* The constructor opens the port.  When it throws no destructor runs, and
\* the id stays taken.
Construct(t) ==
    /\ Go(t, "construct", "out")
    /\ index[t] \notin open
    /\ open' = open \cup {index[t]}
    /\ live' = live \cup {index[t]}
    /\ UNCHANGED <<activeIds, leaked, index>>

ConstructorThrows(t) ==
    /\ Go(t, "construct", "out")
    /\ CtorMayFail \/ index[t] \in open
    /\ leaked' = leaked \cup {index[t]}
    /\ UNCHANGED <<activeIds, open, live, index>>

Destroy(t, id) ==
    /\ t \in Destroyers
    /\ id \in live
    /\ Go(t, "out", DtorOrder[1])
    /\ live' = live \ {id}
    /\ index' = [index EXCEPT ![t] = id]
    /\ UNCHANGED <<activeIds, open, leaked>>

\* What follows step s of the destructor; the EVL one ends after the close.
AfterDtorStep(s) ==
    IF GivesBackIds /\ s = DtorOrder[1] THEN DtorOrder[2] ELSE "out"

ClosePort(t) ==
    /\ Go(t, "close", AfterDtorStep("close"))
    /\ open' = open \ {index[t]}
    /\ UNCHANGED <<activeIds, live, leaked, index>>

\* deregister_id
Deregister(t) ==
    /\ Go(t, "deregister", AfterDtorStep("deregister"))
    /\ activeIds' = activeIds \ {index[t]}
    /\ UNCHANGED <<open, live, leaked, index>>

ThreadStep(t) ==
    \/ Create(t)
    \/ SkipTaken(t)
    \/ SeeFree(t)
    \/ Mark(t)
    \/ ThrowMaximum(t)
    \/ Construct(t)
    \/ ConstructorThrows(t)
    \/ \E id \in Ids : Destroy(t, id)
    \/ ClosePort(t)
    \/ Deregister(t)

Next == \E t \in Threads : ThreadStep(t)

Spec == Init /\ [][Next]_vars

-----------------------------------------------------------------------------
\* The table, the ports and the threads are well formed: the scan stays inside
\* the table, and a condition variable that exists has its port open.
TypeOK ==
    /\ activeIds \subseteq Ids
    /\ open \subseteq Ids
    /\ live \subseteq open
    /\ leaked \subseteq Ids
    /\ step \in [Threads -> Steps]
    /\ index \in [Threads -> 0..MaxCondVars]

\* The threads that are constructing or destroying the object with this id.
HandledBy(id) ==
    {t \in Threads : /\ step[t] \in {"construct", "close", "deregister"}
                     /\ index[t] = id}

\* An id belongs to one condition variable at a time: it is not given to a
\* new one before the port of the last one is closed, as long as one thread
\* creates.
IdHasOneOwner ==
    \A id \in Ids :
        Cardinality(HandledBy(id)) + (IF id \in live THEN 1 ELSE 0) <= 1

\* An id that is taken belongs to a condition variable that exists, or is
\* being constructed or destroyed: the table loses none, but for those of the
\* constructors that threw.
NoIdIsLost ==
    \A id \in activeIds \ leaked : id \in live \/ HandledBy(id) # {}

\* A constructor fails only when the kernel refuses, never because the port
\* of its id is in use.
PortIsFree ==
    \A t \in Threads : step[t] = "construct" => index[t] \notin open

\* "Maximum number of RtConditionVariables reached" is thrown only when that
\* many exist at the same time.
MaximumIsReached ==
    [][\A t \in Threads :
          step[t] = "scan" /\ step'[t] = "out" => live = Ids]_vars
=============================================================================
