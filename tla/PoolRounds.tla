----------------------------- MODULE PoolRounds -----------------------------
(***************************************************************************)
(* What a worker pool promises its client, without barriers, semaphores or *)
(* counters: the callbacks run in rounds.  A wakeup makes one call of the  *)
(* callback due for every worker, it may be made only when no worker is    *)
(* running or due, and a wait returns only when all calls that were due    *)
(* have been made and have returned.                                       *)
(***************************************************************************)
CONSTANT Workers

VARIABLES
    job,     \* what each worker is doing
    waiting  \* the host is waiting for the workers

roundVars == <<job, waiting>>

\* "away": started, or back from its callback, and not yet idle.
Jobs == {"absent", "away", "idle", "due", "running"}

Move(w, from, to) ==
    /\ job[w] = from
    /\ job' = [job EXCEPT ![w] = to]
    /\ UNCHANGED waiting

AllIdle == \A w \in Workers : job[w] \in {"absent", "idle"}

Init ==
    /\ job = [w \in Workers |-> "absent"]
    /\ waiting = FALSE

Join(w) == Move(w, "absent", "away")

Halt(w) == Move(w, "away", "idle")

\* wakeup_workers, or wakeup_and_wait, which goes on to wait.
Wake(andWait) ==
    /\ ~waiting
    /\ AllIdle
    /\ job' = [w \in Workers |-> IF job[w] = "idle" THEN "due" ELSE job[w]]
    /\ waiting' = andWait

Start(w) == Move(w, "due", "running")

Finish(w) == Move(w, "running", "away")

\* A worker that is told to stop leaves instead of running its callback.
Leave(w) == Move(w, "due", "absent")

Wait ==
    /\ ~waiting
    /\ waiting' = TRUE
    /\ UNCHANGED job

Return ==
    /\ waiting
    /\ AllIdle
    /\ waiting' = FALSE
    /\ UNCHANGED job

Next ==
    \/ \E w \in Workers :
          Join(w) \/ Halt(w) \/ Start(w) \/ Finish(w) \/ Leave(w)
    \/ \E andWait \in BOOLEAN : Wake(andWait)
    \/ Wait
    \/ Return

Spec == Init /\ [][Next]_roundVars
=============================================================================
