----------------------------- MODULE RtCondVar -----------------------------
(***************************************************************************)
(* What an RtConditionVariable promises, whatever it is made of: wait()    *)
(* returns true only if notify() was called and no earlier wait has        *)
(* answered it.  One wait may answer several notifies, and a wait may      *)
(* return false without a reason (a spurious wakeup).                      *)
(***************************************************************************)
EXTENDS Naturals

VARIABLES
    pending,  \* notifies that no wait has answered
    wait      \* "waiting", or what the last wait returned

condVars == <<pending, wait>>

Init == pending = 0 /\ wait = "false"

Notify ==
    /\ pending' = pending + 1
    /\ UNCHANGED wait

Call ==
    /\ wait # "waiting"
    /\ wait' = "waiting"
    /\ UNCHANGED pending

ReturnTrue ==
    /\ wait = "waiting"
    /\ wait' = "true"
    /\ pending' < pending
    /\ pending' \in Nat

ReturnFalse ==
    /\ wait = "waiting"
    /\ wait' = "false"
    /\ pending' \in 0..pending

Next == Notify \/ Call \/ ReturnTrue \/ ReturnFalse

Spec == Init /\ [][Next]_condVars
=============================================================================
