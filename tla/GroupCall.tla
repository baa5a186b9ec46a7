------------------------------ MODULE GroupCall ------------------------------
(***************************************************************************)
(* What one call through a group client promises its caller, whatever     *)
(* routing and retries happen inside it (spec sections 3 and 4): a call   *)
(* begins, the group executes its request some number of times, and the  *)
(* call returns.  A request that is not idempotent is executed at most    *)
(* once; an idempotent one (read-only, or declared safe to repeat on a    *)
(* transport fault) may be executed again.  A call may also be refused    *)
(* before it begins (no route to the group).                              *)
(***************************************************************************)
EXTENDS Naturals

CONSTANTS
    Methods,    \* the methods a caller may invoke
    Idempotent  \* those whose request may run more than once

VARIABLES
    calling,    \* a call is in progress
    callOp,     \* the method of the current (or last) call
    execs       \* executions of its request by the group

vars == <<calling, callOp, execs>>

Init ==
    /\ calling = FALSE
    /\ callOp \in Methods
    /\ execs = 0

Begin(o) ==
    /\ ~calling
    /\ calling' = TRUE
    /\ callOp' = o
    /\ execs' = 0

Refuse(o) ==
    /\ ~calling
    /\ callOp' = o
    /\ execs' = 0
    /\ UNCHANGED calling

\* The group executes the request; the call may return in the same step.
Execute ==
    /\ calling
    /\ callOp \in Idempotent \/ execs = 0
    /\ execs' = execs + 1
    /\ calling' \in {TRUE, FALSE}
    /\ UNCHANGED callOp

Return ==
    /\ calling
    /\ calling' = FALSE
    /\ UNCHANGED <<callOp, execs>>

Next == (\E o \in Methods : Begin(o) \/ Refuse(o)) \/ Execute \/ Return

Spec == Init /\ [][Next]_vars

====
