--------------------------- MODULE SupervisedCommand ---------------------------
(***************************************************************************)
(* What isolarium promises about a command it runs in a nono sandbox, seen *)
(* from outside: it is launched at most once, isolarium answers only when  *)
(* it is over, a signal decides the exit code for good and is followed by  *)
(* force if need be, and once a signal has been taken isolarium does       *)
(* return.                                                                 *)
(***************************************************************************)
VARIABLES
    phase,  \* "idle", "running", "stopping", "forced" or "returned"
    child,  \* the command: "absent", "alive" or "gone"
    code    \* "none", "error", "own" (the command's), "INT" or "TERM" (128 + signal)

vars == <<phase, child, code>>

Init == phase = "idle" /\ child = "absent" /\ code = "none"

Launch ==
    /\ phase = "idle"
    /\ \/ phase' = "running" /\ child' = "alive" /\ UNCHANGED code
       \/ phase' = "returned" /\ code' = "error" /\ UNCHANGED child

ChildEnds == child = "alive" /\ child' = "gone" /\ UNCHANGED <<phase, code>>

Finish ==
    /\ phase = "running" /\ child = "gone"
    /\ phase' = "returned" /\ code' = "own"
    /\ UNCHANGED child

Ask ==
    /\ phase = "running"
    /\ phase' = "stopping" /\ code' \in {"INT", "TERM"}
    /\ UNCHANGED child

Force == phase = "stopping" /\ phase' = "forced" /\ UNCHANGED <<child, code>>

Return ==
    /\ phase \in {"stopping", "forced"} /\ child = "gone"
    /\ phase' = "returned"
    /\ UNCHANGED <<child, code>>

Next == Launch \/ ChildEnds \/ Finish \/ Ask \/ Force \/ Return

Spec == Init /\ [][Next]_vars

\* A command that is being stopped is forced or returns, and force works.
Stops == Force \/ Return \/ (phase = "forced" /\ ChildEnds)

FairSpec == Spec /\ WF_vars(Finish) /\ WF_vars(Stops)
=============================================================================
