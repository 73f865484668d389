--------------------------- MODULE InstallPhases ---------------------------
(***************************************************************************)
(* What the installation pipeline promises at the level of its phases     *)
(* (spec 4.4): the twelve phases run in their fixed order, one after the   *)
(* other, none skipped and none revisited; the run either fails inside a   *)
(* phase (nothing after it runs) or completes the last phase, reboot.      *)
(* It always ends one way or the other.                                    *)
(*                                                                         *)
(*   1 repository configuration   5 base bootstrap    9 edition            *)
(*   2 partitioning               6 bind mounts      10 bootloader         *)
(*   3 filesystem creation        7 base packages,   11 cleanup            *)
(*   4 mounting                     user setup       12 reboot             *)
(*                                 8 hostname                              *)
(***************************************************************************)
EXTENDS Naturals

VARIABLES
    phase,    \* the phase being executed
    result,   \* "running", "failed" or "done"
    booted    \* the reboot of the last phase took place

LastPhase == 12

avars == <<phase, result, booted>>

Init ==
    /\ phase = 1
    /\ result = "running"
    /\ booted = FALSE

\* A phase is complete and the next one starts.
NextPhase ==
    /\ result = "running"
    /\ phase < LastPhase
    /\ phase' = phase + 1
    /\ UNCHANGED <<result, booted>>

\* The last phase completes: the reboot was invoked, and took place or not.
Complete ==
    /\ result = "running"
    /\ phase = LastPhase
    /\ result' = "done"
    /\ booted' \in BOOLEAN
    /\ UNCHANGED phase

\* A failure inside the current phase ends the run.
Abort ==
    /\ result = "running"
    /\ result' = "failed"
    /\ UNCHANGED <<phase, booted>>

Next == NextPhase \/ Complete \/ Abort

\* The run does not stop in the middle of a phase.
Spec == Init /\ [][Next]_avars /\ WF_avars(Next)
=============================================================================
