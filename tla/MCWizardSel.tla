----------------------------- MODULE MCWizardSel -----------------------------
(***************************************************************************)
(* Model-checking instance of Wizard with one history variable, selStage: *)
(* the stage on which the current list selection was made.  The program   *)
(* has no such variable; it only records the past so that a property can  *)
(* say which stage a ListState selection comes from.  A selection comes   *)
(* into being only when draw_ui turns NoSel into Some(0) (Drawn); every   *)
(* other step keeps or moves an existing one or clears it.                *)
(***************************************************************************)
EXTENDS Wizard

VARIABLE selStage

HInit == Init /\ selStage = NoSel

\* Next, with the history updated: a step that creates a selection records
\* the stage it was created on; every other step leaves the record alone.
HNext ==
    /\ Next
    /\ selStage' = IF cursor = NoSel /\ cursor' # NoSel THEN step ELSE selStage

HSpec == HInit /\ [][HNext]_<<vars, selStage>>

=============================================================================
