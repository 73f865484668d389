------------------------------ MODULE MCWizard ------------------------------
(***************************************************************************)
(* Model-checking instance of Wizard.                                      *)
(***************************************************************************)
EXTENDS Wizard
=============================================================================
