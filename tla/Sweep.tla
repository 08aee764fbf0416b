------------------------------- MODULE Sweep -------------------------------
(***************************************************************************)
(* The arithmetic of the repository is swept in one run: a behaviour is a  *)
(* sweep of one unit, and the invariants about a unit apply to its own     *)
(* behaviours.                                                             *)
(***************************************************************************)

VARIABLE unit  \* "core", "adder" or "array"

Units == {"core", "adder", "array"}

=============================================================================
