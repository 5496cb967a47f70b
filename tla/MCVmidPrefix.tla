----------------------------- MODULE MCVmidPrefix ----------------------------
(* Constants for model checking VmidPrefix.                                  *)
EXTENDS VmidPrefix, TLC
CONSTANTS p1, p2, r1, r2, r3

(* The operations a run sets against each other. *)
OnlyCreate == {"create"}

Symmetric == Permutations({p1, p2}) \cup Permutations({r1, r2, r3})
=============================================================================
