---------------------------- MODULE MCStudentLoop ----------------------------
(* Constants for model checking StudentLoop.                                 *)
EXTENDS StudentLoop, TLC
CONSTANTS r1, r2

Commands  == {"command"}
Symmetric == Permutations({r1, r2})
=============================================================================
