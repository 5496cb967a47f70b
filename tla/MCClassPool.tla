----------------------------- MODULE MCClassPool -----------------------------
(* Constants for model checking ClassPool.  The tables the runs start from are
   what a finished deployment leaves: pool rows available, the class base VM
   reserved.                                                                 *)
EXTENDS ClassPool, TLC
CONSTANTS c1, c2, s1, s2, teacher, r1, r2, r3

Row(c, u, s, k) == [class |-> c, user |-> u, status |-> s, kind |-> k]
PoolRow(c)     == Row(c, NoUser, "available", "pool")
BaseRow(c)     == Row(c, NoUser, "reserved", "template")

(* One class: the base VM and one pool VM, room for one more. *)
BaseAndPool == <<BaseRow(c1), PoolRow(c1), Blank>>
(* One class: one pool VM, room for one more. *)
OnePool == <<PoolRow(c1), Blank>>
(* Two classes, each with its own row. *)
TwoClasses == <<BaseRow(c1), PoolRow(c2), Blank>>

AllButManual == AllOps \ {"add_manual"}
StudentOps == {"join", "auto", "unassign", "deploy", "delete_class"}
SequentialOps == AllOps \ {"assign_student", "invite"}

(* The operations the violation run sets against each other. *)
AutoVsJoin   == {"join", "auto", "unassign"}

Symmetric == Permutations({s1, s2}) \cup Permutations({r1, r2})
=============================================================================
