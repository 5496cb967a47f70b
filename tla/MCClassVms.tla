----------------------------- MODULE MCClassVms ------------------------------
(* One class at work, one question at a time: "part" names the module whose   *)
(* steps are taken, the variables of the others stay as they begin.           *)
EXTENDS ClassImages, ClassSetup, SshPool, ClassPool, TLC
CONSTANTS p00, p99, p01, e0, c1, c0,
          a1, a2,   \* two owners, two hosts or two students, by the part
          b1, b2    \* two threads or two requests, by the part

VARIABLES part,
          template2, image2, machine2, teacherListed2, faults2, job2

imgVars2 == <<template2, image2, machine2, teacherListed2, faults2, job2>>
all == <<part, imgVars, imgVars2, setupVars, sshVars, vars>>

OneFault == [convert |-> 1, other |-> 2]
NoFault  == [convert |-> 0, other |-> 0]

(* Two of the class's owners at once, and no failures. *)
Two == INSTANCE ClassImages WITH
    Editors <- {a1, a2}, MaxFaults <- NoFault,
    template <- template2, image <- image2, machine <- machine2,
    teacherListed <- teacherListed2, faults <- faults2, job <- job2

(* One class with two pool VMs and room for a third, and the operations that  *)
(* leave one VM per student.                                                  *)
PoolRow  == [class |-> c1, user |-> NoUser, status |-> "available", kind |-> "pool"]
TwoPools == <<PoolRow, PoolRow, Blank>>
JoinOps  == {"join", "unassign", "delete_row", "delete_class", "deploy",
             "add_manual"}

Parts == {"images", "two_owners", "setup", "ssh", "join"}

MCInit ==
    /\ part \in Parts
    /\ ImgInit /\ (part # "images" => template)
    /\ Two!ImgInit /\ (part # "two_owners" => template2)
    /\ SetupInit /\ (part # "setup" => templated)
    /\ SshInit
    /\ Init

Only(p) ==
    /\ part = p /\ part' = part
    /\ p # "images"     => UNCHANGED imgVars
    /\ p # "two_owners" => UNCHANGED imgVars2
    /\ p # "setup"      => UNCHANGED setupVars
    /\ p # "ssh"        => UNCHANGED sshVars
    /\ p # "join"       => UNCHANGED vars

(* Executors are alike: a new one is the first that is unused. *)
InOrder ==
    \A x, y \in Executors : Unused(x) /\ ~Unused(x)' /\ y < x => ~Unused(y)

MCNext ==
    \/ Only("images") /\ ImgNext
    \/ Only("two_owners") /\ Two!ImgNext
    \/ Only("setup") /\ SetupNext
    \/ Only("ssh") /\ SshNext /\ InOrder
    \/ Only("join") /\ Next

MCSpec == MCInit /\ [][MCNext]_all

(* Without any failure, what remains of the class's images is lost only       *)
(* while two pushes are under way (class_vm_service.py,                       *)
(* push_staging_to_students).                                                 *)
TwoPushesLose == Two!OnlyTwoPushesLose

Alike == Permutations({a1, a2}) \cup Permutations({b1, b2})
=============================================================================
