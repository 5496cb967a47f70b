----------------------------- MODULE StudentLoop -----------------------------
(***************************************************************************)
(* The loop of create_class_vms that makes the student VMs of one class:   *)
(* VMIDs p01 to p98 of the class's range p are the slots 1..MaxIndex, p99   *)
(* is the base VM.  A class may be deployed again and again, and by two     *)
(* requests at once: nothing but "qm status" keeps them apart.              *)
(*                                                                          *)
(* Every step is a shell command that may fail.  Students get an overlay of *)
(* the base VM's disk when VMs are added to a class, an empty disk when the *)
(* class is new.  Rows wait in the session until a batch is full; a commit  *)
(* that fails loses them and the loop goes on.                              *)
(***************************************************************************)
EXTENDS Naturals, FiniteSets

CONSTANTS
    MaxIndex,      \* the last student slot: 98
    MaxTries,      \* MAX_ITERATIONS_WITHOUT_PROGRESS: 20
    BatchSize,     \* VM_CREATION_BATCH_SIZE (3 for large classes)
    Pools,         \* the numbers of VMs that may be asked for
    Requests,
    Failing        \* what may go wrong in a run

Failures == {"command",   \* a shell command fails, or the SSH connection
             "probe",     \* "qm status" does not see a VM (of another node)
             "commit"}    \* "database is locked" after 60 s

ASSUME LoopAssumption ==
    /\ MaxIndex \in Nat \ {0} /\ MaxTries \in Nat /\ BatchSize \in Nat \ {0}
    /\ Pools \subseteq Nat \ {0}
    /\ Failing \subseteq Failures

Slots == 1..MaxIndex
Base  == MaxIndex + 1
VmIds == 1..Base

VARIABLES
    vms,     \* the cluster: the VMIDs that have a configuration
    disks,   \* the cluster: the VMIDs that have a disk
    rows,    \* committed rows of vm_assignments, how many name a slot
    task     \* the deployments that are running

vars == <<vms, disks, rows, task>>

PC == {"idle", "begin", "loop", "disk", "conf", "shell", "attach", "finish"}
Working == {"disk", "conf", "shell", "attach"}

Task == [pc: PC,
         add: BOOLEAN,           \* adding_to_existing_class: overlays, no shells
         pool: Pools \cup {0},   \* pool_size
         index: VmIds,           \* current_index
         made: SUBSET Slots,     \* result.student_vmids; students_created of them
         pending: SUBSET Slots,  \* rows in the session
         batch: Nat,             \* vms_in_current_batch
         tries: Nat]             \* iterations_without_progress
Idle == [pc |-> "idle", add |-> FALSE, pool |-> 0, index |-> 1, made |-> {},
         pending |-> {}, batch |-> 0, tries |-> 0]

TypeOK ==
    /\ vms \subseteq VmIds
    /\ disks \subseteq VmIds
    /\ rows \in [Slots -> Nat]
    /\ task \in [Requests -> Task]

Init ==
    /\ vms = {} /\ disks = {}
    /\ rows = [i \in Slots |-> 0]
    /\ task = [r \in Requests |-> Idle]

At(r, pc) == task[r].pc = pc
Become(r, new) == task' = [task EXCEPT ![r] = new]
Goto(r, pc) == Become(r, [task[r] EXCEPT !.pc = pc])
Created(r) == Cardinality(task[r].made)
Index(r) == task[r].index
Listed(i) == i \in Slots /\ rows[i] > 0

-----------------------------------------------------------------------------
(* Before the loop: is the class new, and from which slot to go on.          *)

Start(r, n) ==
    /\ At(r, "idle")
    /\ Become(r, [Idle EXCEPT !.pc = "begin", !.pool = n,
                              !.add = Base \in vms \/ \E i \in Slots : Listed(i)])
    /\ UNCHANGED <<vms, disks, rows>>

(* Variant: the highest slot of a row itself.                                *)
NextIndexTaken(i) ==
    /\ \A j \in Slots : j > i => ~Listed(j)
    /\ i > 1 => Listed(i)

(* The slot after the highest one of a committed row.                        *)
NextIndex(i) ==
    /\ \A j \in Slots : j >= i => ~Listed(j)
    /\ i > 1 => Listed(i - 1)

(* A new class gets its base VM first, unless a VM has that VMID.            *)
Begin(r) ==
    /\ At(r, "begin")
    /\ IF task[r].add
          THEN UNCHANGED <<vms, disks>>
          ELSE vms' = vms \cup {Base} /\ disks' = disks \cup {Base}
    /\ \E i \in VmIds : /\ NextIndex(i)
                        /\ Become(r, [task[r] EXCEPT !.pc = "loop", !.index = i])
    /\ UNCHANGED rows

-----------------------------------------------------------------------------
(* The head of the loop.                                                     *)

MoreToMake(r)  == At(r, "loop") /\ Created(r) < task[r].pool
BatchFull(r)   == MoreToMake(r) /\ task[r].batch >= BatchSize

(* Variant: one VM too many.                                                 *)
LoopingOnce(r) == At(r, "loop") /\ Created(r) <= task[r].pool /\ task[r].batch < BatchSize
Looping(r)     == MoreToMake(r) /\ task[r].batch < BatchSize

Stored(r) == [i \in Slots |-> IF i \in task[r].pending THEN rows[i] + 1 ELSE rows[i]]

BatchCommit(r) ==
    /\ BatchFull(r)
    /\ rows' = Stored(r)
    /\ Become(r, [task[r] EXCEPT !.pending = {}, !.batch = 0])
    /\ UNCHANGED <<vms, disks>>

(* "Batch commit failed": rolled back, and the loop goes on.                 *)
BatchCommitFails(r) ==
    /\ BatchFull(r)
    /\ "commit" \in Failing
    /\ Become(r, [task[r] EXCEPT !.pending = {}, !.batch = 0])
    /\ UNCHANGED <<vms, disks, rows>>

PoolMade(r) ==
    /\ At(r, "loop") /\ Created(r) >= task[r].pool
    /\ Goto(r, "finish")
    /\ UNCHANGED <<vms, disks, rows>>

(* Variant: the base VM's slot is given out, too.                            *)
SlotsLeftAll(r) == Index(r) <= Base
SlotsLeft(r)    == Index(r) < Base

LimitReached(r) ==
    /\ Looping(r) /\ ~SlotsLeft(r)
    /\ Goto(r, "finish")
    /\ UNCHANGED <<vms, disks, rows>>

(* To the next slot; a miss that is counted may be the last one.             *)
NextSlot(r) == [task[r] EXCEPT !.pc = "loop", !.index = @ + 1]
Missed(r)   == [task[r] EXCEPT !.pc = IF task[r].tries + 1 >= MaxTries THEN "finish"
                                                                       ELSE "loop",
                               !.index = @ + 1, !.tries = @ + 1]

(* "qm status" finds a VM: it is listed for the class unless it is already.  *)
ProbeFinds(r) ==
    /\ Looping(r) /\ SlotsLeft(r)
    /\ Index(r) \in vms
    /\ Become(r, [Missed(r) EXCEPT !.pending =
                      IF Listed(Index(r)) THEN @ ELSE @ \cup {Index(r)}])
    /\ UNCHANGED <<vms, disks, rows>>

ProbeFindsNone(r) ==
    /\ Looping(r) /\ SlotsLeft(r)
    /\ Index(r) \notin vms \/ "probe" \in Failing
    /\ Goto(r, IF task[r].add THEN "disk" ELSE "shell")
    /\ UNCHANGED <<vms, disks, rows>>

(* An exception outside the inner try: the SSH connection at "qm status", the
   database at the query for a row.  Everything not committed is rolled back. *)
Abort(r) ==
    /\ MoreToMake(r)
    /\ Failing \cap {"command", "commit"} # {}
    /\ Become(r, Idle)
    /\ UNCHANGED <<vms, disks, rows>>

(* The VM is complete: its row joins the session.                            *)
OneMore(r) == [NextSlot(r) EXCEPT !.made = @ \cup {Index(r)},
                                  !.pending = @ \cup {Index(r)},
                                  !.batch = @ + 1, !.tries = 0]
Made(r) == Become(r, OneMore(r))

-----------------------------------------------------------------------------
(* create_overlay_vm: a disk over whatever file is there, then a copy of the
   base VM's configuration over whatever configuration is there.             *)

(* Variant: the loop stays where it is.                                      *)
SkipStays(r) == Goto(r, "loop")
(* A failure moves on to the next slot and is not counted as a try.          *)
Skip(r) == Become(r, NextSlot(r))

OverlayDisk(r) ==
    /\ At(r, "disk")
    /\ disks' = disks \cup {Index(r)}
    /\ Goto(r, "conf")
    /\ UNCHANGED <<vms, rows>>

OverlayDiskFails(r) ==
    /\ At(r, "disk") /\ "command" \in Failing
    /\ Skip(r)
    /\ UNCHANGED <<vms, disks, rows>>

OverlayConf(r) ==
    /\ At(r, "conf")
    /\ vms' = vms \cup {Index(r)}
    /\ Made(r)
    /\ UNCHANGED <<disks, rows>>

(* "rm -rf" of the disk; the configuration may have been written before.     *)
OverlayConfFails(r) ==
    /\ At(r, "conf") /\ "command" \in Failing
    /\ vms' \in {vms, vms \cup {Index(r)}}
    /\ disks' = disks \ {Index(r)}
    /\ Skip(r)
    /\ UNCHANGED rows

(* An exception instead: "qm destroy --purge", which may fail as well.       *)
OverlayRaises(r) ==
    /\ At(r, "disk") \/ At(r, "conf")
    /\ "command" \in Failing
    /\ \/ Index(r) \in vms /\ vms' = vms \ {Index(r)} /\ disks' = disks \ {Index(r)}
       \/ UNCHANGED <<vms, disks>>
    /\ Skip(r)
    /\ UNCHANGED rows

-----------------------------------------------------------------------------
(* create_vm_shell and an empty disk.  The two failures change neither the slot
   nor a counter.                                                            *)

ShellCreate(r) ==
    /\ At(r, "shell") /\ Index(r) \notin vms
    /\ vms' = vms \cup {Index(r)}
    /\ Goto(r, "attach")
    /\ UNCHANGED <<disks, rows>>

(* "qm create" refuses a VMID in use; any other failure may come after it.   *)
ShellFails(r) ==
    /\ At(r, "shell")
    /\ \/ Index(r) \in vms /\ UNCHANGED vms
       \/ "command" \in Failing /\ vms' \in {vms, vms \cup {Index(r)}}
    /\ Goto(r, "loop")
    /\ UNCHANGED <<disks, rows>>

AttachDisk(r) ==
    /\ At(r, "attach") /\ Index(r) \in vms
    /\ disks' = disks \cup {Index(r)}
    /\ Made(r)
    /\ UNCHANGED <<vms, rows>>

(* "qm destroy", whose result nobody looks at.                               *)
AttachFails(r) ==
    /\ At(r, "attach")
    /\ Index(r) \notin vms \/ "command" \in Failing
    /\ \/ vms' = vms \ {Index(r)} /\ disks' = disks \ {Index(r)}
       \/ UNCHANGED <<vms, disks>>
    /\ Goto(r, "loop")
    /\ UNCHANGED rows

(* The SSH connection is lost after "qm create": the VM stays without a row. *)
ShellRaises(r) ==
    /\ At(r, "attach") /\ "command" \in Failing
    /\ Become(r, Missed(r))
    /\ UNCHANGED <<vms, disks, rows>>

-----------------------------------------------------------------------------
FinalCommit(r) ==
    /\ At(r, "finish")
    /\ rows' = Stored(r)
    /\ Become(r, Idle)
    /\ UNCHANGED <<vms, disks>>

FinalCommitFails(r) ==
    /\ At(r, "finish") /\ "commit" \in Failing
    /\ Become(r, Idle)
    /\ UNCHANGED <<vms, disks, rows>>

Head(r)    == \/ Begin(r) \/ BatchCommit(r) \/ BatchCommitFails(r) \/ PoolMade(r)
              \/ LimitReached(r) \/ ProbeFinds(r) \/ ProbeFindsNone(r) \/ Abort(r)
Overlay(r) == \/ OverlayDisk(r) \/ OverlayDiskFails(r) \/ OverlayConf(r)
              \/ OverlayConfFails(r) \/ OverlayRaises(r)
Shell(r)   == \/ ShellCreate(r) \/ ShellFails(r) \/ AttachDisk(r) \/ AttachFails(r)
              \/ ShellRaises(r)
Step(r)    == Head(r) \/ Overlay(r) \/ Shell(r) \/ FinalCommit(r) \/ FinalCommitFails(r)

Next == \E r \in Requests : Step(r) \/ \E n \in Pools : Start(r, n)

Spec == Init /\ [][Next]_vars

(* The thread of a deployment runs on; nobody need start one.                *)
FairSpec == Spec /\ \A r \in Requests : WF_vars(Step(r))

-----------------------------------------------------------------------------
(* Safety.                                                                   *)

(* A deployment makes no more student VMs than it was asked for, each in a slot
   of its own below the one it looks at next, and never works on the base VM's
   slot, however its commands fail.  (class_vm_service.py, create_class_vms)  *)
LoopInv ==
    \A r \in Requests :
        /\ Created(r) <= task[r].pool
        /\ task[r].pc \in Working => Created(r) < task[r].pool /\ SlotsLeft(r)
        /\ \A i \in task[r].made \cup task[r].pending : i < Index(r)

(* The base VM, whose disk backs every student's, is neither destroyed nor loses
   its disk to a student's clean-up.  (vm_template.py, create_overlay_vm)     *)
BaseStays == [][/\ Base \in vms => Base \in vms'
                /\ Base \in disks => Base \in disks']_vars

(* "VM exists - ensure assignment exists, then skip to next index": no command is
   given for a slot that a row, committed or not, already lists, even when the
   probe does not see its VM.  (class_vm_service.py, create_class_vms)        *)
ListedUntouched ==
    \A r \in Requests : task[r].pc \in Working =>
        ~Listed(Index(r)) /\ Index(r) \notin task[r].pending

(* One row per VM, so that one VM is given to one student.
   (class_vm_service.py, create_class_vms)                                   *)
RowsUnique == \A i \in Slots : rows[i] <= 1

(* "Create VMAssignment records for all VMs": every VM a deployment has made has
   a committed row or one in the session.  (class_vm_service.py:690)         *)
MadeAreListed ==
    \A r \in Requests : \A i \in task[r].made : Listed(i) \/ i \in task[r].pending

(* One deployment alone, whatever fails, keeps rows and VMs together
   (class_vm_service.py, create_class_vms).                                  *)
LoneInv == TypeOK /\ RowsUnique /\ ListedUntouched /\ MadeAreListed

(* Liveness.                                                                 *)

(* "Safety counter to prevent infinite loops": a deployment ends.            *)
LoopEnds == \A r \in Requests : ~At(r, "idle") ~> At(r, "idle")

(* A deployment that adds VMs to a class ends, whatever fails.
   (class_vm_service.py, create_class_vms)                                   *)
AddEnds == \A r \in Requests : (~At(r, "idle") /\ task[r].add) ~> At(r, "idle")
=============================================================================
