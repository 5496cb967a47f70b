----------------------------- MODULE ClassSetup -----------------------------
(***************************************************************************)
(* What create_class_vms does before and after its loop: the teacher's VM   *)
(* (slot 0 of the class's range) and the base VM (slot 99), whose disk the   *)
(* students' disks are overlays of.  A class that has a row or a base VM is  *)
(* added to, any other is set up from the beginning; after the setup with    *)
(* the template the setup without a template follows, whatever the class.    *)
(*                                                                          *)
(* Rows wait in the session for one commit when both VMs exist.  A failure   *)
(* loses them and leaves the VMs.  "qm list" and "qm config" know the VMs of *)
(* the node the shell runs on; an administrator may move or delete a VM.     *)
(***************************************************************************)
EXTENDS Naturals

CONSTANTS
    Deployments,     \* threads that run create_class_vms for the class
    SetupFailing     \* what may go wrong in a run

Infra == {"teacher", "base"}
SetupFailures == {"command",   \* a shell command or the connection fails
                  "commit",    \* "database is locked"
                  "moved",     \* an administrator migrates a VM
                  "deleted"}   \* an administrator deletes a VM

ASSUME SetupAssumption == SetupFailing \subseteq SetupFailures

VARIABLES
    templated,   \* the class has a template
    disk,        \* the cluster: the disk of a VM, "bare" for a VM without one
    away,        \* VMs on another node
    rows,        \* committed rows of vm_assignments of the two VMs
    pupils,      \* the disks of the other VMs that have a row: "manual" if not made here
    deploy       \* the deployments that are running

setupVars == <<templated, disk, away, rows, pupils, deploy>>

SetupPC == {"idle", "begin", "export", "teacher", "teacher_make", "base", "base_make",
            "shell", "shell_make", "shell_disk", "base2", "base2_make", "base2_disk",
            "store", "students"}
Deployment ==
    [pc: SetupPC,
     add: BOOLEAN,                \* adding_to_existing_class
     pending: [Infra -> 0..2]]    \* rows in the session
NoDeploy == [pc |-> "idle", add |-> FALSE, pending |-> [teacher |-> 0, base |-> 0]]

SetupTypeOK ==
    /\ templated \in BOOLEAN
    /\ disk \in [Infra -> {"none", "bare", "empty", "overlay"}]
    /\ away \subseteq {v \in Infra : disk[v] # "none"}
    /\ rows \in [Infra -> 0..2]
    /\ pupils \subseteq {"empty", "overlay", "manual"}
    /\ deploy \in [Deployments -> Deployment]

SetupInit ==
    /\ templated \in BOOLEAN
    /\ disk = [teacher |-> "none", base |-> "none"] /\ away = {}
    /\ rows = [teacher |-> 0, base |-> 0]
    /\ pupils = {}
    /\ deploy = [d \in Deployments |-> NoDeploy]

-----------------------------------------------------------------------------
In(d, pc)   == deploy[d].pc = pc
To(d, pc)   == deploy' = [deploy EXCEPT ![d].pc = pc]
GiveUp(d)   == deploy' = [deploy EXCEPT ![d] = NoDeploy]
OnDisk(v)   == disk[v] # "none"
Seen(v)     == OnDisk(v) /\ v \notin away            \* "qm list"
Anyone      == pupils # {} \/ \E v \in Infra : rows[v] > 0
Known(d, v) == rows[v] + deploy[d].pending[v] > 0    \* the query flushes first
RowTo(d, v, pc) ==
    deploy' = [deploy EXCEPT ![d] =
        [pc |-> pc, add |-> deploy[d].add,
         pending |-> [deploy[d].pending EXCEPT ![v] = deploy[d].pending[v] + 1]]]
(* Variant: nobody looks for a row.                                          *)
NeededRowAlways(d, v, pc) == RowTo(d, v, pc)
(* "Creating missing VMAssignment record for existing ... VM".               *)
NeededRow(d, v, pc) == IF Known(d, v) THEN To(d, pc) ELSE RowTo(d, v, pc)
Becomes(v, k) == disk' = [disk EXCEPT ![v] = k] /\ away' = away \ {v}
Command == "command" \in SetupFailing

(* An exception or an early return: what is not committed is lost.           *)
Breaks(d) ==
    /\ ~In(d, "idle") /\ Command
    /\ GiveUp(d)
    /\ UNCHANGED <<templated, disk, away, rows, pupils>>

-----------------------------------------------------------------------------
(* Variant: rows do not count.                                               *)
AddsToBaseOnly == Seen("base")
(* "prefer class-base VM existence over DB assignments"                      *)
AddsTo == Anyone \/ Seen("base")

(* The template's row, the cluster, the connection and the prefix.           *)
SetupBegin(d) ==
    /\ In(d, "idle")
    /\ deploy' = [deploy EXCEPT ![d] =
          [pc |-> "begin", add |-> AddsTo, pending |-> NoDeploy.pending]]
    /\ UNCHANGED <<templated, disk, away, rows, pupils>>

(* "Cannot add VMs: teacher VM not found", "Cannot read teacher VM config".  *)
AddStudents(d) ==
    /\ In(d, "begin") /\ deploy[d].add
    /\ IF rows["teacher"] > 0 /\ Seen("teacher") THEN To(d, "students") ELSE GiveUp(d)
    /\ UNCHANGED <<templated, disk, away, rows, pupils>>

(* The storage is valid; the template is exported, again if need be.         *)
New(d) ==
    /\ In(d, "begin") /\ ~deploy[d].add
    /\ To(d, IF templated THEN "export" ELSE "teacher")
    /\ UNCHANGED <<templated, disk, away, rows, pupils>>

Export(d) ==
    /\ In(d, "export")
    /\ To(d, "teacher")
    /\ UNCHANGED <<templated, disk, away, rows, pupils>>

-----------------------------------------------------------------------------
(* create_overlay_vm for v.  A VM on another node keeps its VMID, so that the
   configuration cannot be written and the directory of its disk is removed,
   unless the VM runs and the file is locked.
   Without a template the path of the base file was never set: an exception. *)
Overlay(d, v, next) ==
    /\ \/ templated /\ ~OnDisk(v)
          /\ Becomes(v, "overlay") /\ RowTo(d, v, next)
       \/ templated /\ OnDisk(v)
          /\ disk' \in {disk, [disk EXCEPT ![v] = "bare"]} /\ UNCHANGED away
          /\ GiveUp(d)
       \/ templated /\ Command /\ ~OnDisk(v)
          /\ \E k \in {"none", "bare"} : Becomes(v, k)
          /\ GiveUp(d)
       \/ ~templated /\ UNCHANGED <<disk, away>> /\ GiveUp(d)
    /\ UNCHANGED <<templated, rows, pupils>>

(* The VM is looked for before it is made.                                   *)
Look(d, v, found, absent) ==
    /\ IF Seen(v) THEN NeededRow(d, v, found) ELSE To(d, absent)
    /\ UNCHANGED <<templated, disk, away, rows, pupils>>

TeacherVm(d) == \/ In(d, "teacher") /\ Look(d, "teacher", "base", "teacher_make")
                \/ In(d, "teacher_make") /\ Overlay(d, "teacher", "base")
ClassBase(d) == \/ In(d, "base") /\ Look(d, "base", "shell", "base_make")
                \/ In(d, "base_make") /\ Overlay(d, "base", "shell")

-----------------------------------------------------------------------------
(* "WITHOUT TEMPLATE": the same two VMs again, as shells.                    *)

(* create_vm_shell: "qm create" refuses a VMID of any node.                  *)
Shell(d, v, next) ==
    /\ \/ ~OnDisk(v) /\ Becomes(v, "bare") /\ To(d, next)
       \/ OnDisk(v) /\ UNCHANGED <<disk, away>> /\ GiveUp(d)
       \/ Command /\ ~OnDisk(v) /\ Becomes(v, "bare") /\ GiveUp(d)
    /\ UNCHANGED <<templated, rows, pupils>>

(* The empty disk.  "qm destroy" after a failure works on this node only.    *)
Attach(d, v, next) ==
    /\ \/ /\ OnDisk(v)
          /\ disk' = [disk EXCEPT ![v] = "empty"] /\ UNCHANGED away
          /\ IF v = "base" THEN RowTo(d, v, next) ELSE To(d, next)
       \/ /\ Command \/ ~OnDisk(v)
          /\ IF Seen(v) THEN Becomes(v, "none") ELSE UNCHANGED <<disk, away>>
          /\ GiveUp(d)
    /\ UNCHANGED <<templated, rows, pupils>>

(* migrate_vm_to_node, before the teacher's disk: done, or left where it was. *)
MigrateTeacher(d) ==
    /\ In(d, "shell_disk") /\ Seen("teacher")
    /\ away' = away \cup {"teacher"}
    /\ UNCHANGED <<templated, disk, rows, pupils, deploy>>

TeacherShell(d) ==
    \/ In(d, "shell") /\ Look(d, "teacher", "base2", "shell_make")
    \/ In(d, "shell_make") /\ Shell(d, "teacher", "shell_disk")
    \/ In(d, "shell_disk") /\ Attach(d, "teacher", "base2")
    \/ MigrateTeacher(d)

BaseShell(d) ==
    \/ In(d, "base2") /\ Look(d, "base", "store", "base2_make")
    \/ In(d, "base2_make") /\ Shell(d, "base", "base2_disk")
    \/ In(d, "base2_disk") /\ Attach(d, "base", "store")

-----------------------------------------------------------------------------
(* The teacher's row if it is still missing, and the commit of both.         *)
Stored(d) ==
    [teacher |-> rows["teacher"] + (IF Known(d, "teacher")
                                    THEN deploy[d].pending["teacher"] ELSE 1),
     base |-> rows["base"] + deploy[d].pending["base"]]

Store(d) ==
    /\ In(d, "store")
    /\ \/ rows' = Stored(d)
          /\ deploy' = [deploy EXCEPT ![d] =
                 [pc |-> "students", add |-> deploy[d].add, pending |-> NoDeploy.pending]]
       \/ "commit" \in SetupFailing /\ GiveUp(d) /\ UNCHANGED rows
    /\ UNCHANGED <<templated, disk, away, pupils>>

(* The loop (module StudentLoop): overlays of the base VM's disk when VMs are
   added, otherwise empty disks, because the path of the base file was reset. *)
StudentDisk(d) == IF deploy[d].add THEN "overlay" ELSE "empty"

StudentRows(d) ==
    /\ In(d, "students")
    /\ \/ /\ deploy[d].add => disk["base"] \in {"empty", "overlay"}
          /\ pupils' = pupils \cup {StudentDisk(d)}
       \/ UNCHANGED pupils
    /\ GiveUp(d)
    /\ UNCHANGED <<templated, disk, away, rows>>

-----------------------------------------------------------------------------
(* An administrator, with Proxmox or with the route that adds a VM by hand.  *)

Move(v) ==
    /\ "moved" \in SetupFailing /\ Seen(v)
    /\ away' = away \cup {v}
    /\ UNCHANGED <<templated, disk, rows, pupils, deploy>>

DeleteVm(v) ==
    /\ "deleted" \in SetupFailing /\ OnDisk(v)
    /\ Becomes(v, "none")
    /\ UNCHANGED <<templated, rows, pupils, deploy>>

AddByHand ==
    /\ pupils' = pupils \cup {"manual"}
    /\ UNCHANGED <<templated, disk, away, rows, deploy>>

SetupStep(d) == \/ AddStudents(d) \/ New(d) \/ Export(d) \/ TeacherVm(d) \/ ClassBase(d)
                \/ TeacherShell(d) \/ BaseShell(d) \/ Store(d) \/ StudentRows(d) \/ Breaks(d)

SetupNext == \/ \E d \in Deployments : SetupBegin(d) \/ SetupStep(d)
             \/ \E v \in Infra : Move(v) \/ DeleteVm(v)
             \/ AddByHand

SetupSpec == SetupInit /\ [][SetupNext]_setupVars

-----------------------------------------------------------------------------
(* A deployment of this class alone, repeated.                               *)

(* The teacher works on the disk of the teacher's VM and the students' disks are
   overlays of the base VM's.  Once both rows are stored, no deployment gives
   either VM another disk or takes its disk away, wherever its VM has been moved:
   the rows stand for VMs "qm list" may not see.
   (class_vm_service.py, create_class_vms)                                   *)
InfraKept ==
    [][\A v \in Infra :
          disk[v] \in {"empty", "overlay"} /\ rows["teacher"] > 0 /\ deploy' # deploy
              => disk'[v] = disk[v]]_setupVars

(* "Ensure VMAssignment exists for existing teacher VM": however often the setup
   breaks off and is repeated, and whatever is moved or deleted meanwhile, the
   teacher's VM gets one row.  (class_vm_service.py, create_class_vms)       *)
TeacherListedOnce == rows["teacher"] <= 1

(* No student VM is made for a class whose teacher's VM has no row: it would be
   seen by the students and given to one of them.
   (class_vm_service.py, create_class_vms)                                   *)
TeacherFirst ==
    \A d \in Deployments : In(d, "students") => rows["teacher"] > 0

(* "Create student VMs as QCOW2 overlays from the class base": students of a class
   with a template get no empty disk.  (class_vm_service.py:685)             *)
StudentsGetTheTemplate == templated => "empty" \notin pupils

(* However deployments break off and are repeated (class_vm_service.py,
   create_class_vms).                                                        *)
SetupInv == SetupTypeOK /\ TeacherListedOnce /\ TeacherFirst
=============================================================================
