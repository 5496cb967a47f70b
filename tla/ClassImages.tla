---------------------------- MODULE ClassImages ----------------------------
(***************************************************************************)
(* The disk images of one class and the operations that replace them: save  *)
(* the teacher's disk to a staging image, push it to the students, save and *)
(* deploy in one go, publish by copying disks, reimage the teacher's VM and *)
(* recreate the students' VMs with new hardware.                            *)
(*                                                                          *)
(* The images are files on the Proxmox storage, named after the class:      *)
(*   base     <class>-base.qcow2          backs the teacher's and p99's disk *)
(*   staging  <class>-staging.qcow2       what "Save" made, not yet pushed   *)
(*   old      <class>-base.old            the base while a push replaces it  *)
(*   backup   <class>-base.backup.qcow2   the base while a deploy replaces it*)
(* A step is one remote command (or the run of commands that touch nothing  *)
(* the properties see).  A command can exit non-zero, which most callers    *)
(* ignore (check=False), or raise because the connection is lost.           *)
(* What the remaining lines of save_and_deploy_teacher_vm would do after a  *)
(* successful export is not modelled: no execution reaches them (Deploy).   *)
(***************************************************************************)
EXTENDS Naturals, FiniteSets

CONSTANTS
    Students,     \* the VMs of the students, one row each
    Assigned,     \* those whose row has status 'assigned'
    Placed,       \* those whose row names a node
    Teacher,      \* the teacher's VM, <prefix>00
    BaseVm,       \* the class-base VM, <prefix>99, whose disk backs the students'
    PathDisks,    \* VMs whose disk line in Proxmox holds a path, not storage:volume
    Editors,      \* requests of the class's owners that run at the same time
    ImageOps,     \* bound: the operations a run lets them start
    MaxFaults     \* bound: how many conversions and how many other commands fail

Vms   == Students \cup {Teacher, BaseVm}
Files == {"base", "staging", "old", "backup"}
Image == {"none", "part", "whole"}
(* What a VM's disk is: missing, an overlay of the base image, an overlay of *)
(* the class-base VM's disk, or complete in itself.                          *)
Disk    == {"none", "base", "base_vm", "own"}
Machine == [made: BOOLEAN, disk: Disk, path: BOOLEAN, runs: BOOLEAN]
Gone    == [made |-> FALSE, disk |-> "none", path |-> FALSE, runs |-> FALSE]

Kinds == {"convert", "other"}

AllImageOps == {"save", "push", "deploy", "publish", "reimage", "recreate"}

ASSUME ImageAssumption ==
    /\ Teacher \notin Students /\ BaseVm \notin Students /\ Teacher # BaseVm
    /\ Assigned \subseteq Students /\ Placed \subseteq Students
    /\ ImageOps \subseteq AllImageOps
    /\ MaxFaults \in [Kinds -> Nat]

VARIABLES
    template,   \* the class was made from a template (class_.template)
    image,      \* the image files
    machine,    \* the VMs as Proxmox has them
    teacherListed,     \* the teacher's VM has its vm_assignments row
    faults,     \* how many conversions and other commands have failed so far
    job         \* where each editor is

imgVars == <<template, image, machine, teacherListed, faults, job>>

JobPC == {"idle", "save_remove", "save_convert", "push_test", "push_stop", "push_backup",
          "push_swap", "push_rebase", "push_clean", "push_restore", "deploy_stop",
          "deploy_backup", "deploy_export", "deploy_restore", "publish_remove",
          "publish_copy", "publish_students", "reimage_delete", "reimage_make",
          "recreate_test", "recreate"}
Job   == [pc: JobPC, todo: SUBSET Students]
Rest  == [pc |-> "idle", todo |-> {}]

ImgTypeOK ==
    /\ template \in BOOLEAN
    /\ image \in [Files -> Image]
    /\ machine \in [Vms -> Machine]
    /\ \A v \in Vms : machine[v].made \/ machine[v] = Gone
    /\ teacherListed \in BOOLEAN
    /\ faults \in [Kinds -> Nat]
    /\ job \in [Editors -> Job]

(* A class as create_class_vms leaves it: from a template, a base image, the *)
(* teacher's and p99's overlays of it and the students' overlays of p99's    *)
(* disk; without one, no image and a disk of its own for each VM.            *)
ImgInit ==
    /\ template \in BOOLEAN
    /\ image = [f \in Files |-> IF f = "base" /\ template THEN "whole" ELSE "none"]
    /\ machine = [v \in Vms |->
           [made |-> TRUE, runs |-> FALSE, path |-> v \in PathDisks,
            disk |-> IF ~template THEN "own"
                     ELSE IF v \in Students THEN "base_vm" ELSE "base"]]
    /\ teacherListed = TRUE
    /\ faults = [k \in Kinds |-> 0]
    /\ job = [e \in Editors |-> Rest]

-----------------------------------------------------------------------------
(* What commands do.                                                         *)

Doing(e, pc) == job[e].pc = pc
Proceed(e, pc) == job' = [job EXCEPT ![e].pc = pc]
Answer(e) == job' = [job EXCEPT ![e] = Rest]
Handled(e, s) == job' = [job EXCEPT ![e].todo = @ \ {s}]

Failing(kind) ==
    /\ faults[kind] < MaxFaults[kind]
    /\ faults' = [faults EXCEPT ![kind] = @ + 1]

(* mv: without its source it exits non-zero and changes nothing. *)
Moved(a, b) ==
    IF image[a] = "none" THEN image ELSE [image EXCEPT ![b] = image[a], ![a] = "none"]
Removed(f) == [image EXCEPT ![f] = "none"]

(* A command run with check=False: a non-zero exit goes on like a success, a *)
(* lost connection goes to the handler at pc.                                *)
Lenient(e, result, next, handler) ==
    \/ /\ image' = result
       /\ Proceed(e, next)
       /\ UNCHANGED faults
    \/ /\ Failing("other")
       /\ Proceed(e, next) \/ Proceed(e, handler)
       /\ UNCHANGED image

Begin(e, op, pc) ==
    /\ Doing(e, "idle")
    /\ op \in ImageOps
    /\ job' = [job EXCEPT ![e] = [pc |-> pc, todo |->
                   CASE op \in {"push", "publish"} -> Students
                     [] op = "recreate" -> Assigned
                     [] OTHER -> {}]]

(* The disk has all the files it is an overlay of, directly or through p99.  *)
Backed(d) == d = "own" \/ (d = "base" /\ image["base"] = "whole")
Whole(v) ==
    /\ machine[v].made
    /\ \/ Backed(machine[v].disk)
       \/ /\ machine[v].disk = "base_vm"
          /\ machine[BaseVm].made
          /\ Backed(machine[BaseVm].disk)

(* Where save_teacher_vm_to_base and push_staging_to_students look for a     *)
(* disk: storage:vmid/name.qcow2, the form the program writes, becomes       *)
(* .../images/vmid/vmid/name.qcow2.qcow2, a file there is none of.  Only a   *)
(* disk line that holds a path names the disk.                               *)
Found(v) == machine[v].made /\ machine[v].path /\ machine[v].disk # "none"

(* Someone starts or stops a VM in the portal or in Proxmox. *)
Power(v) ==
    /\ IF machine[v].runs THEN TRUE ELSE Whole(v)
    /\ machine' = [machine EXCEPT ![v].runs = ~machine[v].runs]
    /\ UNCHANGED <<template, image, teacherListed, faults, job>>

-----------------------------------------------------------------------------
(* save: the teacher's disk, flattened, becomes the staging image.           *)

(* The VM is stopped first; that it did not stop is only logged. *)
SaveStart(e) ==
    /\ teacherListed
    /\ Begin(e, "save", "save_remove")
    /\ \/ /\ machine' = [machine EXCEPT ![Teacher].runs = FALSE]
          /\ UNCHANGED faults
       \/ /\ Failing("other")
          /\ UNCHANGED machine
    /\ UNCHANGED <<template, image, teacherListed>>

SaveRemove(e) ==
    /\ Doing(e, "save_remove")
    /\ \/ /\ machine[Teacher].made
          /\ Lenient(e, Removed("staging"), "save_convert", "save_convert")
       \/ /\ ~machine[Teacher].made
          /\ Answer(e)
          /\ UNCHANGED <<image, faults>>
       \/ /\ Failing("other")
          /\ Answer(e)
          /\ UNCHANGED image
    /\ UNCHANGED <<template, machine, teacherListed>>

(* qemu-img convert fails on a disk it cannot read or that a running VM has  *)
(* locked; one that stops half-way leaves what it has written.               *)
SaveConvert(e) ==
    /\ Doing(e, "save_convert")
    /\ LET readable == Found(Teacher) /\ Whole(Teacher) /\ ~machine[Teacher].runs
       IN  \/ /\ readable
              /\ image' = [image EXCEPT !["staging"] = "whole"]
              /\ Answer(e)
              /\ UNCHANGED faults
           \/ /\ readable
              /\ Failing("convert")
              /\ image' = [image EXCEPT !["staging"] = "part"]
              /\ Answer(e)
           \/ /\ ~readable
              /\ Answer(e)
              /\ UNCHANGED <<image, faults>>
    /\ UNCHANGED <<template, machine, teacherListed>>

-----------------------------------------------------------------------------
(* push: the staging image becomes the base and the overlays are rebased.    *)

PushStart(e) ==
    /\ Begin(e, "push", "push_test")
    /\ UNCHANGED <<template, image, machine, teacherListed, faults>>

(* test -f: that there is a file, not that "Save" finished it.  A connection *)
(* lost here already takes the handler that puts the old base back.          *)
PushTest(e) ==
    /\ Doing(e, "push_test")
    /\ \/ /\ image["staging"] # "none" /\ Students # {}
          /\ Proceed(e, "push_stop")
          /\ UNCHANGED faults
       \/ /\ image["staging"] = "none" \/ Students = {}
          /\ Answer(e)
          /\ UNCHANGED faults
       \/ /\ Failing("other")
          /\ Answer(e) \/ Proceed(e, "push_restore")
    /\ UNCHANGED <<template, image, machine, teacherListed>>

PushStop(e) ==
    /\ Doing(e, "push_stop")
    /\ \/ /\ machine' = [v \in Vms |->
                 IF v \in Students THEN [machine[v] EXCEPT !.runs = FALSE] ELSE machine[v]]
          /\ Proceed(e, "push_backup")
          /\ UNCHANGED faults
       \/ /\ Failing("other")
          /\ Proceed(e, "push_backup")
          /\ UNCHANGED machine
       \/ /\ Failing("other")
          /\ Proceed(e, "push_restore")
          /\ UNCHANGED machine
    /\ UNCHANGED <<template, image, teacherListed>>

(* Variant: the old base is removed, not renamed.                            *)
PushBackupRemoves(e) ==
    /\ Doing(e, "push_backup")
    /\ Lenient(e, Removed("base"), "push_swap", "push_restore")
    /\ UNCHANGED <<template, machine, teacherListed>>

PushBackup(e) ==
    /\ Doing(e, "push_backup")
    /\ Lenient(e, Moved("base", "old"), "push_swap", "push_restore")
    /\ UNCHANGED <<template, machine, teacherListed>>

(* Variant: the second rename is run with check=False like the first.        *)
PushSwapUnchecked(e) ==
    /\ Doing(e, "push_swap")
    /\ Lenient(e, Moved("staging", "base"), "push_rebase", "push_restore")
    /\ UNCHANGED <<template, machine, teacherListed>>

(* The one command whose exit code is checked. *)
PushSwap(e) ==
    /\ Doing(e, "push_swap")
    /\ \/ /\ image["staging"] # "none"
          /\ image' = Moved("staging", "base")
          /\ Proceed(e, "push_rebase")
          /\ UNCHANGED faults
       \/ /\ image["staging"] = "none"
          /\ Proceed(e, "push_restore")
          /\ UNCHANGED <<image, faults>>
       \/ /\ Failing("other")
          /\ Proceed(e, "push_restore")
          /\ UNCHANGED image
    /\ UNCHANGED <<template, machine, teacherListed>>

(* A disk that is not found, or that a running VM has locked, is skipped. *)
PushRebase(e, s) ==
    /\ Doing(e, "push_rebase")
    /\ s \in job[e].todo
    /\ \/ /\ machine' = IF Found(s) /\ ~machine[s].runs
                        THEN [machine EXCEPT ![s].disk = "base"] ELSE machine
          /\ Handled(e, s)
          /\ UNCHANGED faults
       \/ /\ Failing("other")
          /\ Handled(e, s)
          /\ UNCHANGED machine
    /\ UNCHANGED <<template, image, teacherListed>>

PushRebased(e) ==
    /\ Doing(e, "push_rebase")
    /\ job[e].todo = {}
    /\ Proceed(e, "push_clean")
    /\ UNCHANGED <<template, image, machine, teacherListed, faults>>

(* A connection lost here takes the handler of the swap: it puts the old     *)
(* base back over the one just pushed.                                       *)
PushClean(e) ==
    /\ Doing(e, "push_clean")
    /\ \/ /\ image' = Removed("old")
          /\ Answer(e)
          /\ UNCHANGED faults
       \/ /\ Failing("other")
          /\ Answer(e) \/ Proceed(e, "push_restore")
          /\ UNCHANGED image
    /\ UNCHANGED <<template, machine, teacherListed>>

PushRestore(e) ==
    /\ Doing(e, "push_restore")
    /\ \/ /\ image' = Moved("old", "base")
          /\ Answer(e)
          /\ UNCHANGED faults
       \/ /\ Failing("other")
          /\ Answer(e)
          /\ UNCHANGED image
    /\ UNCHANGED <<template, machine, teacherListed>>

-----------------------------------------------------------------------------
(* save and deploy: a new base exported from the teacher's VM.               *)

(* The first matching row of the teacher; stop, then wait: a timeout is an   *)
(* answer, a status command that fails counts as stopped.                    *)
DeployBegin(e) ==
    /\ teacherListed
    /\ Begin(e, "deploy", "deploy_stop")
    /\ UNCHANGED <<template, image, machine, teacherListed, faults>>

DeployStop(e) ==
    /\ Doing(e, "deploy_stop")
    /\ \/ /\ machine' = [machine EXCEPT ![Teacher].runs = FALSE]
          /\ Proceed(e, "deploy_backup")
          /\ UNCHANGED faults
       \/ /\ Failing("other")
          /\ Answer(e) \/ Proceed(e, "deploy_backup")
          /\ UNCHANGED machine
    /\ UNCHANGED <<template, image, teacherListed>>

DeployBackup(e) ==
    /\ Doing(e, "deploy_backup")
    /\ \/ Lenient(e, Moved("base", "backup"), "deploy_export", "deploy_export")
       \/ Failing("other") /\ Answer(e) /\ UNCHANGED image
    /\ UNCHANGED <<template, machine, teacherListed>>

(* export_template_to_qcow2 returns 13 values when the VM has no readable    *)
(* configuration or disk and 18 after the conversion, whatever came of it;   *)
(* the caller unpacks 13.  18 of them raise, and the handler answers without *)
(* putting the backup back.  The conversion itself needs the teacher's disk  *)
(* to be readable once the base is out of the way: an overlay of the base is *)
(* not (and qemu-img refuses to write over an image it reads).               *)
DeployExport(e) ==
    /\ Doing(e, "deploy_export")
    /\ LET configured == machine[Teacher].made /\ machine[Teacher].disk # "none"
           readable   == /\ configured
                         /\ machine[Teacher].disk = "own"
                         /\ ~machine[Teacher].runs
       IN  \/ /\ ~configured
              /\ Proceed(e, "deploy_restore")
              /\ UNCHANGED <<image, faults>>
           \/ /\ Failing("other")
              /\ Proceed(e, "deploy_restore") \/ Answer(e)
              /\ UNCHANGED image
           \/ /\ readable
              /\ image' = [image EXCEPT !["base"] = "whole"]
              /\ Answer(e)
              /\ UNCHANGED faults
           \/ /\ readable
              /\ Failing("convert")
              /\ image' = [image EXCEPT !["base"] = "part"]
              /\ Answer(e)
           \/ /\ configured /\ ~readable
              /\ Answer(e)
              /\ UNCHANGED <<image, faults>>
    /\ UNCHANGED <<template, machine, teacherListed>>

DeployRestore(e) ==
    /\ Doing(e, "deploy_restore")
    /\ \/ /\ image' = Moved("backup", "base")
          /\ Answer(e)
          /\ UNCHANGED faults
       \/ /\ Failing("other")
          /\ Answer(e)
          /\ UNCHANGED image
    /\ UNCHANGED <<template, machine, teacherListed>>

-----------------------------------------------------------------------------
(* publish: copy the teacher's disk to p99 and p99's disk to every student.  *)

PublishStart(e) ==
    /\ teacherListed /\ Students # {}
    /\ Begin(e, "publish", "publish_remove")
    /\ UNCHANGED <<template, image, machine, teacherListed, faults>>

(* remove_vm_disk answers with a pair, which is true even when it failed. *)
PublishRemove(e) ==
    /\ Doing(e, "publish_remove")
    /\ \/ /\ machine' = [machine EXCEPT ![BaseVm].disk = "none"]
          /\ Proceed(e, "publish_copy")
          /\ UNCHANGED faults
       \/ /\ Failing("other")
          /\ Proceed(e, "publish_copy")
          /\ UNCHANGED machine
    /\ UNCHANGED <<template, image, teacherListed>>

PublishCopy(e) ==
    /\ Doing(e, "publish_copy")
    /\ \/ /\ Whole(Teacher)
          /\ machine' = [machine EXCEPT ![BaseVm].disk = "own"]
          /\ Proceed(e, "publish_students")
          /\ UNCHANGED faults
       \/ /\ ~Whole(Teacher)
          /\ Answer(e)
          /\ UNCHANGED <<machine, faults>>
       \/ /\ Failing("other")
          /\ Answer(e)
          /\ UNCHANGED machine
    /\ UNCHANGED <<template, image, teacherListed>>

(* Variant: the copies of a student's disk are made without a source.        *)
PublishStudentBlind(e, s) ==
    /\ Doing(e, "publish_students")
    /\ s \in job[e].todo
    /\ Handled(e, s)
    /\ machine' = [machine EXCEPT ![s].disk = "none", ![s].path = FALSE]
    /\ UNCHANGED <<template, image, teacherListed, faults>>

(* Remove the student's disk and copy p99's.  A student whose copy fails is  *)
(* left without a disk, or with the old one if its removal failed as well.   *)
PublishStudent(e, s) ==
    /\ Doing(e, "publish_students")
    /\ s \in job[e].todo
    /\ machine[s].made
    /\ Handled(e, s)
    /\ \/ /\ Whole(BaseVm)
          /\ machine' = [machine EXCEPT ![s].disk = "own", ![s].path = FALSE]
          /\ UNCHANGED faults
       \/ /\ ~Whole(BaseVm)
          /\ machine' = [machine EXCEPT ![s].disk = "none", ![s].path = FALSE]
          /\ UNCHANGED faults
       \/ /\ Failing("other")
          /\ \/ machine' = [machine EXCEPT ![s].disk = "none", ![s].path = FALSE]
             \/ UNCHANGED machine
    /\ UNCHANGED <<template, image, teacherListed>>

PublishSkip(e, s) ==
    /\ Doing(e, "publish_students")
    /\ s \in job[e].todo
    /\ ~machine[s].made
    /\ Handled(e, s)
    /\ UNCHANGED <<template, image, machine, teacherListed, faults>>

PublishEnd(e) ==
    /\ Doing(e, "publish_students")
    /\ job[e].todo = {}
    /\ Answer(e)
    /\ UNCHANGED <<template, image, machine, teacherListed, faults>>

-----------------------------------------------------------------------------
(* reimage: delete the teacher's VM and make it again over the base image.   *)

ReimageStart(e) ==
    /\ teacherListed
    /\ Begin(e, "reimage", "reimage_delete")
    /\ UNCHANGED <<template, image, machine, teacherListed, faults>>

(* That the VM could not be deleted is only logged; the row goes either way. *)
ReimageDelete(e) ==
    /\ Doing(e, "reimage_delete")
    /\ teacherListed' = FALSE
    /\ \/ /\ machine' = [machine EXCEPT ![Teacher] = Gone]
          /\ Proceed(e, "reimage_make")
          /\ UNCHANGED faults
       \/ /\ Failing("other")
          /\ Proceed(e, "reimage_make")
          /\ UNCHANGED machine
    /\ UNCHANGED <<template, image>>

(* The overlay needs the base image and no running VM that has the disk      *)
(* locked; a configuration that cannot be written takes the disk with it,    *)
(* and a row that cannot be committed leaves the VM without one.             *)
Overlaid == [made |-> TRUE, disk |-> "base", path |-> FALSE, runs |-> FALSE]
ReimageMake(e) ==
    /\ Doing(e, "reimage_make")
    /\ LET possible == image["base"] # "none" /\ ~machine[Teacher].runs
       IN  \/ /\ possible
              /\ machine' = [machine EXCEPT ![Teacher] = Overlaid]
              /\ teacherListed' = TRUE
              /\ Answer(e)
              /\ UNCHANGED faults
           \/ /\ possible
              /\ Failing("other")
              /\ machine' = [machine EXCEPT ![Teacher].disk = "none"]
              /\ Answer(e)
              /\ UNCHANGED teacherListed
           \/ /\ possible
              /\ Failing("other")
              /\ machine' = [machine EXCEPT ![Teacher] = Overlaid]
              /\ Answer(e)
              /\ UNCHANGED teacherListed
           \/ /\ ~possible
              /\ Answer(e)
              /\ UNCHANGED <<machine, teacherListed, faults>>
    /\ UNCHANGED <<template, image>>

-----------------------------------------------------------------------------
(* recreate: the settings of the class name other hardware, and its rows     *)
(* with status 'assigned' get new VMs.                                       *)

RecreateStart(e) ==
    /\ Begin(e, "recreate", "recreate_test")
    /\ UNCHANGED <<template, image, machine, teacherListed, faults>>

RecreateTest(e) ==
    /\ Doing(e, "recreate_test")
    /\ \/ /\ image["base"] # "none"
          /\ Proceed(e, "recreate")
          /\ UNCHANGED faults
       \/ /\ image["base"] = "none"
          /\ Answer(e)
          /\ UNCHANGED faults
       \/ /\ Failing("other")
          /\ Answer(e)
    /\ UNCHANGED <<template, image, machine, teacherListed>>

(* The wait for the VM to stop raises a TypeError (the node is passed as its *)
(* timeout), which is swallowed: whether the shutdown is over when the VM is *)
(* deleted is a race, and Proxmox refuses to delete a running VM.  A row     *)
(* without a node is skipped.                                                *)
RecreateRefused(e, s) ==
    /\ Doing(e, "recreate")
    /\ s \in job[e].todo
    /\ Handled(e, s)
    /\ \/ /\ s \notin Placed \/ ~machine[s].made
          /\ UNCHANGED machine
       \/ /\ s \in Placed /\ machine[s].runs
          /\ machine' = [machine EXCEPT ![s].runs = FALSE]
    /\ UNCHANGED <<template, image, teacherListed, faults>>

(* Delete, qm create, rm -rf, qemu-img create, qm set: what a command that   *)
(* fails leaves behind is the state after the ones before it.                *)
Recreate(e, s) ==
    /\ Doing(e, "recreate")
    /\ s \in job[e].todo \cap Placed
    /\ machine[s].made
    /\ \/ /\ image["base"] # "none"
          /\ machine' = [machine EXCEPT ![s] =
                 [made |-> TRUE, disk |-> "base", path |-> TRUE, runs |-> FALSE]]
          /\ Handled(e, s)
          /\ UNCHANGED faults
       \/ /\ image["base"] = "none"
          /\ machine' = [machine EXCEPT ![s] = [Gone EXCEPT !.made = TRUE]]
          /\ Handled(e, s)
          /\ UNCHANGED faults
       \/ /\ Failing("other")
          /\ \E left \in {machine[s], Gone, [Gone EXCEPT !.made = TRUE]} :
                machine' = [machine EXCEPT ![s] = left]
          /\ Handled(e, s)
    /\ UNCHANGED <<template, image, teacherListed>>

RecreateEnd(e) ==
    /\ Doing(e, "recreate")
    /\ job[e].todo = {}
    /\ Answer(e)
    /\ UNCHANGED <<template, image, machine, teacherListed, faults>>

-----------------------------------------------------------------------------
ImgStart(e) ==
    \/ SaveStart(e) \/ PushStart(e) \/ DeployBegin(e)
    \/ PublishStart(e) \/ ReimageStart(e) \/ RecreateStart(e)

ImgStep(e) ==
    \/ SaveRemove(e) \/ SaveConvert(e)
    \/ PushTest(e) \/ PushStop(e) \/ PushBackup(e) \/ PushSwap(e)
    \/ \E s \in Students : PushRebase(e, s)
    \/ PushRebased(e) \/ PushClean(e) \/ PushRestore(e)
    \/ DeployStop(e) \/ DeployBackup(e) \/ DeployExport(e) \/ DeployRestore(e)
    \/ PublishRemove(e) \/ PublishCopy(e)
    \/ \E s \in Students : PublishStudent(e, s) \/ PublishSkip(e, s)
    \/ PublishEnd(e)
    \/ ReimageDelete(e) \/ ReimageMake(e)
    \/ RecreateTest(e)
    \/ \E s \in Students : Recreate(e, s) \/ RecreateRefused(e, s)
    \/ RecreateEnd(e)

ImgNext ==
    \/ \E e \in Editors : ImgStart(e) \/ ImgStep(e)
    \/ \E v \in Students \cup {Teacher} : Power(v)

ImgSpec == ImgInit /\ [][ImgNext]_imgVars

-----------------------------------------------------------------------------
(* Properties.                                                               *)

Quiet == \A e \in Editors : job[e].pc = "idle"
Sound == \A k \in Kinds : faults[k] = 0

(* At every moment a class made from a template has a whole copy of its      *)
(* image to go back to, whatever renames, removals and connections have      *)
(* failed - as long as no conversion stopped half-way and one owner works at *)
(* a time (class_vm_service.py, push_staging_to_students and                 *)
(* save_and_deploy_teacher_vm).                                              *)
ImageKept ==
    template /\ faults["convert"] = 0 =>
        \E f \in {"base", "old", "backup"} : image[f] = "whole"

(* While nothing has failed and no deploy has moved the base away, every     *)
(* student's VM exists with a disk all of whose backing files are there      *)
(* (push_staging_to_students, recreate_student_vms_with_new_specs and        *)
(* publish_template.py, _publish_in_background).                             *)
StudentsWhole ==
    Quiet /\ Sound /\ image["backup"] = "none" => \A s \in Students : Whole(s)

(* While nothing has failed, only a reimage that found no base image leaves  *)
(* the class without its teacher's VM or that VM without its row             *)
(* (class_template.py, reimage_template; recreate_teacher_vm_from_base).     *)
TeacherKept ==
    Quiet /\ Sound =>
        \/ teacherListed /\ machine[Teacher].made
        \/ ~teacherListed /\ ~machine[Teacher].made /\ (~template \/ image["backup"] # "none")

(* Without any failure, what remains of the class's images is lost only      *)
(* while two pushes are under way: the second renames the new base out of    *)
(* the way and the first then removes it as the old one                      *)
(* (class_vm_service.py, push_staging_to_students).                          *)
HasImage == \E f \in {"base", "old", "backup"} : image[f] = "whole"
Pushing(e) == job[e].pc \in {"push_test", "push_stop", "push_backup", "push_swap",
                             "push_rebase", "push_clean", "push_restore"}
OnlyTwoPushesLose ==
    [][Sound' /\ HasImage /\ ~HasImage' =>
          \E e, d \in Editors : e # d /\ Pushing(e) /\ Pushing(d)]_imgVars

(* What the VMs of the class and their disks may come to                     *)
(* (class_vm_service.py, class_template.py, publish_template.py).            *)
VmsKept == ImgTypeOK /\ StudentsWhole /\ TeacherKept
=============================================================================
