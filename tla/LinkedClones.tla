---------------------------- MODULE LinkedClones ----------------------------
(***************************************************************************)
(* deploy_linked_clones: a class made with the deployment method            *)
(* "linked_clone" gets its VMs from "qm clone" in a background thread, the   *)
(* teacher's first.  The VMIDs are consecutive: from the class's range when  *)
(* it has a prefix, otherwise from the first VMID no node reports.  Nothing  *)
(* reserves them; "qm clone" refuses a VMID in use, and that VM is left out. *)
(* Rows are written for all VMs at the end.                                  *)
(***************************************************************************)
EXTENDS Naturals, FiniteSets

CONSTANTS
    Labs,          \* classes made with this method
    Nobody,
    Width,         \* VMIDs per class: 100
    PrefixOf,      \* [Labs -> Nat], 0 for a class without a prefix
    FirstVmid,     \* 100
    LastVmid,      \* bound: no VMID beyond it is looked at
    PoolSizes,     \* numbers of students
    MaxTroubles,   \* bound: commands, queries and commits that fail
    MaxStrangers   \* bound: VMs that others make meanwhile

ASSUME CloneAssumption ==
    /\ Nobody \notin Labs
    /\ Width \in Nat \ {0} /\ FirstVmid \in Nat /\ LastVmid \in Nat
    /\ PrefixOf \in [Labs -> Nat]
    /\ PoolSizes \subseteq Nat
    /\ \A c \in Labs, n \in PoolSizes : PrefixOf[c] * Width + n <= LastVmid
    /\ MaxTroubles \in Nat /\ MaxStrangers \in Nat

Vmids == FirstVmid..LastVmid

VARIABLES
    owner,      \* the cluster: for whom a VM was made, "other" or Nobody if there is none
    listedBy,    \* committed rows of vm_assignments: the classes that list a VM
    clone,      \* the deployments
    troubles, strangers

cloneVars == <<owner, listedBy, clone, troubles, strangers>>

Clone == [pc: {"idle", "clone", "verify", "record", "done"},
          start: Nat,             \* start_vmid
          size: Nat,              \* num_students
          next: Nat,              \* 0 for the teacher, then the student
          made: SUBSET Vmids]     \* created_vms
NoClone == [pc |-> "idle", start |-> 0, size |-> 0, next |-> 0, made |-> {}]

CloneTypeOK ==
    /\ owner \in [Vmids -> Labs \cup {"other", Nobody}]
    /\ listedBy \in [Vmids -> SUBSET Labs]
    /\ clone \in [Labs -> Clone]
    /\ \A c \in Labs : clone[c].next <= clone[c].size + 1
    /\ troubles \in 0..MaxTroubles /\ strangers \in 0..MaxStrangers

CloneInit ==
    /\ owner = [id \in Vmids |-> Nobody]
    /\ listedBy = [id \in Vmids |-> {}]
    /\ clone = [c \in Labs |-> NoClone]
    /\ troubles = 0 /\ strangers = 0

Trouble     == troubles < MaxTroubles /\ troubles' = troubles + 1
Turn(c, pc) == clone' = [clone EXCEPT ![c].pc = pc]
Vmid(c)     == clone[c].start + clone[c].next

-----------------------------------------------------------------------------
(* Another program, or the other way of deploying, takes a VMID.             *)
Stranger ==
    /\ strangers < MaxStrangers /\ strangers' = strangers + 1
    /\ \E id \in Vmids : owner[id] = Nobody /\ owner' = [owner EXCEPT ![id] = "other"]
    /\ UNCHANGED <<listedBy, clone, troubles>>

(* get_available_vmid; what a node that does not answer has is taken for free. *)
FirstFree(used) ==
    {id \in Vmids : id \notin used /\ \A j \in FirstVmid..(id - 1) : j \in used}
Used == {id \in Vmids : owner[id] # Nobody}

(* The class is stored and its thread started; the template, its storage and its
   node are found, or the thread ends.                                       *)
create_new_class(c, n) ==
    /\ clone[c].pc = "idle"
    /\ \E used \in SUBSET Used :
          /\ IF used = Used THEN UNCHANGED troubles ELSE Trouble
          /\ \E start \in IF PrefixOf[c] > 0 THEN {PrefixOf[c] * Width} ELSE FirstFree(used) :
                clone' = [clone EXCEPT ![c] =
                    [pc |-> "clone", start |-> start, size |-> n, next |-> 0, made |-> {}]]
    /\ UNCHANGED <<owner, listedBy, strangers>>

NotFound(c) ==
    /\ clone[c].pc = "idle"
    /\ Trouble
    /\ Turn(c, "done")
    /\ UNCHANGED <<owner, listedBy, strangers>>

-----------------------------------------------------------------------------

(* The next VM, or after the last one the snapshots and the rows.            *)
Onward(c, vms) ==
    clone' = [clone EXCEPT
        ![c].pc = IF clone[c].next = clone[c].size THEN "record" ELSE "clone",
        ![c].next = @ + 1,
        ![c].made = vms]

Cloned(c) ==
    /\ clone[c].pc = "clone"
    /\ Vmid(c) \in Vmids /\ owner[Vmid(c)] = Nobody
    /\ owner' = [owner EXCEPT ![Vmid(c)] = c]
    /\ IF clone[c].next = 0 THEN Onward(c, {Vmid(c)})   \* the teacher's is not verified
                            ELSE Turn(c, "verify")
    /\ UNCHANGED <<listedBy, troubles, strangers>>

(* Variant: the failure is noted, and the VM counted as made.                *)
CloneFailsCounted(c) ==
    /\ clone[c].pc = "clone"
    /\ IF Vmid(c) \in Used THEN UNCHANGED troubles ELSE Trouble
    /\ Onward(c, clone[c].made \cup ({Vmid(c)} \cap Vmids))
    /\ UNCHANGED <<owner, listedBy, strangers>>

(* The VMID is in use, or "qm clone" fails, with or without leaving a VM     *)
(* behind: on to the next.                                                   *)
CloneFails(c) ==
    /\ clone[c].pc = "clone"
    /\ \/ /\ Vmid(c) \in Used
          /\ UNCHANGED <<owner, troubles>>
       \/ /\ Trouble
          /\ \/ UNCHANGED owner
             \/ /\ Vmid(c) \in Vmids \ Used
                /\ owner' = [owner EXCEPT ![Vmid(c)] = c]
    /\ Onward(c, clone[c].made)
    /\ UNCHANGED <<listedBy, strangers>>

Verify(c) ==
    /\ clone[c].pc = "verify"
    /\ Onward(c, clone[c].made \cup {Vmid(c)})
    /\ UNCHANGED <<owner, listedBy, troubles, strangers>>

(* The configuration cannot be read: the VM stays and is not listed.         *)
VerifyFails(c) ==
    /\ clone[c].pc = "verify"
    /\ Trouble
    /\ Onward(c, clone[c].made)
    /\ UNCHANGED <<owner, listedBy, strangers>>

(* Variant: errors keep the rows from being written.                         *)
RecordUnlessErrors(c) ==
    /\ clone[c].pc = "record"
    /\ listedBy' = IF Cardinality(clone[c].made) <= clone[c].size THEN listedBy
                  ELSE [id \in Vmids |->
                          IF id \in clone[c].made THEN listedBy[id] \cup {c} ELSE listedBy[id]]
    /\ Turn(c, "done")
    /\ UNCHANGED <<owner, troubles, strangers>>

Record(c) ==
    /\ clone[c].pc = "record"
    /\ listedBy' = [id \in Vmids |->
                      IF id \in clone[c].made THEN listedBy[id] \cup {c} ELSE listedBy[id]]
    /\ Turn(c, "done")
    /\ UNCHANGED <<owner, troubles, strangers>>

(* The commit fails: the VMs stay, the class has none of them.               *)
RecordFails(c) ==
    /\ clone[c].pc = "record"
    /\ Trouble
    /\ Turn(c, "done")
    /\ UNCHANGED <<owner, listedBy, strangers>>

CloneStep(c) == \/ Cloned(c) \/ CloneFails(c) \/ Verify(c) \/ VerifyFails(c)
                \/ Record(c) \/ RecordFails(c)

CloneNext == \/ Stranger
             \/ \E c \in Labs : \/ \E n \in PoolSizes : create_new_class(c, n)
                                \/ NotFound(c) \/ CloneStep(c)

CloneSpec == CloneInit /\ [][CloneNext]_cloneVars
CloneFair == \A c \in Labs : WF_cloneVars(CloneStep(c))

-----------------------------------------------------------------------------
(* A class lists only VMs that were cloned for it, even when two deployments that
   found the same free VMIDs clone at once and a third program takes VMIDs in
   between: no VM is handed to the students of two classes.
   (linked_clone_service.py, deploy_linked_clones)                           *)
ListedAreCloned == \A id \in Vmids : listedBy[id] \subseteq {owner[id]}

(* Every deployment ends, and when nothing but occupied VMIDs got in its way,
   every VM cloned for the class is listed then: "Create database records for
   created VMs".  (linked_clone_service.py, deploy_linked_clones)            *)
AllListed(c) == \A id \in Vmids : owner[id] = c => c \in listedBy[id]
ClonedAreListed ==
    \A c \in Labs :
        clone[c].pc # "idle" ~> clone[c].pc = "done" /\ (troubles > 0 \/ AllListed(c))

(* The VMs of the classes (linked_clone_service.py, deploy_linked_clones).   *)
CloneInv == CloneTypeOK /\ ListedAreCloned
=============================================================================
