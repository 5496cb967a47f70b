----------------------------- MODULE VmidPrefix -----------------------------
(***************************************************************************)
(* Who owns which VMIDs.  A class has a three-digit prefix p and its VMs    *)
(* the VMIDs p00 to p99: a "range".  Three pieces of code choose prefixes   *)
(* (create_class, the deployment of a class without one, the form that      *)
(* names a base VM), deployments fill ranges with VMs and list them in      *)
(* vm_assignments, and delete_class_route destroys by VMID what was listed. *)
(*                                                                          *)
(* _vmid_allocation_lock is held only while a prefix is being chosen, not   *)
(* until it is stored, so choosing is one step and protects nothing.  The   *)
(* sessions and SQLite's write lock are those of ClassPool.  The VMs of a   *)
(* range are one record: a deployment fills a range or leaves part of it.   *)
(***************************************************************************)
EXTENDS Naturals, FiniteSets

CONSTANTS
    MaxClass,      \* bound: largest classes.id ever allocated
    Prefixes,      \* the prefixes 200..999 the allocators draw from
    Requests,
    NoPrefix, NoRequest,   \* NULL
    Ops            \* bound: which operations a run lets requests start

Classes == 1..MaxClass
NoClass == 0
AllOps  == {"create", "deploy", "delete", "force", "form", "failures"}

ASSUME PrefixAssumption ==
    /\ MaxClass \in Nat
    /\ NoPrefix \notin Prefixes
    /\ NoRequest \notin Requests
    /\ Ops \subseteq AllOps

VARIABLES
    stored,     \* the classes table: the ids in it
    prefix,     \* classes.vmid_prefix
    listed,     \* the ranges the vm_assignments rows of a class name
    made,       \* the cluster: whose deployment filled a range, with a base VM or not
    writer,     \* the request that holds SQLite's write lock
    task        \* where each request is, and what it has read or chosen

vars == <<stored, prefix, listed, made, writer, task>>

PC == {"idle", "create", "create_pick", "create_commit", "create_reply",
       "late", "form", "reread", "deploy", "rows", "delete", "destroy"}
Flushing == {"create", "late", "form", "rows", "delete"}
Locked   == {"create_pick", "create_commit"}

Fields == [pc: PC, class: Classes \cup {NoClass}, prefix: Prefixes \cup {NoPrefix},
           ranges: SUBSET Prefixes, force: BOOLEAN]
Task == {t \in Fields :
            /\ t.pc \in {"idle", "create", "create_reply"} \/ t.class \in Classes
            /\ t.pc \in {"late", "form", "deploy"} => t.prefix \in Prefixes}
Idle == [pc |-> "idle", class |-> NoClass, prefix |-> NoPrefix, ranges |-> {},
         force |-> FALSE]

VmRange == [class: Classes \cup {NoClass}, base: BOOLEAN]
NoVms   == [class |-> NoClass, base |-> FALSE]

TypeOK ==
    /\ stored \subseteq Classes
    /\ prefix \in [Classes -> Prefixes \cup {NoPrefix}]
    /\ listed \in [Classes -> SUBSET Prefixes]
    /\ made \in [Prefixes -> VmRange]
    /\ writer \in Requests \cup {NoRequest}
    /\ task \in [Requests -> Task]

Init ==
    /\ stored = {}
    /\ prefix = [c \in Classes |-> NoPrefix]
    /\ listed = [c \in Classes |-> {}]
    /\ made = [p \in Prefixes |-> NoVms]
    /\ writer = NoRequest
    /\ task = [r \in Requests |-> Idle]

At(r, pc) == task[r].pc = pc
Start(r, op) == op \in Ops /\ At(r, "idle")
Become(r, new) == task' = [task EXCEPT ![r] = new]
Goto(r, pc) == Become(r, [task[r] EXCEPT !.pc = pc])
Finish(r) == Become(r, Idle)
LockFree == writer = NoRequest

Used == {prefix[c] : c \in stored} \ {NoPrefix}

(* The rowid SQLite gives an INSERT: one more than the largest in use.       *)
NextId(c) == /\ \A d \in Classes : d >= c => d \notin stored
             /\ c = 1 \/ c - 1 \in stored

-----------------------------------------------------------------------------
(* create_class: the flushed INSERT takes the write lock, the prefix is then
   chosen from what the table says, both are committed.                      *)

CreateStart(r) == /\ Start(r, "create")
                  /\ Goto(r, "create")
                  /\ UNCHANGED <<stored, prefix, listed, made, writer>>

(* Variant: the INSERT takes no lock.                                        *)
CreateFlushUnlocked(r, c) ==
    /\ At(r, "create")
    /\ LockFree
    /\ NextId(c)
    /\ Become(r, [task[r] EXCEPT !.pc = "create_pick", !.class = c])
    /\ UNCHANGED <<stored, prefix, listed, made, writer>>

CreateFlush(r, c) ==
    /\ At(r, "create")
    /\ LockFree
    /\ NextId(c)
    /\ Become(r, [task[r] EXCEPT !.pc = "create_pick", !.class = c])
    /\ writer' = r
    /\ UNCHANGED <<stored, prefix, listed, made>>

(* Variant: the table is not asked.                                          *)
CreatePickBlind(r, p) ==
    /\ At(r, "create_pick")
    /\ Become(r, [task[r] EXCEPT !.pc = "create_commit", !.prefix = p])
    /\ UNCHANGED <<stored, prefix, listed, made, writer>>

(* allocate_vmid_prefix_simple: 100 draws or an exception may leave none.    *)
CreatePick(r, p) ==
    /\ At(r, "create_pick")
    /\ p \notin Used
    /\ Become(r, [task[r] EXCEPT !.pc = "create_commit", !.prefix = p])
    /\ UNCHANGED <<stored, prefix, listed, made, writer>>

CreateCommit(r) ==
    /\ At(r, "create_commit")
    /\ stored' = stored \cup {task[r].class}
    /\ prefix' = [prefix EXCEPT ![task[r].class] = task[r].prefix]
    /\ writer' = NoRequest
    /\ Goto(r, "create_reply")
    /\ UNCHANGED <<listed, made>>

(* "database is locked" at the flush: the ORM drops the new class, so the flush
   tried again has nothing to do; the allocator's query fails on the session and
   yields no prefix; _commit_with_retry reads "database is locked" in that same
   error, rolls back and commits the session that is now empty.  The reply is
   success.                                                                  *)
CreateLocked(r) ==
    /\ At(r, "create")
    /\ ~LockFree
    /\ Goto(r, "create_reply")
    /\ UNCHANGED <<stored, prefix, listed, made, writer>>

CreateReply(r) == /\ At(r, "create_reply")
                  /\ Finish(r)
                  /\ UNCHANGED <<stored, prefix, listed, made, writer>>

(* Any other failure, or the death of the process, inside the transaction.   *)
Rollback(r) ==
    /\ task[r].pc \in Locked
    /\ writer' = NoRequest
    /\ Finish(r)
    /\ UNCHANGED <<stored, prefix, listed, made>>

-----------------------------------------------------------------------------
(* Prefixes given to classes that have none.                                 *)

(* create_class_vms, allocate_vmid_prefix_for_class: the cluster is asked, too. *)
DeployWithoutPrefix(r, c, p) ==
    /\ Start(r, "deploy")
    /\ c \in stored /\ prefix[c] = NoPrefix
    /\ p \notin Used /\ made[p] = NoVms
    /\ Become(r, [Idle EXCEPT !.pc = "late", !.class = c, !.prefix = p])
    /\ UNCHANGED <<stored, prefix, listed, made, writer>>

(* POST /classes/<c>/vms of a class without template: the range of the base VM
   named in the form, whoever has it.                                        *)
FormWithoutPrefix(r, c, p) ==
    /\ Start(r, "form")
    /\ c \in stored /\ prefix[c] = NoPrefix
    /\ Become(r, [Idle EXCEPT !.pc = "form", !.class = c, !.prefix = p])
    /\ UNCHANGED <<stored, prefix, listed, made, writer>>

(* Both store what they chose, over whatever is there by now; the UPDATE of a
   class that has been deleted fails and ends the request.                   *)
PrefixCommit(r) ==
    /\ task[r].pc \in {"late", "form"}
    /\ LockFree
    /\ IF task[r].class \in stored
          THEN /\ prefix' = [prefix EXCEPT ![task[r].class] = task[r].prefix]
               /\ Goto(r, "reread")
          ELSE UNCHANGED prefix /\ Finish(r)
    /\ UNCHANGED <<stored, listed, made, writer>>

-----------------------------------------------------------------------------
(* create_class_vms, seen from its range: VMs first, rows afterwards.        *)

(* The prefix the session has read is used until its next commit.            *)
DeployStart(r, c) ==
    /\ Start(r, "deploy")
    /\ c \in stored /\ prefix[c] # NoPrefix
    /\ Become(r, [Idle EXCEPT !.pc = "deploy", !.class = c, !.prefix = prefix[c]])
    /\ UNCHANGED <<stored, prefix, listed, made, writer>>

(* The commit of a prefix expires the class: it is read again, if it can be.  *)
DeployReread(r) ==
    /\ At(r, "reread")
    /\ LET c == task[r].class
       IN IF c \in stored /\ prefix[c] # NoPrefix
             THEN Become(r, [task[r] EXCEPT !.pc = "deploy", !.prefix = prefix[c]])
             ELSE Finish(r)
    /\ UNCHANGED <<stored, prefix, listed, made, writer>>

Fill(p, c, base) == [made EXCEPT ![p] =
    [class |-> IF made[p] = NoVms THEN c ELSE made[p].class, base |-> base]]
Adding(p, c) == listed[c] # {} \/ made[p].base
ToRows(r) == Become(r, [task[r] EXCEPT !.pc = "rows", !.ranges = {task[r].prefix}])

(* A new class: teacher VM and base VM are created unless a VM has their VMID,
   in which case that VM is used.                                            *)
DeployNew(r) ==
    /\ At(r, "deploy")
    /\ ~Adding(task[r].prefix, task[r].class)
    /\ made' = Fill(task[r].prefix, task[r].class, TRUE)
    /\ ToRows(r)
    /\ UNCHANGED <<stored, prefix, listed, writer>>

(* A command fails after some of the VMs: the rows are never committed.      *)
DeployFails(r) ==
    /\ "failures" \in Ops
    /\ At(r, "deploy")
    /\ ~Adding(task[r].prefix, task[r].class)
    /\ \E base \in BOOLEAN : made' = Fill(task[r].prefix, task[r].class, base)
    /\ Finish(r)
    /\ UNCHANGED <<stored, prefix, listed, writer>>

(* An existing class: students are added beside the base VM, if the class has
   its teacher's row.                                                        *)
DeployAdd(r) ==
    /\ At(r, "deploy")
    /\ Adding(task[r].prefix, task[r].class)
    /\ IF listed[task[r].class] # {} /\ made[task[r].prefix].base
          THEN ToRows(r)
          ELSE Finish(r)
    /\ UNCHANGED <<stored, prefix, listed, made, writer>>

(* Foreign keys are not enforced: the class need not exist any more.         *)
RowsCommit(r) ==
    /\ At(r, "rows")
    /\ LockFree
    /\ listed' = [listed EXCEPT ![task[r].class] = @ \cup task[r].ranges]
    /\ Finish(r)
    /\ UNCHANGED <<stored, prefix, made, writer>>

-----------------------------------------------------------------------------
(* delete_class_route: the VMs to destroy are read before, and destroyed (up to
   a minute each) after the rows and the class are gone.                     *)

(* Variant: the query for the rows forgets the class.                        *)
DeleteReadAll(r, c, force) ==
    /\ Start(r, IF force THEN "force" ELSE "delete")
    /\ c \in stored
    /\ Become(r, [Idle EXCEPT !.pc = "delete", !.class = c, !.force = force,
                              !.ranges = UNION {listed[d] : d \in stored}])
    /\ UNCHANGED <<stored, prefix, listed, made, writer>>

DeleteRead(r, c, force) ==
    /\ Start(r, IF force THEN "force" ELSE "delete")
    /\ c \in stored
    /\ Become(r, [Idle EXCEPT !.pc = "delete", !.class = c, !.ranges = listed[c],
                              !.force = force])
    /\ UNCHANGED <<stored, prefix, listed, made, writer>>

DeleteCommit(r) ==
    /\ At(r, "delete")
    /\ LockFree
    /\ LET c == task[r].class
       IN /\ stored' = stored \ {c}
          /\ prefix' = [prefix EXCEPT ![c] = NoPrefix]
          /\ listed' = [listed EXCEPT ![c] = @ \ task[r].ranges]
    /\ IF task[r].force THEN Finish(r) ELSE Goto(r, "destroy")
    /\ UNCHANGED <<made, writer>>

(* Each VM by its VMID; one that cannot be destroyed is reported and stays.  *)
Destroy(r, p) ==
    /\ At(r, "destroy")
    /\ p \in task[r].ranges
    /\ made' = [made EXCEPT ![p] = NoVms]
    /\ Become(r, [task[r] EXCEPT !.ranges = @ \ {p}])
    /\ UNCHANGED <<stored, prefix, listed, writer>>

DestroyFails(r, p) ==
    /\ "failures" \in Ops
    /\ At(r, "destroy")
    /\ p \in task[r].ranges
    /\ Become(r, [task[r] EXCEPT !.ranges = @ \ {p}])
    /\ UNCHANGED <<stored, prefix, listed, made, writer>>

DeleteReply(r) == /\ At(r, "destroy") /\ task[r].ranges = {}
                  /\ Finish(r)
                  /\ UNCHANGED <<stored, prefix, listed, made, writer>>

(* A flush other than create_class's that waits more than 60 s: an error reply. *)
LockTimeout(r) ==
    /\ task[r].pc \in Flushing \ {"create"}
    /\ ~LockFree
    /\ Finish(r)
    /\ UNCHANGED <<stored, prefix, listed, made, writer>>

-----------------------------------------------------------------------------
Create(r) == \/ CreateStart(r)
             \/ \E c \in Classes : CreateFlush(r, c)
             \/ \E p \in Prefixes \cup {NoPrefix} : CreatePick(r, p)
             \/ CreateCommit(r) \/ CreateLocked(r) \/ CreateReply(r) \/ Rollback(r)
Deploy(r) == \/ \E c \in Classes, p \in Prefixes : \/ DeployWithoutPrefix(r, c, p)
                                                   \/ FormWithoutPrefix(r, c, p)
             \/ \E c \in Classes : DeployStart(r, c)
             \/ PrefixCommit(r) \/ DeployReread(r) \/ DeployNew(r) \/ DeployFails(r)
             \/ DeployAdd(r) \/ RowsCommit(r)
Delete(r) == \/ \E c \in Classes, force \in BOOLEAN : DeleteRead(r, c, force)
             \/ DeleteCommit(r)
             \/ \E p \in Prefixes : Destroy(r, p) \/ DestroyFails(r, p)
             \/ DeleteReply(r)

Next == \E r \in Requests : Create(r) \/ Deploy(r) \/ Delete(r) \/ LockTimeout(r)

Spec == Init /\ [][Next]_vars

-----------------------------------------------------------------------------
(* Safety.                                                                   *)

(* The prefix create_class has chosen is still unused when it commits, although
   the allocation lock was given back before: the flushed INSERT holds SQLite's
   write lock.  (class_service.py, create_class)                             *)
LockInv == \A r \in Requests : task[r].pc \in Locked <=> writer = r
PickedUnused == \A r \in Requests : At(r, "create_commit") =>
                    /\ task[r].class \notin stored
                    /\ task[r].prefix \notin Used
FreshInv == \A r \in Requests : At(r, "create_pick") => task[r].class \notin stored
AllocInv == LockInv /\ FreshInv /\ PickedUnused

(* allocate_vmid_prefix_simple: "Allocate a unique 3-digit prefix".          *)
PrefixesUnique ==
    \A c, d \in stored : prefix[c] = prefix[d] /\ prefix[c] # NoPrefix => c = d

(* Whatever the other allocators do meanwhile, the commit of a new class adds no
   class whose prefix another one has.  (class_service.py, create_class)     *)
CreateKeepsUnique ==
    [][stored' \ stored # {} /\ PrefixesUnique => PrefixesUnique']_vars

(* A new class starts with no VMs, although SQLite may give it the id of a class
   that was deleted.  (class_service.py, create_class and delete_class)      *)
NewClassListsNothing ==
    [][\A c \in stored' \ stored : listed'[c] = {}]_vars

(* A class's rows name VMs that were made for it: "Returns a prefix like 123,
   which means the class can use VMIDs 12300-12399."
   (class_vm_service.py, allocate_vmid_prefix_simple)                        *)
ListedAreOwn == \A c \in stored : \A p \in listed[c] : made[p].class \in {c, NoClass}

(* VMs that no class lists are being listed or destroyed by a request: none is
   left behind on the cluster.  (class_api.py, delete_class_route)           *)
NoLeakedVms ==
    \A p \in Prefixes : made[p] # NoVms =>
        \/ \E c \in stored : p \in listed[c]
        \/ \E r \in Requests : p \in task[r].ranges

(* delete_class_route: "CRITICAL: We ONLY delete VMs that are in VMAssignment for
   this class": a range it destroys is listed by no class that exists.       *)
DestroysOnlyOwn ==
    [][\A r \in Requests, p \in Prefixes :
          At(r, "destroy") /\ made[p] # NoVms /\ made'[p] = NoVms /\ task'[r] # task[r]
              => \A c \in stored : p \notin listed[c]]_vars

(* create_class replies "Class created successfully" for a class that is in the
   database: "Commit database session with retry logic for SQLite lock issues." *)
CreatedMeansStored ==
    [][\A r \in Requests : ~At(r, "create_reply") /\ task'[r].pc = "create_reply"
           => task'[r].class \in stored']_vars

(* While requests come one at a time, a prefix and its VMIDs are those of one
   class (class_service.py, create_class; class_api.py, delete_class_route). *)
OneByOneInv == TypeOK /\ PrefixesUnique /\ ListedAreOwn /\ NoLeakedVms
OneByOneSteps == NewClassListsNothing /\ DestroysOnlyOwn /\ CreatedMeansStored
=============================================================================
