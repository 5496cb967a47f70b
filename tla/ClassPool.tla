------------------------------ MODULE ClassPool ------------------------------
(***************************************************************************)
(* The VM pool of the lab portal's classes: students enrol, VM assignment   *)
(* rows are created by deployments, handed to students, taken back and      *)
(* deleted.  Every operation is a Flask request handler or a deployment     *)
(* thread (a "request" here) over one SQLite database through a SQLAlchemy  *)
(* session.                                                                 *)
(*                                                                          *)
(* What the sessions do to the interleaving, and so what a step is:         *)
(*   - a SELECT opens no transaction: it sees the last committed state, and *)
(*     nothing it read is protected afterwards;                             *)
(*   - the first flush of a session takes SQLite's single write lock        *)
(*     (writer), which is kept until COMMIT or ROLLBACK;                    *)
(*   - an UPDATE writes only the columns that differ from the value the     *)
(*     session READ (a Patch), whatever the row holds by then;              *)
(*   - an UPDATE of a row that is gone raises StaleDataError and rolls back *)
(*     the whole session; a DELETE of a row that is gone is a warning;      *)
(*   - foreign keys are declared but SQLite does not enforce them here.     *)
(* The consecutive SELECTs of a handler that no write depends on separately *)
(* are one step; flush, UPDATEs and COMMIT of a handler that flushes at     *)
(* commit() are one step.                                                   *)
(***************************************************************************)
EXTENDS Naturals, FiniteSets

CONSTANTS
    Users,        \* local accounts
    Staff,        \* the accounts delete_user cannot remove (admins, class owners)
    Classes,      \* lab classes
    MaxRow,       \* bound: largest vm_assignments.id ever allocated
    Requests,     \* concurrent handlers and deployment threads
    NoUser, NoClass, NoRequest,   \* NULL
    Same,         \* "this column is not in the UPDATE"
    Ops,          \* bound: which operations a run lets requests start
    InitialRows   \* the vm_assignments table a run starts from

Rows   == 1..MaxRow
Kind   == {"pool", "teacher", "template", "manual"}
Status == {"absent", "available", "assigned", "reserved"}
Token  == {"none", "permanent", "expiring", "expired"}
VmRow  == [class: Classes \cup {NoClass}, user: Users \cup {NoUser},
           status: Status, kind: Kind]
Blank  == [class |-> NoClass, user |-> NoUser, status |-> "absent", kind |-> "pool"]

AllOps == {"join", "auto", "assign", "assign_student", "unassign", "delete_user",
           "delete_row", "delete_class", "deploy", "add_manual", "invite"}

ASSUME PoolAssumption ==
    /\ MaxRow \in Nat
    /\ Staff \subseteq Users
    /\ Ops \subseteq AllOps
    /\ NoUser \notin Users /\ NoClass \notin Classes /\ NoRequest \notin Requests
    /\ Same \notin Users \cup {NoUser} /\ Same \notin Status
    /\ InitialRows \in [Rows -> VmRow]

VARIABLES
    users,      \* the users table
    classes,    \* the classes table
    token,      \* join_token, token_expires_at, token_never_expires of a class
    enrolled,   \* the class_enrollments table
    vm,         \* the vm_assignments table
    writer,     \* the request that holds SQLite's write lock
    task        \* where each request is, and what its session holds

db   == <<users, classes, token, enrolled, vm>>
vars == <<users, classes, token, enrolled, vm, writer, task>>

PC == {"idle", "join_enroll", "join_pick", "join_commit", "auto_pick", "update",
       "delete_user", "delete_row", "delete_class", "deploy", "deploy_locked", "insert"}

(* The points at which a request is about to flush, and so waits for the lock *)
Flushing == {"join_enroll", "update", "delete_user", "delete_row", "delete_class",
             "deploy", "insert"}
Locked   == {"join_pick", "join_commit", "deploy_locked"}

Joining  == {"join_enroll", "join_pick", "join_commit"}

Patch   == [user: Users \cup {NoUser, Same}, status: Status \cup {Same}]
NoPatch == [user |-> Same, status |-> Same]
Clean   == [i \in Rows |-> NoPatch]
Task    == [pc: PC, class: Classes \cup {NoClass}, user: Users \cup {NoUser},
            waiting: SUBSET Users, patch: [Rows -> Patch], doomed: SUBSET Rows,
            tries: 0..3]
Idle    == [pc |-> "idle", class |-> NoClass, user |-> NoUser, waiting |-> {},
            patch |-> Clean, doomed |-> {}, tries |-> 0]

TypeOK ==
    /\ users \subseteq Users
    /\ classes \subseteq Classes
    /\ token \in [Classes -> Token]
    /\ enrolled \subseteq Classes \X Users
    /\ vm \in [Rows -> VmRow]
    /\ writer \in Requests \cup {NoRequest}
    /\ task \in [Requests -> Task]
    /\ \A r \in Requests : task[r].pc \in Joining =>
          task[r].class \in Classes /\ task[r].user \in Users

Init ==
    /\ users = Users
    /\ classes = Classes
    /\ token = [c \in Classes |-> "permanent"]
    /\ enrolled = {}
    /\ vm = InitialRows
    /\ writer = NoRequest
    /\ task = [r \in Requests |-> Idle]

-----------------------------------------------------------------------------
(* What the sessions read and write.                                         *)

Exists(i) == vm[i].status # "absent"
HeldBy(c, u) == {i \in Rows : Exists(i) /\ vm[i].class = c /\ vm[i].user = u}
TokenValid(c) == token[c] \in {"permanent", "expiring"}

(* Variant: the query forgets the holder and the status.                     *)
FreeAnyHolder(i, c) == vm[i].class = c /\ vm[i].kind \notin {"manual", "template"}

(* The rows join and auto-assign may hand out. *)
Free(i, c) ==
    /\ vm[i].class = c
    /\ vm[i].user = NoUser
    /\ vm[i].status = "available"
    /\ vm[i].kind \notin {"manual", "template"}

(* The columns an attribute assignment leaves dirty, given the row as it was read. *)
Diff(read, user, status) ==
    [user   |-> IF read.user = user THEN Same ELSE user,
     status |-> IF read.status = status THEN Same ELSE status]

Updated(row, p) ==
    [class  |-> row.class,
     user   |-> IF p.user = Same THEN row.user ELSE p.user,
     status |-> IF p.status = Same THEN row.status ELSE p.status,
     kind   |-> row.kind]

(* Variant: unassign without its status assignment.                          *)
UnassignPatchUserOnly(i)  == [Clean EXCEPT ![i] = Diff(vm[i], NoUser, vm[i].status)]

(* assign_to_user and unassign on the one row i, as this session read it. *)
AssignPatch(i, u)  == [Clean EXCEPT ![i] = Diff(vm[i], u, "assigned")]
UnassignPatch(i)   == [Clean EXCEPT ![i] = Diff(vm[i], NoUser, "available")]

Stale(p) == \E i \in Rows : p[i] # NoPatch /\ ~Exists(i)
Flushed(p) == [i \in Rows |-> Updated(vm[i], p[i])]

At(r, pc) == task[r].pc = pc
Start(r, op) == op \in Ops /\ At(r, "idle")
Become(r, new) == task' = [task EXCEPT ![r] = new]
Finish(r) == Become(r, Idle)
LockFree == writer = NoRequest

-----------------------------------------------------------------------------
(* join_class_via_token.                                                     *)

(* Token, user and enrolment are read; every early return ends the request
   without a write.                                                          *)
JoinCheck(r, c, u) ==
    /\ Start(r, "join")
    /\ c \in classes /\ TokenValid(c)
    /\ u \in users
    /\ <<c, u>> \notin enrolled
    /\ Become(r, [Idle EXCEPT !.pc = "join_enroll", !.class = c, !.user = u])
    /\ UNCHANGED <<db, writer>>

(* Variant: the VM is looked for before the enrolment is flushed.            *)
JoinEnrollUnlocked(r) ==
    /\ At(r, "join_enroll")
    /\ LockFree
    /\ <<task[r].class, task[r].user>> \notin enrolled
    /\ Become(r, [task[r] EXCEPT !.pc = "join_pick"])
    /\ UNCHANGED <<db, writer>>

(* The query for an available VM autoflushes students.append(user): the INSERT
   takes the write lock before the VM is looked for.  A second enrolment of
   the same user breaks the primary key, outside the try: the request ends.   *)
JoinEnroll(r) ==
    /\ At(r, "join_enroll")
    /\ LockFree
    /\ IF <<task[r].class, task[r].user>> \in enrolled
          THEN Finish(r) /\ UNCHANGED writer
          ELSE /\ Become(r, [task[r] EXCEPT !.pc = "join_pick"])
               /\ writer' = r
    /\ UNCHANGED db

JoinPick(r) ==
    /\ At(r, "join_pick")
    /\ \/ \E i \in Rows :
             /\ Free(i, task[r].class)
             /\ Become(r, [task[r] EXCEPT !.pc = "join_commit",
                                          !.patch = AssignPatch(i, task[r].user)])
       \/ /\ \A i \in Rows : ~Free(i, task[r].class)
          /\ Become(r, [task[r] EXCEPT !.pc = "join_commit"])
    /\ UNCHANGED <<db, writer>>

(* Variant: the student gets the VM but no enrolment.                        *)
JoinCommitNoEnrolment(r) ==
    /\ At(r, "join_commit")
    /\ vm' = IF Stale(task[r].patch) THEN vm ELSE Flushed(task[r].patch)
    /\ writer' = NoRequest
    /\ Finish(r)
    /\ UNCHANGED <<users, classes, token, enrolled>>

JoinCommit(r) ==
    /\ At(r, "join_commit")
    /\ vm' = IF Stale(task[r].patch) THEN vm ELSE Flushed(task[r].patch)
    /\ enrolled' = IF Stale(task[r].patch) THEN enrolled
                   ELSE enrolled \cup {<<task[r].class, task[r].user>>}
    /\ writer' = NoRequest
    /\ Finish(r)
    /\ UNCHANGED <<users, classes, token>>

-----------------------------------------------------------------------------
(* auto_assign_vms_to_waiting_students: two reads, then the UPDATEs.         *)

(* Variant: all users without a VM are waiting, enrolled or not.             *)
AutoReadEverybody(r, c) ==
    /\ Start(r, "auto")
    /\ c \in classes
    /\ LET waiting == {u \in users : HeldBy(c, u) = {}}
       IN /\ waiting # {}
          /\ Become(r, [Idle EXCEPT !.pc = "auto_pick", !.class = c,
                                    !.waiting = waiting])
    /\ UNCHANGED <<db, writer>>

AutoRead(r, c) ==
    /\ Start(r, "auto")
    /\ c \in classes
    /\ LET waiting == {u \in users : <<c, u>> \in enrolled /\ HeldBy(c, u) = {}}
       IN /\ waiting # {}
          /\ Become(r, [Idle EXCEPT !.pc = "auto_pick", !.class = c,
                                    !.waiting = waiting])
    /\ UNCHANGED <<db, writer>>

(* zip(students, vms): an injective match that runs out of one of the two.  *)
Zips(match, waiting, free) ==
    /\ \A i \in Rows : match[i] # NoUser => i \in free
    /\ \A i, j \in Rows : match[i] = match[j] /\ match[i] # NoUser => i = j
    /\ \/ \A u \in waiting : \E i \in Rows : match[i] = u
       \/ \A i \in free : match[i] # NoUser

AutoPick(r) ==
    /\ At(r, "auto_pick")
    /\ LET free == {i \in Rows : Free(i, task[r].class)}
       IN IF free = {}
             THEN Finish(r)
             ELSE \E match \in [Rows -> task[r].waiting \cup {NoUser}] :
                    /\ Zips(match, task[r].waiting, free)
                    /\ Become(r, [task[r] EXCEPT
                            !.pc = "update",
                            !.patch = [i \in Rows |->
                                IF match[i] = NoUser THEN NoPatch
                                ELSE Diff(vm[i], match[i], "assigned")]])
    /\ UNCHANGED <<db, writer>>

-----------------------------------------------------------------------------
(* The handlers that change one row.                                         *)

(* assign_vm_to_user: `first()` may return any of the rows the user holds.   *)
AssignRead(r, i, u) ==
    /\ Start(r, "assign")
    /\ Exists(i) /\ u \in users
    /\ HeldBy(vm[i].class, u) = {} \/ i \in HeldBy(vm[i].class, u)
    /\ Become(r, [Idle EXCEPT !.pc = "update", !.patch = AssignPatch(i, u)])
    /\ UNCHANGED <<db, writer>>

(* POST /classes/<c>/assign-vm: looks at no other row of the user.           *)
AssignStudentRead(r, c, i, u) ==
    /\ Start(r, "assign_student")
    /\ c \in classes /\ Exists(i) /\ vm[i].class = c /\ u \in users
    /\ Become(r, [Idle EXCEPT !.pc = "update", !.patch = AssignPatch(i, u)])
    /\ UNCHANGED <<db, writer>>

UnassignRead(r, i) ==
    /\ Start(r, "unassign")
    /\ Exists(i)
    /\ Become(r, [Idle EXCEPT !.pc = "update", !.patch = UnassignPatch(i)])
    /\ UNCHANGED <<db, writer>>

(* The commit of auto-assign, assign, assign-vm and unassign.                *)
UpdateCommit(r) ==
    /\ At(r, "update")
    /\ LockFree
    /\ vm' = IF Stale(task[r].patch) THEN vm ELSE Flushed(task[r].patch)
    /\ Finish(r)
    /\ UNCHANGED <<users, classes, token, enrolled, writer>>

(* delete_vm_route and delete_vm_assignment.                                 *)
DeleteRowRead(r, c, i) ==
    /\ Start(r, "delete_row")
    /\ c \in classes /\ Exists(i) /\ vm[i].class = c
    /\ Become(r, [Idle EXCEPT !.pc = "delete_row", !.doomed = {i}])
    /\ UNCHANGED <<db, writer>>

Without(doomed) == [i \in Rows |-> IF i \in doomed THEN Blank ELSE vm[i]]

DeleteRowCommit(r) ==
    /\ At(r, "delete_row")
    /\ LockFree
    /\ vm' = Without(task[r].doomed)
    /\ Finish(r)
    /\ UNCHANGED <<users, classes, token, enrolled, writer>>

-----------------------------------------------------------------------------
(* delete_user: the rows read first lose user and status; at the flush the
   relationship User.vm_assignments sets the user of every row that refers to
   the account by then to NULL, and only that column.                        *)

DeleteUserRead(r, u) ==
    /\ Start(r, "delete_user")
    /\ u \in users \ Staff
    /\ Become(r, [Idle EXCEPT
            !.pc = "delete_user", !.user = u,
            !.patch = [i \in Rows |-> IF Exists(i) /\ vm[i].user = u
                                      THEN Diff(vm[i], NoUser, "available")
                                      ELSE NoPatch]])
    /\ UNCHANGED <<db, writer>>

(* Variant: the account goes, its rows are not touched.                      *)
DeleteUserCommitKeepsRows(r) ==
    /\ At(r, "delete_user")
    /\ LockFree
    /\ users' = users \ {task[r].user}
    /\ enrolled' = {e \in enrolled : e[2] # task[r].user}
    /\ Finish(r)
    /\ UNCHANGED <<classes, token, vm, writer>>

DeleteUserCommit(r) ==
    /\ At(r, "delete_user")
    /\ LockFree
    /\ LET u == task[r].user
           flushed == Flushed(task[r].patch)
       IN IF Stale(task[r].patch)
             THEN UNCHANGED <<vm, users, enrolled>>
             ELSE /\ vm' = [i \in Rows |-> IF flushed[i].user = u
                                           THEN [flushed[i] EXCEPT !.user = NoUser]
                                           ELSE flushed[i]]
                  /\ users' = users \ {u}
                  /\ enrolled' = {e \in enrolled : e[2] # u}
    /\ Finish(r)
    /\ UNCHANGED <<classes, token, writer>>

(* delete_class: class_.vm_assignments is read to collect the VMIDs, so the
   cascade deletes those rows and no row added since.                        *)
DeleteClassRead(r, c) ==
    /\ Start(r, "delete_class")
    /\ c \in classes
    /\ Become(r, [Idle EXCEPT
            !.pc = "delete_class", !.class = c, !.tries = 1,
            !.doomed = {i \in Rows : Exists(i) /\ vm[i].class = c}])
    /\ UNCHANGED <<db, writer>>

(* Variant: no cascade to the VM rows.                                       *)
DeleteClassCommitKeepsRows(r) ==
    /\ At(r, "delete_class")
    /\ LockFree
    /\ classes' = classes \ {task[r].class}
    /\ enrolled' = {e \in enrolled : e[1] # task[r].class}
    /\ token' = [token EXCEPT ![task[r].class] = "none"]
    /\ Finish(r)
    /\ UNCHANGED <<users, vm, writer>>

DeleteClassCommit(r) ==
    /\ At(r, "delete_class")
    /\ LockFree
    /\ LET c == task[r].class
       IN /\ vm' = Without(task[r].doomed)
          /\ classes' = classes \ {c}
          /\ enrolled' = {e \in enrolled : e[1] # c}
          /\ token' = [token EXCEPT ![c] = "none"]
    /\ Finish(r)
    /\ UNCHANGED <<users, writer>>

-----------------------------------------------------------------------------
(* Rows are added by the deployment thread (create_class_vms), whose loop
   flushes a row and keeps the lock until its batch is committed, and by hand. *)

(* The rowid SQLite gives an INSERT: one more than the largest in use.       *)
NewRow(i) == \A j \in Rows : j >= i => ~Exists(j)
NextRow(i) == NewRow(i) /\ (i = 1 \/ ~NewRow(i - 1))

InsertRow(c, kind) ==
    \E i \in Rows :
        /\ NextRow(i)
        /\ vm' = [vm EXCEPT ![i] = [class |-> c, user |-> NoUser,
                                    status |-> "available", kind |-> kind]]

DeployStart(r, c) ==
    /\ Start(r, "deploy")
    /\ c \in classes
    /\ Become(r, [Idle EXCEPT !.pc = "deploy", !.class = c])
    /\ UNCHANGED <<db, writer>>

DeployFlush(r) ==
    /\ At(r, "deploy")
    /\ LockFree
    /\ \E i \in Rows : NextRow(i)
    /\ Become(r, [task[r] EXCEPT !.pc = "deploy_locked"])
    /\ writer' = r
    /\ UNCHANGED db

(* After the commit the loop touches the expired class_, and so ends when the
   class is gone by then.                                                    *)
DeployCommit(r) ==
    /\ At(r, "deploy_locked")
    /\ InsertRow(task[r].class, "pool")
    /\ writer' = NoRequest
    /\ IF task[r].class \in classes
          THEN Become(r, [task[r] EXCEPT !.pc = "deploy"])
          ELSE Finish(r)
    /\ UNCHANGED <<users, classes, token, enrolled>>

DeployEnd(r) == At(r, "deploy") /\ Finish(r) /\ UNCHANGED <<db, writer>>

AddManualRead(r, c) ==
    /\ Start(r, "add_manual")
    /\ c \in classes
    /\ Become(r, [Idle EXCEPT !.pc = "insert", !.class = c])
    /\ UNCHANGED <<db, writer>>

AddManualCommit(r) ==
    /\ At(r, "insert")
    /\ LockFree
    /\ InsertRow(task[r].class, "manual")
    /\ Finish(r)
    /\ UNCHANGED <<users, classes, token, enrolled, writer>>

-----------------------------------------------------------------------------
(* Invite links: one column group of one row, read and written at once.     *)

GenerateInvite(c, never) ==
    /\ "invite" \in Ops
    /\ c \in classes /\ LockFree
    /\ token' = [token EXCEPT ![c] = IF never THEN "permanent" ELSE "expiring"]
    /\ UNCHANGED <<users, classes, enrolled, vm, writer, task>>

InvalidateInvite(c) ==
    /\ "invite" \in Ops
    /\ c \in classes /\ LockFree
    /\ token' = [token EXCEPT ![c] = "none"]
    /\ UNCHANGED <<users, classes, enrolled, vm, writer, task>>

TokenExpires(c) ==
    /\ token[c] = "expiring"
    /\ token' = [token EXCEPT ![c] = "expired"]
    /\ UNCHANGED <<users, classes, enrolled, vm, writer, task>>

-----------------------------------------------------------------------------
(* Failures.  A flush that waits longer than the 60 s busy timeout fails with
   "database is locked": the handler rolls back and returns an error, and only
   delete_class tries again, up to three times, from a fresh read.           *)

(* Variants: delete_class retries for ever, its count unread or unkept.      *)
LockTimeoutUnread(r) ==
    /\ task[r].pc \in Flushing
    /\ ~LockFree
    /\ IF task[r].pc = "delete_class" /\ task[r].tries < 4
          THEN Become(r, [task[r] EXCEPT !.tries = @ + 1])
          ELSE Finish(r)
    /\ UNCHANGED <<db, writer>>

LockTimeoutUncounted(r) ==
    /\ task[r].pc \in Flushing
    /\ ~LockFree
    /\ IF task[r].pc = "delete_class" THEN UNCHANGED task ELSE Finish(r)
    /\ UNCHANGED <<db, writer>>

LockTimeout(r) ==
    /\ task[r].pc \in Flushing
    /\ ~LockFree
    /\ IF task[r].pc = "delete_class" /\ task[r].tries < 3 /\ task[r].class \in classes
          THEN Become(r, [task[r] EXCEPT
                    !.tries = @ + 1,
                    !.doomed = {i \in Rows : Exists(i) /\ vm[i].class = task[r].class}])
          ELSE Finish(r)
    /\ UNCHANGED <<db, writer>>

(* The transaction fails, or the process dies: SQLite rolls it back.         *)
Rollback(r) ==
    /\ task[r].pc \in Locked
    /\ writer' = NoRequest
    /\ Finish(r)
    /\ UNCHANGED db

Join(r) == \/ \E c \in Classes, u \in Users : JoinCheck(r, c, u)
           \/ JoinEnroll(r) \/ JoinPick(r) \/ JoinCommit(r)
AutoAssign(r) == (\E c \in Classes : AutoRead(r, c)) \/ AutoPick(r)
Assign(r) == \/ \E i \in Rows, u \in Users : AssignRead(r, i, u)
             \/ \E c \in Classes, i \in Rows, u \in Users : AssignStudentRead(r, c, i, u)
             \/ \E i \in Rows : UnassignRead(r, i)
             \/ UpdateCommit(r)
Delete(r) == \/ \E c \in Classes, i \in Rows : DeleteRowRead(r, c, i)
             \/ DeleteRowCommit(r)
             \/ \E u \in Users : DeleteUserRead(r, u)
             \/ DeleteUserCommit(r)
             \/ \E c \in Classes : DeleteClassRead(r, c)
             \/ DeleteClassCommit(r)
Add(r) == \/ \E c \in Classes : DeployStart(r, c)
          \/ DeployFlush(r) \/ DeployCommit(r) \/ DeployEnd(r)
          \/ \E c \in Classes : AddManualRead(r, c)
          \/ AddManualCommit(r)
Invite == \E c \in Classes :
             \/ \E never \in BOOLEAN : GenerateInvite(c, never)
             \/ InvalidateInvite(c) \/ TokenExpires(c)

Next == \/ \E r \in Requests : \/ Join(r) \/ AutoAssign(r) \/ Assign(r)
                               \/ Delete(r) \/ Add(r) \/ LockTimeout(r) \/ Rollback(r)
        \/ Invite

Spec == Init /\ [][Next]_vars

-----------------------------------------------------------------------------
(* Fairness: a handler that has started runs on (its thread is scheduled, and
   SQLite answers a lock request within the busy timeout one way or the
   other); nothing makes a user or a teacher start one.                      *)

Runs(r) == \/ JoinEnroll(r) \/ JoinPick(r) \/ JoinCommit(r) \/ AutoPick(r)
           \/ UpdateCommit(r) \/ DeleteRowCommit(r) \/ DeleteUserCommit(r)
           \/ DeleteClassCommit(r) \/ DeployFlush(r) \/ DeployCommit(r)
           \/ DeployEnd(r) \/ AddManualCommit(r) \/ LockTimeout(r)

FairSpec == Spec /\ \A r \in Requests : WF_vars(Runs(r))

-----------------------------------------------------------------------------
(* Safety.                                                                   *)

(* What join_class_via_token picked is still free when it commits, although
   every other handler writes rows it read earlier: the enrolment it flushed
   first holds the write lock.  (class_service.py, join_class_via_token)     *)
PickedIsFree ==
    \A r \in Requests : At(r, "join_commit") =>
        \A i \in Rows : task[r].patch[i] # NoPatch => Free(i, task[r].class)

(* The inductive form of it: a request is inside a transaction exactly when it
   is the writer, a join has nothing but the enrolment to write until it has
   picked, and a join about to commit has either a free VM in its patch or an
   empty pool before it.                                                     *)
LockInv == \A r \in Requests : task[r].pc \in Locked <=> writer = r
PickInv ==
    \A r \in Requests : At(r, "join_commit") =>
        \/ \E i \in Rows : /\ Free(i, task[r].class)
                           /\ task[r].user \in Users
                           /\ task[r].patch = AssignPatch(i, task[r].user)
        \/ /\ \A i \in Rows : ~Free(i, task[r].class)
           /\ task[r].patch = Clean
CleanInv == \A r \in Requests : task[r].pc \in {"join_enroll", "join_pick"}
                                   => task[r].patch = Clean
JoinInv == LockInv /\ CleanInv /\ PickInv

(* A join takes no VM from anybody.  (class_service.py, join_class_via_token) *)
JoinNeverEvicts ==
    [][\A r \in Requests : At(r, "join_commit") /\ task'[r].pc = "idle" =>
          \A i \in Rows : vm'[i] # vm[i] => vm[i].user = NoUser]_vars

(* A join leaves the student waiting only when the class has no VM to give at
   the moment of the commit.  (class_service.py, join_class_via_token)       *)
WaitsOnlyWhenPoolEmpty ==
    [][\A r \in Requests :
          LET c == task[r].class
              u == task[r].user
          IN At(r, "join_commit") /\ <<c, u>> \in enrolled' \ enrolled
                => \/ \E i \in Rows : vm'[i].user = u /\ vm'[i].class = c
                   \/ \A i \in Rows : ~Free(i, c)]_vars

(* A student's VM belongs to a class the student is enrolled in, whatever the
   order of joins, auto-assignments and withdrawals, as long as the class is
   there.  Not where rows of several classes are deleted and added beside an
   auto-assignment: the id it writes may be a row of another class by then.
   (class_service.py, join and auto-assign)                                  *)
HolderIsEnrolled ==
    \A i \in Rows : vm[i].user \notin Staff \cup {NoUser} /\ vm[i].class \in classes =>
        <<vm[i].class, vm[i].user>> \in enrolled

(* The two columns that say whether a VM is taken agree: no VM is offered
   while somebody holds it, none is withheld while nobody does.  So it is
   where either VMs are withdrawn or rows deleted; where both are, the pending
   withdrawal of a reserved base VM may free a row a student got under the
   same id.  (models.py, assign_to_user and unassign)                        *)
AssignedIffHeld == \A i \in Rows : vm[i].status = "assigned" <=> vm[i].user # NoUser

(* assign_vm_to_user: "Check if user already has a VM in this class".        *)
OneVmPerStudent ==
    \A c \in classes, u \in Users \ Staff : Cardinality(HeldBy(c, u)) <= 1

(* auto_assign_vms_to_waiting_students: "Auto-assign available VMs to enrolled
   students who don't have VMs yet": it takes no VM from a student.          *)
AutoAssignNeverEvicts ==
    [][\A r \in Requests : At(r, "update") /\ task[r].waiting # {} =>
          \A i \in Rows : vm'[i].user # vm[i].user /\ task'[r].pc = "idle"
                              => vm[i].user = NoUser]_vars

(* delete_class: "Delete a class and all its VM assignments."                *)
NoOrphanRows == \A i \in Rows : Exists(i) => vm[i].class \in classes

(* delete_user: "Delete a user and their assignments": no row names an account
   that is gone.                                                             *)
NoDanglingHolder == \A i \in Rows : vm[i].user # NoUser => vm[i].user \in users

-----------------------------------------------------------------------------
(* Refinement: a row is a seat, on offer when a join may take it.  Where      *)
(* nobody but the students assigns VMs, a join implements the atomic Join of  *)
(* Enrolment at its commit.  (class_service.py, join_class_via_token)         *)

SeatOf(i) == [class |-> vm[i].class, user |-> vm[i].user,
              offered |-> Free(i, vm[i].class)]
Seating == [i \in Rows |-> SeatOf(i)]

Promise == INSTANCE Enrolment WITH
    Seats <- Rows, member <- enrolled, seat <- Seating
JoinIsAtomic == Promise!Spec

-----------------------------------------------------------------------------
(* Liveness.                                                                 *)

(* Every request that has started ends, however often the lock is taken from
   under it.  (class_service.py, the handlers and delete_class's retries)    *)
RequestsEnd == \A r \in Requests : task[r].pc # "idle" ~> task[r].pc = "idle"

=============================================================================
