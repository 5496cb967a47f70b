--------------------------- MODULE ClassPoolProofs ---------------------------
(***************************************************************************)
(* Proofs about ClassPool for every set of users, classes, requests and     *)
(* rows, every initial table and every set of operations: type correctness, *)
(* that joining is serialised by the write lock (JoinInv), and from it that *)
(* a join hands out only a free VM, takes none from anybody and leaves a    *)
(* student waiting only beside an empty pool.                               *)
(*                                                                          *)
(* Then what holds for some of the operations: rows end with their classes  *)
(* and holders while requests run one at a time; holders are enrolled and   *)
(* the columns of a row agree while nobody assigns by hand; and where VMs   *)
(* are had by joining only, nobody has two and ClassPool implements         *)
(* Enrolment.                                                               *)
(***************************************************************************)
EXTENDS ClassPool, FiniteSetTheorems, TLAPS

(* Updating a typed row by a typed patch gives a typed row.                  *)
LEMMA UpdatedType ==
    ASSUME NEW row \in VmRow, NEW p \in Patch
    PROVE  Updated(row, p) \in VmRow
  <1>1. (IF p.user = Same THEN row.user ELSE p.user) \in Users \cup {NoUser}
    BY DEF VmRow, Patch
  <1>2. (IF p.status = Same THEN row.status ELSE p.status) \in Status
    BY DEF VmRow, Patch
  <1>3. QED
    BY <1>1, <1>2 DEF Updated, VmRow

LEMMA UpdatedIs ==
    ASSUME NEW row, NEW p
    PROVE  /\ Updated(row, p).class = row.class
           /\ Updated(row, p).kind = row.kind
           /\ Updated(row, p).user = IF p.user = Same THEN row.user ELSE p.user
           /\ Updated(row, p).status = IF p.status = Same THEN row.status ELSE p.status
  BY DEF Updated

LEMMA DiffType ==
    ASSUME NEW row \in VmRow, NEW u \in Users \cup {NoUser}, NEW s \in Status
    PROVE  Diff(row, u, s) \in Patch
  BY DEF Diff, Patch, VmRow

LEMMA IdleType == Idle \in Task /\ NoPatch \in Patch /\ Clean \in [Rows -> Patch]
                  /\ Blank \in VmRow
  BY DEF Idle, Task, PC, NoPatch, Patch, Clean, Blank, VmRow, Kind, Status

LEMMA AssignPatchType ==
    ASSUME TypeOK, NEW i \in Rows, NEW u \in Users \cup {NoUser}
    PROVE  AssignPatch(i, u) \in [Rows -> Patch]
  <1>1. Diff(vm[i], u, "assigned") \in Patch
    BY DiffType DEF TypeOK, Status
  <1>2. QED
    BY <1>1, IdleType DEF AssignPatch

LEMMA UnassignPatchType ==
    ASSUME TypeOK, NEW i \in Rows
    PROVE  UnassignPatch(i) \in [Rows -> Patch]
  <1>1. Diff(vm[i], NoUser, "available") \in Patch
    BY DiffType DEF TypeOK, Status
  <1>2. QED
    BY <1>1, IdleType DEF UnassignPatch

LEMMA FlushedType ==
    ASSUME TypeOK, NEW p \in [Rows -> Patch]
    PROVE  Flushed(p) \in [Rows -> VmRow]
  <1>1. \A i \in Rows : Updated(vm[i], p[i]) \in VmRow
    BY UpdatedType DEF TypeOK
  <1>2. QED
    BY <1>1 DEF Flushed

LEMMA WithoutType ==
    ASSUME TypeOK, NEW d \in SUBSET Rows
    PROVE  Without(d) \in [Rows -> VmRow]
  BY IdleType DEF TypeOK, Without

LEMMA InsertType ==
    ASSUME TypeOK, NEW c \in Classes \cup {NoClass}, NEW kind \in Kind, InsertRow(c, kind)
    PROVE  vm' \in [Rows -> VmRow]
  <1>1. PICK i \in Rows :
           vm' = [vm EXCEPT ![i] = [class |-> c, user |-> NoUser,
                                    status |-> "available", kind |-> kind]]
    BY DEF InsertRow
  <1>2. [class |-> c, user |-> NoUser, status |-> "available", kind |-> kind] \in VmRow
    BY DEF VmRow, Status
  <1>3. QED
    BY <1>1, <1>2 DEF TypeOK

(* A request's new record is all a step changes of task.                     *)
LEMMA BecomeType ==
    ASSUME TypeOK, NEW r \in Requests, NEW new \in Task, Become(r, new)
    PROVE  /\ task' \in [Requests -> Task]
           /\ task'[r] = new
           /\ \A q \in Requests \ {r} : task'[q] = task[q]
  BY DEF TypeOK, Become

LEMMA FinishType ==
    ASSUME TypeOK, NEW r \in Requests, Finish(r)
    PROVE  /\ task' \in [Requests -> Task]
           /\ \A q \in Requests : task'[q].pc \in Joining =>
                 task'[q].class \in Classes /\ task'[q].user \in Users
  <1>1. task' \in [Requests -> Task] /\ task'[r] = Idle
        /\ \A q \in Requests \ {r} : task'[q] = task[q]
    BY IdleType, BecomeType DEF Finish
  <1>2. QED
    BY <1>1 DEF TypeOK, Idle, Joining

(* The request goes on with another point of the same operation.             *)
LEMMA GoOnType ==
    ASSUME TypeOK, NEW r \in Requests, NEW new \in Task, Become(r, new),
           new.pc \in Joining => new.class \in Classes /\ new.user \in Users
    PROVE  /\ task' \in [Requests -> Task]
           /\ \A q \in Requests : task'[q].pc \in Joining =>
                 task'[q].class \in Classes /\ task'[q].user \in Users
  BY BecomeType DEF TypeOK

-----------------------------------------------------------------------------
(* Type correctness, handler by handler.                                     *)

LEMMA JoinType ==
    ASSUME TypeOK, NEW r \in Requests, Join(r)
    PROVE  TypeOK'
  <1>0. task[r] \in Task
    BY DEF TypeOK
  <1>1. ASSUME NEW c \in Classes, NEW u \in Users, JoinCheck(r, c, u)
        PROVE  TypeOK'
    <2> DEFINE new == [Idle EXCEPT !.pc = "join_enroll", !.class = c, !.user = u]
    <2>1. new \in Task /\ new.class \in Classes /\ new.user \in Users
      BY IdleType DEF Task, PC
    <2>2. Become(r, new)
      BY <1>1 DEF JoinCheck
    <2> HIDE DEF new
    <2>3. QED
      BY <1>1, <2>1, <2>2, GoOnType DEF TypeOK, JoinCheck, db
  <1>2. CASE JoinEnroll(r)
    <2> DEFINE new == [task[r] EXCEPT !.pc = "join_pick"]
    <2>1. new \in Task /\ new.class = task[r].class /\ new.user = task[r].user
      BY <1>0 DEF Task, PC
    <2>2. task[r].class \in Classes /\ task[r].user \in Users
      BY <1>2 DEF JoinEnroll, At, TypeOK, Joining
    <2>3. Become(r, new) \/ Finish(r)
      BY <1>2 DEF JoinEnroll
    <2> HIDE DEF new
    <2>4. QED
      BY <1>2, <2>1, <2>2, <2>3, GoOnType, FinishType DEF TypeOK, JoinEnroll, db
  <1>3. CASE JoinPick(r)
    <2>2. task[r].class \in Classes /\ task[r].user \in Users
      BY <1>3 DEF JoinPick, At, TypeOK, Joining
    <2>3. ASSUME NEW p \in [Rows -> Patch],
                 Become(r, [task[r] EXCEPT !.pc = "join_commit", !.patch = p])
          PROVE  TypeOK'
      <3> DEFINE new == [task[r] EXCEPT !.pc = "join_commit", !.patch = p]
      <3>1. new \in Task /\ new.class = task[r].class /\ new.user = task[r].user
        BY <1>0 DEF Task, PC
      <3>2. Become(r, new)
        BY <2>3
      <3> HIDE DEF new
      <3>3. QED
        BY <1>3, <2>2, <3>1, <3>2, GoOnType DEF TypeOK, JoinPick, db
    <2>4. ASSUME Become(r, [task[r] EXCEPT !.pc = "join_commit"])
          PROVE  TypeOK'
      <3> DEFINE new == [task[r] EXCEPT !.pc = "join_commit"]
      <3>1. new \in Task /\ new.class = task[r].class /\ new.user = task[r].user
        BY <1>0 DEF Task, PC
      <3>2. Become(r, new)
        BY <2>4
      <3> HIDE DEF new
      <3>3. QED
        BY <1>3, <2>2, <3>1, <3>2, GoOnType DEF TypeOK, JoinPick, db
    <2>5. \A i \in Rows : AssignPatch(i, task[r].user) \in [Rows -> Patch]
      BY <2>2, AssignPatchType
    <2>6. QED
      BY <1>3, <2>3, <2>4, <2>5 DEF JoinPick
  <1>4. CASE JoinCommit(r)
    <2>1. task[r].patch \in [Rows -> Patch]
      BY <1>0 DEF Task
    <2>2. vm' \in [Rows -> VmRow]
      BY <1>4, <2>1, FlushedType DEF JoinCommit, TypeOK
    <2>3. task[r].class \in Classes /\ task[r].user \in Users
      BY <1>4 DEF JoinCommit, At, TypeOK, Joining
    <2>4. enrolled' \subseteq Classes \X Users
      BY <1>4, <2>3 DEF JoinCommit, TypeOK
    <2>5. QED
      BY <1>4, <2>2, <2>4, FinishType DEF TypeOK, JoinCommit
  <1>5. QED
    BY <1>1, <1>2, <1>3, <1>4 DEF Join

LEMMA AutoAssignType ==
    ASSUME TypeOK, NEW r \in Requests, AutoAssign(r)
    PROVE  TypeOK'
  <1>0. task[r] \in Task
    BY DEF TypeOK
  <1>1. ASSUME NEW c \in Classes, AutoRead(r, c)
        PROVE  TypeOK'
    <2>1. \A w \in SUBSET Users :
             LET new == [Idle EXCEPT !.pc = "auto_pick", !.class = c, !.waiting = w]
             IN new \in Task /\ new.pc \notin Joining
      BY IdleType DEF Task, PC, Joining
    <2>2. {u \in users : <<c, u>> \in enrolled /\ HeldBy(c, u) = {}} \in SUBSET Users
      BY DEF TypeOK
    <2>3. QED
      BY <1>1, <2>1, <2>2, GoOnType DEF TypeOK, AutoRead, db
  <1>2. CASE AutoPick(r)
    <2>1. ASSUME NEW match \in [Rows -> task[r].waiting \cup {NoUser}]
          PROVE  LET new == [task[r] EXCEPT
                                 !.pc = "update",
                                 !.patch = [i \in Rows |->
                                     IF match[i] = NoUser THEN NoPatch
                                     ELSE Diff(vm[i], match[i], "assigned")]]
                 IN new \in Task /\ new.pc \notin Joining
      <3>1. \A i \in Rows : match[i] \in Users \cup {NoUser}
        BY <1>0 DEF Task
      <3>2. \A i \in Rows : Diff(vm[i], match[i], "assigned") \in Patch
        BY <3>1, DiffType DEF TypeOK, Status
      <3>3. [i \in Rows |-> IF match[i] = NoUser THEN NoPatch
                            ELSE Diff(vm[i], match[i], "assigned")] \in [Rows -> Patch]
        BY <3>2, IdleType
      <3>4. QED
        BY <1>0, <3>3 DEF Task, PC, Joining
    <2>2. QED
      BY <1>2, <2>1, GoOnType, FinishType DEF TypeOK, AutoPick, db
  <1>3. QED
    BY <1>1, <1>2 DEF AutoAssign

LEMMA UpdatePatchType ==
    ASSUME NEW p \in [Rows -> Patch]
    PROVE  LET new == [Idle EXCEPT !.pc = "update", !.patch = p]
           IN new \in Task /\ new.pc \notin Joining
  BY IdleType DEF Task, PC, Joining

LEMMA AssignType ==
    ASSUME TypeOK, NEW r \in Requests, Assign(r)
    PROVE  TypeOK'
  <1>0. task[r] \in Task
    BY DEF TypeOK
  <1>1. ASSUME NEW i \in Rows, NEW u \in Users, AssignRead(r, i, u)
        PROVE  TypeOK'
    BY <1>1, AssignPatchType, UpdatePatchType, GoOnType DEF TypeOK, AssignRead, db
  <1>2. ASSUME NEW c \in Classes, NEW i \in Rows, NEW u \in Users,
               AssignStudentRead(r, c, i, u)
        PROVE  TypeOK'
    BY <1>2, AssignPatchType, UpdatePatchType, GoOnType
       DEF TypeOK, AssignStudentRead, db
  <1>3. ASSUME NEW i \in Rows, UnassignRead(r, i)
        PROVE  TypeOK'
    BY <1>3, UnassignPatchType, UpdatePatchType, GoOnType DEF TypeOK, UnassignRead, db
  <1>4. CASE UpdateCommit(r)
    <2>1. task[r].patch \in [Rows -> Patch]
      BY <1>0 DEF Task
    <2>2. vm' \in [Rows -> VmRow]
      BY <1>4, <2>1, FlushedType DEF UpdateCommit, TypeOK
    <2>3. QED
      BY <1>4, <2>2, FinishType DEF TypeOK, UpdateCommit
  <1>5. QED
    BY <1>1, <1>2, <1>3, <1>4 DEF Assign

LEMMA DeleteType ==
    ASSUME TypeOK, NEW r \in Requests, Delete(r)
    PROVE  TypeOK'
  <1>0. task[r] \in Task
    BY DEF TypeOK
  <1>1. ASSUME NEW c \in Classes, NEW i \in Rows, DeleteRowRead(r, c, i)
        PROVE  TypeOK'
    <2>1. LET new == [Idle EXCEPT !.pc = "delete_row", !.doomed = {i}]
          IN new \in Task /\ new.pc \notin Joining
      BY IdleType DEF Task, PC, Joining
    <2>2. QED
      BY <1>1, <2>1, GoOnType DEF TypeOK, DeleteRowRead, db
  <1>2. CASE DeleteRowCommit(r)
    <2>1. vm' \in [Rows -> VmRow]
      BY <1>0, <1>2, WithoutType DEF DeleteRowCommit, Task
    <2>2. QED
      BY <1>2, <2>1, FinishType DEF TypeOK, DeleteRowCommit
  <1>3. ASSUME NEW u \in Users, DeleteUserRead(r, u)
        PROVE  TypeOK'
    <2> DEFINE p == [i \in Rows |-> IF Exists(i) /\ vm[i].user = u
                                    THEN Diff(vm[i], NoUser, "available")
                                    ELSE NoPatch]
    <2>1. p \in [Rows -> Patch]
      <3>1. \A i \in Rows : Diff(vm[i], NoUser, "available") \in Patch
        BY DiffType DEF TypeOK, Status
      <3>2. QED
        BY <3>1, IdleType
    <2>2. Become(r, [Idle EXCEPT !.pc = "delete_user", !.user = u, !.patch = p])
      BY <1>3 DEF DeleteUserRead
    <2> HIDE DEF p
    <2>3. LET new == [Idle EXCEPT !.pc = "delete_user", !.user = u, !.patch = p]
          IN new \in Task /\ new.pc \notin Joining
      BY <2>1, IdleType DEF Task, PC, Joining
    <2>4. QED
      BY <1>3, <2>2, <2>3, GoOnType DEF TypeOK, DeleteUserRead, db
  <1>4. CASE DeleteUserCommit(r)
    <2>1. Flushed(task[r].patch) \in [Rows -> VmRow]
      BY <1>0, FlushedType DEF Task
    <2>2. \A row \in VmRow : [row EXCEPT !.user = NoUser] \in VmRow
      BY DEF VmRow
    <2>3. ASSUME NEW f \in [Rows -> VmRow]
          PROVE  [i \in Rows |-> IF f[i].user = task[r].user
                                 THEN [f[i] EXCEPT !.user = NoUser]
                                 ELSE f[i]] \in [Rows -> VmRow]
      BY <2>2
    <2>4. vm' \in [Rows -> VmRow]
      BY <1>4, <2>1, <2>3 DEF DeleteUserCommit, TypeOK
    <2>5. users' \subseteq Users /\ enrolled' \subseteq Classes \X Users
      BY <1>4 DEF DeleteUserCommit, TypeOK
    <2>6. QED
      BY <1>4, <2>4, <2>5, FinishType DEF TypeOK, DeleteUserCommit
  <1>5. ASSUME NEW c \in Classes, DeleteClassRead(r, c)
        PROVE  TypeOK'
    <2>1. ASSUME NEW d \in SUBSET Rows
          PROVE  LET new == [Idle EXCEPT !.pc = "delete_class", !.class = c,
                                         !.tries = 1, !.doomed = d]
                 IN new \in Task /\ new.pc \notin Joining
      <3>1. 1 \in 0..3
        OBVIOUS
      <3>2. QED
        BY <3>1, IdleType DEF Task, PC, Joining, Idle
    <2>2. {i \in Rows : Exists(i) /\ vm[i].class = c} \in SUBSET Rows
      OBVIOUS
    <2>3. QED
      BY <1>5, <2>1, <2>2, GoOnType DEF TypeOK, DeleteClassRead, db
  <1>6. CASE DeleteClassCommit(r)
    <2>1. vm' \in [Rows -> VmRow]
      BY <1>0, <1>6, WithoutType DEF DeleteClassCommit, Task
    <2>2. classes' \subseteq Classes /\ enrolled' \subseteq Classes \X Users
          /\ token' \in [Classes -> Token]
      BY <1>6 DEF DeleteClassCommit, TypeOK, Token
    <2>3. QED
      BY <1>6, <2>1, <2>2, FinishType DEF TypeOK, DeleteClassCommit
  <1>7. QED
    BY <1>1, <1>2, <1>3, <1>4, <1>5, <1>6 DEF Delete

LEMMA AddType ==
    ASSUME TypeOK, NEW r \in Requests, Add(r)
    PROVE  TypeOK'
  <1>0. task[r] \in Task /\ task[r].class \in Classes \cup {NoClass}
    BY DEF TypeOK, Task
  <1>1. \A pc \in {"deploy", "insert"}, c \in Classes :
           LET new == [Idle EXCEPT !.pc = pc, !.class = c]
           IN new \in Task /\ new.pc \notin Joining
    BY IdleType DEF Task, PC, Joining
  <1>2. \A pc \in {"deploy", "deploy_locked"} :
           LET new == [task[r] EXCEPT !.pc = pc]
           IN new \in Task /\ new.pc \notin Joining
    BY <1>0 DEF Task, PC, Joining
  <1>3. ASSUME NEW c \in Classes, DeployStart(r, c)
        PROVE  TypeOK'
    BY <1>1, <1>3, GoOnType DEF TypeOK, DeployStart, db
  <1>4. CASE DeployFlush(r)
    BY <1>2, <1>4, GoOnType DEF TypeOK, DeployFlush, db
  <1>5. CASE DeployCommit(r)
    <2>1. vm' \in [Rows -> VmRow]
      BY <1>0, <1>5, InsertType DEF DeployCommit, Kind
    <2>2. QED
      BY <1>2, <1>5, <2>1, GoOnType, FinishType DEF TypeOK, DeployCommit
  <1>6. CASE DeployEnd(r)
    BY <1>6, FinishType DEF TypeOK, DeployEnd, db
  <1>7. ASSUME NEW c \in Classes, AddManualRead(r, c)
        PROVE  TypeOK'
    BY <1>1, <1>7, GoOnType DEF TypeOK, AddManualRead, db
  <1>8. CASE AddManualCommit(r)
    <2>1. vm' \in [Rows -> VmRow]
      BY <1>0, <1>8, InsertType DEF AddManualCommit, Kind
    <2>2. QED
      BY <1>8, <2>1, FinishType DEF TypeOK, AddManualCommit
  <1>9. QED
    BY <1>3, <1>4, <1>5, <1>6, <1>7, <1>8 DEF Add

LEMMA FailureType ==
    ASSUME TypeOK, NEW r \in Requests, LockTimeout(r) \/ Rollback(r)
    PROVE  TypeOK'
  <1>0. task[r] \in Task
    BY DEF TypeOK
  <1>1. CASE LockTimeout(r)
    <2>1. ASSUME task[r].pc = "delete_class", task[r].tries < 3, NEW d \in SUBSET Rows
          PROVE  LET new == [task[r] EXCEPT !.tries = @ + 1, !.doomed = d]
                 IN new \in Task /\ new.pc \notin Joining
      <3>1. task[r].tries + 1 \in 0..3
        BY <1>0, <2>1 DEF Task
      <3>2. QED
        BY <1>0, <2>1, <3>1 DEF Task, Joining
    <2>2. {i \in Rows : Exists(i) /\ vm[i].class = task[r].class} \in SUBSET Rows
      OBVIOUS
    <2>3. QED
      BY <1>1, <2>1, <2>2, GoOnType, FinishType DEF TypeOK, LockTimeout, db
  <1>2. CASE Rollback(r)
    BY <1>2, FinishType DEF TypeOK, Rollback, db
  <1>3. QED
    BY <1>1, <1>2

LEMMA InviteType == TypeOK /\ Invite => TypeOK'
  BY DEF TypeOK, Invite, GenerateInvite, InvalidateInvite, TokenExpires, Token

LEMMA TypeStep == TypeOK /\ [Next]_vars => TypeOK'
  <1>1. ASSUME TypeOK, NEW r \in Requests,
               \/ Join(r) \/ AutoAssign(r) \/ Assign(r) \/ Delete(r) \/ Add(r)
               \/ LockTimeout(r) \/ Rollback(r)
        PROVE  TypeOK'
    BY <1>1, JoinType, AutoAssignType, AssignType, DeleteType, AddType, FailureType
  <1>2. TypeOK /\ UNCHANGED vars => TypeOK'
    BY DEF TypeOK, vars, db
  <1>3. QED
    BY <1>1, <1>2, InviteType DEF Next

LEMMA TypeInit == Init => TypeOK
  <1>1. Init => [r \in Requests |-> Idle] \in [Requests -> Task]
    BY IdleType
  <1>2. QED
    BY <1>1, IdleType, PoolAssumption DEF Init, TypeOK, Token, Idle, Joining

(* The tables and every request's session state keep their types.
   (models.py; class_service.py)                                             *)
THEOREM TypeCorrect == Spec => []TypeOK
  <1>1. QED
    BY TypeInit, TypeStep, PTL DEF Spec

-----------------------------------------------------------------------------
(* The write lock serialises the joins.                                      *)

LEMMA BecomeIs ==
    ASSUME TypeOK, NEW r \in Requests, NEW new, Become(r, new)
    PROVE  /\ task'[r] = new
           /\ \A q \in Requests \ {r} : task'[q] = task[q]
  BY DEF TypeOK, Become

LEMMA FinishIs ==
    ASSUME TypeOK, NEW r \in Requests, Finish(r)
    PROVE  /\ task'[r].pc = "idle"
           /\ \A q \in Requests \ {r} : task'[q] = task[q]
  BY BecomeIs DEF Finish, Idle

(* What a step of a request does to the lock: nothing, take it when it is
   free, or give back its own.                                               *)
Keeps(r) == writer' = writer /\ (task'[r].pc \in Locked <=> task[r].pc \in Locked)
Takes(r) == LockFree /\ writer' = r /\ task'[r].pc \in Locked
Gives(r) == writer' = NoRequest /\ task[r].pc \in Locked /\ task'[r].pc \notin Locked

(* A step of r: it leaves the other requests alone, writes rows only with the
   lock free or held, and reaches join_commit only by picking.               *)
Disciplined(r) ==
    /\ \A q \in Requests \ {r} : task'[q] = task[q]
    /\ Keeps(r) \/ Takes(r) \/ Gives(r)
    /\ vm' = vm \/ LockFree \/ task[r].pc \in Locked
    /\ task'[r].pc = "join_commit" => JoinPick(r)
    /\ task'[r].pc \in {"join_enroll", "join_pick"} =>
          JoinEnroll(r) \/ task'[r].patch = Clean

LEMMA JoinDisciplined ==
    ASSUME TypeOK, NEW r \in Requests, Join(r)
    PROVE  Disciplined(r)
  <1> USE DEF Disciplined, Keeps, Takes, Gives, Locked, At
  <1>1. ASSUME NEW c \in Classes, NEW u \in Users, JoinCheck(r, c, u)
        PROVE  Disciplined(r)
    <2>1. task'[r] = [Idle EXCEPT !.pc = "join_enroll", !.class = c, !.user = u]
          /\ \A q \in Requests \ {r} : task'[q] = task[q]
      BY <1>1, BecomeIs DEF JoinCheck
    <2>2. task'[r].pc = "join_enroll" /\ task'[r].patch = Clean
      BY <2>1 DEF Idle
    <2>3. QED
      BY <1>1, <2>1, <2>2 DEF JoinCheck, Start, db
  <1>2. CASE JoinEnroll(r)
    <2>1. CASE Finish(r) /\ UNCHANGED writer
      BY <1>2, <2>1, FinishIs DEF JoinEnroll, db
    <2>2. CASE Become(r, [task[r] EXCEPT !.pc = "join_pick"]) /\ writer' = r
      <3>1. task'[r].pc = "join_pick" /\ \A q \in Requests \ {r} : task'[q] = task[q]
        BY <2>2, BecomeIs DEF TypeOK, Task
      <3>2. QED
        BY <1>2, <2>2, <3>1 DEF JoinEnroll, db
    <2>3. QED
      BY <1>2, <2>1, <2>2 DEF JoinEnroll
  <1>3. CASE JoinPick(r)
    <2>1. task[r] \in Task
      BY DEF TypeOK
    <2>2. task'[r].pc = "join_commit" /\ \A q \in Requests \ {r} : task'[q] = task[q]
      <3>1. \A p : ([task[r] EXCEPT !.pc = "join_commit", !.patch = p]).pc = "join_commit"
        BY <2>1 DEF Task
      <3>2. ([task[r] EXCEPT !.pc = "join_commit"]).pc = "join_commit"
        BY <2>1 DEF Task
      <3>3. QED
        BY <1>3, <3>1, <3>2, BecomeIs DEF JoinPick
    <2>3. QED
      BY <1>3, <2>2 DEF JoinPick, db
  <1>4. CASE JoinCommit(r)
    BY <1>4, FinishIs DEF JoinCommit
  <1>5. QED
    BY <1>1, <1>2, <1>3, <1>4 DEF Join

(* A read phase: the request leaves "idle" for a point before its flush.     *)
LEMMA ReadDisciplined ==
    ASSUME TypeOK, NEW r \in Requests, NEW new, Become(r, new),
           task[r].pc \notin Locked, new.pc \notin Locked, new.pc \notin Joining,
           vm' = vm, writer' = writer
    PROVE  Disciplined(r)
  BY BecomeIs DEF Disciplined, Keeps, Locked, Joining

(* A flush at commit(): the lock is free, and the request ends.              *)
LEMMA CommitDisciplined ==
    ASSUME TypeOK, NEW r \in Requests, Finish(r), task[r].pc \notin Locked,
           vm' = vm \/ LockFree, writer' = writer
    PROVE  Disciplined(r)
  BY FinishIs DEF Disciplined, Keeps, Locked

LEMMA OthersDisciplined ==
    ASSUME TypeOK, NEW r \in Requests,
           AutoAssign(r) \/ Assign(r) \/ Delete(r) \/ LockTimeout(r) \/ Rollback(r)
    PROVE  Disciplined(r)
  <1>0. task[r] \in Task
    BY DEF TypeOK
  <1> USE DEF Locked, Joining, At, Start, db
  <1>1. ASSUME NEW c \in Classes, AutoRead(r, c)
        PROVE  Disciplined(r)
    <2>1. \A w : ([Idle EXCEPT !.pc = "auto_pick", !.class = c, !.waiting = w]).pc
                    = "auto_pick"
      BY DEF Idle
    <2>2. QED
      BY <1>1, <2>1, ReadDisciplined DEF AutoRead
  <1>2. CASE AutoPick(r)
    <2>1. \A p : ([task[r] EXCEPT !.pc = "update", !.patch = p]).pc = "update"
      BY <1>0 DEF Task
    <2>2. QED
      BY <1>2, <2>1, ReadDisciplined, CommitDisciplined DEF AutoPick
  <1>3. CASE Assign(r)
    <2>1. \A p : ([Idle EXCEPT !.pc = "update", !.patch = p]).pc = "update"
      BY DEF Idle
    <2>2. QED
      BY <1>3, <2>1, ReadDisciplined, CommitDisciplined
         DEF Assign, AssignRead, AssignStudentRead, UnassignRead, UpdateCommit
  <1>4. CASE Delete(r)
    <2>1. \A d : ([Idle EXCEPT !.pc = "delete_row", !.doomed = d]).pc = "delete_row"
      BY DEF Idle
    <2>2. \A u, p : ([Idle EXCEPT !.pc = "delete_user", !.user = u, !.patch = p]).pc
                       = "delete_user"
      BY DEF Idle
    <2>3. \A c, d : ([Idle EXCEPT !.pc = "delete_class", !.class = c, !.tries = 1,
                                  !.doomed = d]).pc = "delete_class"
      BY DEF Idle
    <2>4. CASE DeleteRowCommit(r) \/ DeleteUserCommit(r) \/ DeleteClassCommit(r)
      BY <2>4, CommitDisciplined DEF DeleteRowCommit, DeleteUserCommit, DeleteClassCommit
    <2>5. CASE \/ \E c \in Classes, i \in Rows : DeleteRowRead(r, c, i)
               \/ \E u \in Users : DeleteUserRead(r, u)
               \/ \E c \in Classes : DeleteClassRead(r, c)
      BY <2>1, <2>2, <2>3, <2>5, ReadDisciplined
         DEF DeleteRowRead, DeleteUserRead, DeleteClassRead
    <2>6. QED
      BY <1>4, <2>4, <2>5 DEF Delete
  <1>5. CASE LockTimeout(r)
    <2>1. \A t, d : ([task[r] EXCEPT !.tries = t, !.doomed = d]).pc = task[r].pc
      BY <1>0 DEF Task
    <2>2. QED
      BY <1>5, <2>1, ReadDisciplined, CommitDisciplined DEF LockTimeout, Flushing
  <1>6. CASE Rollback(r)
    BY <1>6, FinishIs DEF Rollback, Disciplined, Gives
  <1>7. QED
    BY <1>1, <1>2, <1>3, <1>4, <1>5, <1>6 DEF AutoAssign

LEMMA AddDisciplined ==
    ASSUME TypeOK, NEW r \in Requests, Add(r)
    PROVE  Disciplined(r)
  <1>0. task[r] \in Task
    BY DEF TypeOK
  <1> USE DEF Locked, Joining, At, Start, db
  <1>1. \A pc, c : ([Idle EXCEPT !.pc = pc, !.class = c]).pc = pc
    BY DEF Idle
  <1>2. \A pc : ([task[r] EXCEPT !.pc = pc]).pc = pc
    BY <1>0 DEF Task
  <1>3. CASE \E c \in Classes : DeployStart(r, c) \/ AddManualRead(r, c)
    BY <1>1, <1>3, ReadDisciplined DEF DeployStart, AddManualRead
  <1>4. CASE DeployFlush(r)
    <2>1. task'[r].pc = "deploy_locked" /\ \A q \in Requests \ {r} : task'[q] = task[q]
      BY <1>2, <1>4, BecomeIs DEF DeployFlush
    <2>2. QED
      BY <1>4, <2>1 DEF DeployFlush, Disciplined, Takes
  <1>5. CASE DeployCommit(r)
    <2>1. task'[r].pc \in {"deploy", "idle"} /\ \A q \in Requests \ {r} : task'[q] = task[q]
      BY <1>2, <1>5, BecomeIs, FinishIs DEF DeployCommit
    <2>2. QED
      BY <1>5, <2>1 DEF DeployCommit, Disciplined, Gives
  <1>6. CASE DeployEnd(r) \/ AddManualCommit(r)
    BY <1>6, CommitDisciplined DEF DeployEnd, AddManualCommit
  <1>7. QED
    BY <1>3, <1>4, <1>5, <1>6 DEF Add

LEMMA StepDisciplined ==
    ASSUME TypeOK, [Next]_vars
    PROVE  \/ \E r \in Requests : Disciplined(r)
           \/ UNCHANGED <<vm, writer, task>>
  <1>1. Invite \/ UNCHANGED vars => UNCHANGED <<vm, writer, task>>
    BY DEF Invite, GenerateInvite, InvalidateInvite, TokenExpires, vars, db
  <1>2. QED
    BY <1>1, JoinDisciplined, OthersDisciplined, AddDisciplined DEF Next

(* The lock always has the one owner that believes it has it.                *)
LEMMA LockStep == TypeOK /\ LockInv /\ [Next]_vars => LockInv'
  <1> SUFFICES ASSUME TypeOK, LockInv, [Next]_vars
               PROVE  LockInv'
    OBVIOUS
  <1>1. CASE UNCHANGED <<vm, writer, task>>
    BY <1>1 DEF LockInv
  <1>2. ASSUME NEW r \in Requests, Disciplined(r)
        PROVE  LockInv'
    <2>1. SUFFICES ASSUME NEW q \in Requests
                   PROVE  task'[q].pc \in Locked <=> writer' = q
      BY DEF LockInv
    <2>2. r # NoRequest /\ q # NoRequest
      BY PoolAssumption
    <2>3. /\ task[q].pc \in Locked <=> writer = q
          /\ task[r].pc \in Locked <=> writer = r
      BY DEF LockInv
    <2>4. q # r => task'[q] = task[q]
      BY <1>2 DEF Disciplined
    <2>5. Keeps(r) \/ Takes(r) \/ Gives(r)
      BY <1>2 DEF Disciplined
    <2>6. QED
      BY <2>2, <2>3, <2>4, <2>5 DEF Keeps, Takes, Gives, LockFree
  <1>3. QED
    BY <1>1, <1>2, StepDisciplined

(* A join that has not picked has no row to write.                           *)
LEMMA CleanStep == TypeOK /\ CleanInv /\ [Next]_vars => CleanInv'
  <1> SUFFICES ASSUME TypeOK, CleanInv, [Next]_vars, NEW q \in Requests,
                      task'[q].pc \in {"join_enroll", "join_pick"}
               PROVE  task'[q].patch = Clean
    BY DEF CleanInv
  <1>1. CASE task'[q] = task[q]
    BY <1>1 DEF CleanInv
  <1>2. CASE Disciplined(q)
    <2>1. CASE JoinEnroll(q)
      <3>1. task[q] \in Task
        BY DEF TypeOK
      <3>2. task[q].patch = Clean
        BY <2>1 DEF JoinEnroll, At, CleanInv
      <3>3. ([task[q] EXCEPT !.pc = "join_pick"]).patch = task[q].patch
        BY <3>1 DEF Task
      <3>4. Idle.patch = Clean
        BY DEF Idle
      <3>5. task'[q] = Idle \/ task'[q] = [task[q] EXCEPT !.pc = "join_pick"]
        BY <2>1, BecomeIs DEF JoinEnroll, Finish
      <3>6. QED
        BY <3>2, <3>3, <3>4, <3>5
    <2>2. QED
      BY <1>2, <2>1 DEF Disciplined
  <1>3. QED
    BY <1>1, <1>2, StepDisciplined DEF Disciplined

(* What a join picked stays free: while it holds the lock no other request
   writes a row.                                                             *)
LEMMA PickStep == TypeOK /\ JoinInv /\ [Next]_vars => PickInv'
  <1> SUFFICES ASSUME TypeOK, JoinInv, [Next]_vars,
                      NEW q \in Requests, task'[q].pc = "join_commit"
               PROVE  \/ \E i \in Rows : /\ Free(i, task[q].class)'
                                         /\ task'[q].user \in Users
                                         /\ task'[q].patch = AssignPatch(i, task[q].user)'
                      \/ /\ \A i \in Rows : ~Free(i, task[q].class)'
                         /\ task'[q].patch = Clean
    BY DEF PickInv, At
  <1>1. CASE vm' = vm /\ task'[q] = task[q]
    BY <1>1 DEF JoinInv, PickInv, At, Free, AssignPatch
  <1>2. CASE JoinPick(q)
    <2>0. vm' = vm
      BY <1>2 DEF JoinPick, db
    <2>1. task[q] \in Task /\ task[q].user \in Users
      BY <1>2 DEF TypeOK, JoinPick, At, Joining
    <2>2. \A p : LET new == [task[q] EXCEPT !.pc = "join_commit", !.patch = p]
                 IN new.class = task[q].class /\ new.user = task[q].user /\ new.patch = p
      BY <2>1 DEF Task
    <2>3. LET new == [task[q] EXCEPT !.pc = "join_commit"]
          IN new.class = task[q].class /\ new.patch = task[q].patch
      BY <2>1 DEF Task
    <2>4. ASSUME NEW i \in Rows, Free(i, task[q].class),
                 Become(q, [task[q] EXCEPT !.pc = "join_commit",
                                           !.patch = AssignPatch(i, task[q].user)])
          PROVE  /\ Free(i, task[q].class)'
                 /\ task'[q].user \in Users
                 /\ task'[q].patch = AssignPatch(i, task[q].user)'
      <3>0. task'[q] = [task[q] EXCEPT !.pc = "join_commit",
                                       !.patch = AssignPatch(i, task[q].user)]
        BY <2>4, BecomeIs
      <3>1. /\ task'[q].class = task[q].class
            /\ task'[q].user = task[q].user
            /\ task'[q].patch = AssignPatch(i, task[q].user)
        BY <2>2, <3>0
      <3>2. Free(i, task[q].class)'
        BY <2>0, <2>4, <3>1 DEF Free
      <3>3. AssignPatch(i, task[q].user)' = AssignPatch(i, task[q].user)
        BY <2>0, <3>1 DEF AssignPatch
      <3>4. QED
        BY <2>1, <3>1, <3>2, <3>3
    <2>5. ASSUME Become(q, [task[q] EXCEPT !.pc = "join_commit"]),
                 \A i \in Rows : ~Free(i, task[q].class)
          PROVE  /\ \A i \in Rows : ~Free(i, task[q].class)'
                 /\ task'[q].patch = Clean
      <3>1. task'[q].class = task[q].class /\ task'[q].patch = task[q].patch
        BY <2>3, <2>5, BecomeIs
      <3>2. task[q].patch = Clean
        BY <1>2 DEF JoinInv, CleanInv, JoinPick, At
      <3>3. QED
        BY <2>0, <2>5, <3>1, <3>2 DEF Free
    <2>6. QED
      BY <1>2, <2>4, <2>5 DEF JoinPick
  <1>3. ASSUME NEW r \in Requests \ {q}, Disciplined(r)
        PROVE  vm' = vm /\ task'[q] = task[q]
    <2>1. task'[q] = task[q]
      BY <1>3 DEF Disciplined
    <2>2. writer = q
      BY <2>1 DEF JoinInv, LockInv, Locked
    <2>3. task[r].pc \notin Locked /\ ~LockFree
      BY <2>2, PoolAssumption DEF JoinInv, LockInv, LockFree
    <2>4. QED
      BY <1>3, <2>1, <2>3 DEF Disciplined
  <1>4. QED
    BY <1>1, <1>2, <1>3, StepDisciplined DEF Disciplined

LEMMA JoinInit == Init => JoinInv
  BY PoolAssumption DEF Init, JoinInv, LockInv, CleanInv, PickInv, Idle, At, Locked

(* Joins are serialised by the write lock: the request that believes it is in a
   transaction is the writer, and what a join has picked is still free, or its
   class's pool still empty, when it commits.  (class_service.py,
   join_class_via_token)                                                     *)
THEOREM JoinSerialised == Spec => []JoinInv
  <1>1. TypeOK /\ JoinInv /\ [Next]_vars => JoinInv'
    BY LockStep, CleanStep, PickStep DEF JoinInv
  <1>2. QED
    BY <1>1, JoinInit, TypeCorrect, PTL DEF Spec

(* The one row a join about to commit has in its patch is free.              *)
LEMMA PickedFree ==
    ASSUME JoinInv, NEW r \in Requests, At(r, "join_commit"),
           NEW i \in Rows, task[r].patch[i] # NoPatch
    PROVE  Free(i, task[r].class)
  <1>1. PICK j \in Rows : /\ Free(j, task[r].class)
                          /\ task[r].patch = AssignPatch(j, task[r].user)
    BY DEF JoinInv, PickInv, Clean
  <1>2. i = j
    BY <1>1 DEF AssignPatch, Clean
  <1>3. QED
    BY <1>1, <1>2

(* The VM a join picked is free until the join commits.  (class_service.py,
   join_class_via_token)                                                     *)
THEOREM PickedIsFreeAlways == Spec => []PickedIsFree
  <1>1. JoinInv => PickedIsFree
    BY PickedFree DEF PickedIsFree
  <1>2. QED
    BY <1>1, JoinSerialised, PTL

-----------------------------------------------------------------------------
(* What the commit of a join does.                                           *)

(* While a join is about to commit, the steps of Next that end it, write a row
   or add an enrolment are its own commit or rollback.                       *)
LEMMA OnlyJoinCommits ==
    ASSUME TypeOK, JoinInv, [Next]_vars, NEW r \in Requests, At(r, "join_commit")
    PROVE  \/ JoinCommit(r)
           \/ Rollback(r)
           \/ vm' = vm /\ enrolled' \subseteq enrolled /\ task'[r] = task[r]
  <1>1. \A q \in Requests \ {r} : task[q].pc \notin Locked /\ ~LockFree
    BY PoolAssumption DEF JoinInv, LockInv, Locked, LockFree, At
  <1>2. CASE Invite \/ UNCHANGED vars
    BY <1>2 DEF Invite, GenerateInvite, InvalidateInvite, TokenExpires, vars, db
  <1>3. ASSUME NEW q \in Requests \ {r},
               \/ Join(q) \/ AutoAssign(q) \/ Assign(q) \/ Delete(q) \/ Add(q)
               \/ LockTimeout(q) \/ Rollback(q)
        PROVE  vm' = vm /\ enrolled' \subseteq enrolled /\ task'[r] = task[r]
    <2>1. Disciplined(q)
      BY <1>3, JoinDisciplined, OthersDisciplined, AddDisciplined
    <2>2. vm' = vm /\ task'[r] = task[r]
      BY <1>1, <2>1 DEF Disciplined
    <2>3. ~JoinCommit(q)
      BY <1>1 DEF JoinCommit, At, Locked
    <2>4. enrolled' \subseteq enrolled
      BY <1>3, <2>3
         DEF Join, JoinCheck, JoinEnroll, JoinPick, AutoAssign, AutoRead, AutoPick,
             Assign, AssignRead, AssignStudentRead, UnassignRead, UpdateCommit,
             Delete, DeleteRowRead, DeleteRowCommit, DeleteUserRead,
             DeleteUserCommit, DeleteClassRead, DeleteClassCommit,
             Add, DeployStart, DeployFlush, DeployCommit, DeployEnd,
             AddManualRead, AddManualCommit, LockTimeout, Rollback, db
    <2>5. QED
      BY <2>2, <2>4
  <1>4. ASSUME \/ Join(r) \/ AutoAssign(r) \/ Assign(r) \/ Delete(r) \/ Add(r)
               \/ LockTimeout(r) \/ Rollback(r)
        PROVE  JoinCommit(r) \/ Rollback(r)
    BY <1>4
       DEF At, Start, Join, JoinCheck, JoinEnroll, JoinPick, AutoAssign, AutoRead,
           AutoPick, Assign, AssignRead, AssignStudentRead, UnassignRead, UpdateCommit,
           Delete, DeleteRowRead, DeleteRowCommit, DeleteUserRead, DeleteUserCommit,
           DeleteClassRead, DeleteClassCommit, Add, DeployStart, DeployFlush,
           DeployCommit, DeployEnd, AddManualRead, AddManualCommit, LockTimeout,
           Flushing
  <1>5. QED
    BY <1>2, <1>3, <1>4 DEF Next

(* A column that is not in the UPDATE is left alone.                         *)
LEMMA NoPatchKeeps ==
    ASSUME NEW row \in VmRow
    PROVE  Updated(row, NoPatch) = row
  BY DEF Updated, NoPatch, VmRow

(* A join takes no VM from anybody.  (class_service.py, join_class_via_token) *)
THEOREM JoinTakesNone == Spec => JoinNeverEvicts
  <1>1. ASSUME TypeOK, JoinInv, [Next]_vars, NEW r \in Requests,
               At(r, "join_commit"), task'[r].pc = "idle",
               NEW i \in Rows, vm'[i] # vm[i]
        PROVE  vm[i].user = NoUser
    <2>1. JoinCommit(r)
      BY <1>1, OnlyJoinCommits DEF Rollback, At, db
    <2>2. vm'[i] = Updated(vm[i], task[r].patch[i])
      BY <1>1, <2>1 DEF JoinCommit, Flushed
    <2>3. task[r].patch[i] # NoPatch
      BY <1>1, <2>2, NoPatchKeeps DEF TypeOK
    <2>4. QED
      BY <1>1, <2>3, PickedFree DEF Free
  <1>2. TypeOK /\ JoinInv /\ [Next]_vars =>
          [\A r \in Requests : At(r, "join_commit") /\ task'[r].pc = "idle" =>
              \A i \in Rows : vm'[i] # vm[i] => vm[i].user = NoUser]_vars
    BY <1>1
  <1>3. QED
    BY <1>2, JoinSerialised, TypeCorrect, PTL DEF Spec, JoinNeverEvicts

(* A join leaves the student waiting only when the class has no VM to give at
   the moment of the commit.  (class_service.py, join_class_via_token)       *)
THEOREM JoinServes == Spec => WaitsOnlyWhenPoolEmpty
  <1>1. ASSUME TypeOK, JoinInv, [Next]_vars, NEW r \in Requests, At(r, "join_commit"),
               <<task[r].class, task[r].user>> \in enrolled' \ enrolled
        PROVE  \/ \E i \in Rows : vm'[i].user = task[r].user /\ vm'[i].class = task[r].class
               \/ \A i \in Rows : ~Free(i, task[r].class)
    <2>1. JoinCommit(r) /\ ~Stale(task[r].patch)
      BY <1>1, OnlyJoinCommits DEF Rollback, JoinCommit, db
    <2>2. ASSUME NEW i \in Rows, Free(i, task[r].class), task[r].user \in Users,
                 task[r].patch = AssignPatch(i, task[r].user)
          PROVE  vm'[i].user = task[r].user /\ vm'[i].class = task[r].class
      <3>1. vm'[i] = Updated(vm[i], task[r].patch[i])
        BY <2>1 DEF JoinCommit, Flushed
      <3>2. task[r].patch[i].user = task[r].user
        BY <2>2, PoolAssumption DEF AssignPatch, Clean, Diff, Free
      <3>3. QED
        BY <2>2, <3>1, <3>2, PoolAssumption DEF Updated, Free
    <2>3. QED
      BY <1>1, <2>2 DEF JoinInv, PickInv
  <1>2. TypeOK /\ JoinInv /\ [Next]_vars =>
          [\A r \in Requests :
              LET c == task[r].class
                  u == task[r].user
              IN At(r, "join_commit") /\ <<c, u>> \in enrolled' \ enrolled
                    => \/ \E i \in Rows : vm'[i].user = u /\ vm'[i].class = c
                       \/ \A i \in Rows : ~Free(i, c)]_vars
    BY <1>1
  <1>3. QED
    BY <1>2, JoinSerialised, TypeCorrect, PTL DEF Spec, WaitsOnlyWhenPoolEmpty

-----------------------------------------------------------------------------
(* What each step leaves in the session of its request.                       *)

(* The session of r after the step; those of the others stay.                *)
Session(r, pc, c, u, w, p, d) ==
    /\ task'[r].pc = pc /\ task'[r].class = c /\ task'[r].user = u
    /\ task'[r].waiting = w /\ task'[r].patch = p /\ task'[r].doomed = d
    /\ \A q \in Requests \ {r} : task'[q] = task[q]

Ended(r) == Session(r, "idle", NoClass, NoUser, {}, Clean, {})

LEMMA FinishEnds ==
    ASSUME TypeOK, NEW r \in Requests, Finish(r)
    PROVE  Ended(r)
  BY BecomeIs DEF Finish, Idle, Ended, Session

LEMMA JoinCheckLeaves ==
    ASSUME TypeOK, NEW r \in Requests, NEW c, NEW u, JoinCheck(r, c, u)
    PROVE  Session(r, "join_enroll", c, u, {}, Clean, {}) /\ UNCHANGED <<db, writer>>
  <1>1. task'[r] = [Idle EXCEPT !.pc = "join_enroll", !.class = c, !.user = u]
        /\ \A q \in Requests \ {r} : task'[q] = task[q]
    BY BecomeIs DEF JoinCheck
  <1>2. QED
    BY <1>1 DEF Session, Idle, JoinCheck

LEMMA JoinEnrollLeaves ==
    ASSUME TypeOK, NEW r \in Requests, JoinEnroll(r)
    PROVE  /\ \/ Ended(r) /\ UNCHANGED writer
              \/ /\ <<task[r].class, task[r].user>> \notin enrolled
                 /\ Session(r, "join_pick", task[r].class, task[r].user, task[r].waiting,
                            task[r].patch, task[r].doomed)
                 /\ writer' = r
           /\ UNCHANGED db
  <1>0. task[r] \in Task
    BY DEF TypeOK
  <1>1. ASSUME Become(r, [task[r] EXCEPT !.pc = "join_pick"])
        PROVE  Session(r, "join_pick", task[r].class, task[r].user, task[r].waiting,
                       task[r].patch, task[r].doomed)
    <2>1. task'[r] = [task[r] EXCEPT !.pc = "join_pick"]
          /\ \A q \in Requests \ {r} : task'[q] = task[q]
      BY <1>1, BecomeIs
    <2>2. QED
      BY <1>0, <2>1 DEF Session, Task
  <1>2. QED
    BY <1>1, FinishEnds DEF JoinEnroll

LEMMA JoinPickLeaves ==
    ASSUME TypeOK, NEW r \in Requests, JoinPick(r)
    PROVE  /\ \E p : /\ Session(r, "join_commit", task[r].class, task[r].user,
                                task[r].waiting, p, task[r].doomed)
                     /\ \/ \E i \in Rows : /\ Free(i, task[r].class)
                                           /\ p = AssignPatch(i, task[r].user)
                        \/ p = task[r].patch
           /\ UNCHANGED <<db, writer>>
  <1>0. task[r] \in Task
    BY DEF TypeOK
  <1>1. ASSUME NEW p, Become(r, [task[r] EXCEPT !.pc = "join_commit", !.patch = p])
        PROVE  Session(r, "join_commit", task[r].class, task[r].user, task[r].waiting,
                       p, task[r].doomed)
    <2>1. task'[r] = [task[r] EXCEPT !.pc = "join_commit", !.patch = p]
          /\ \A q \in Requests \ {r} : task'[q] = task[q]
      BY <1>1, BecomeIs
    <2>2. QED
      BY <1>0, <2>1 DEF Session, Task
  <1>2. ASSUME Become(r, [task[r] EXCEPT !.pc = "join_commit"])
        PROVE  Session(r, "join_commit", task[r].class, task[r].user, task[r].waiting,
                       task[r].patch, task[r].doomed)
    <2>1. task'[r] = [task[r] EXCEPT !.pc = "join_commit"]
          /\ \A q \in Requests \ {r} : task'[q] = task[q]
      BY <1>2, BecomeIs
    <2>2. QED
      BY <1>0, <2>1 DEF Session, Task
  <1>3. ASSUME NEW i \in Rows, Free(i, task[r].class),
               Become(r, [task[r] EXCEPT !.pc = "join_commit",
                                         !.patch = AssignPatch(i, task[r].user)])
        PROVE  \E p : /\ Session(r, "join_commit", task[r].class, task[r].user,
                                 task[r].waiting, p, task[r].doomed)
                      /\ \/ \E j \in Rows : /\ Free(j, task[r].class)
                                            /\ p = AssignPatch(j, task[r].user)
                         \/ p = task[r].patch
    BY <1>1, <1>3
  <1>4. QED
    BY <1>2, <1>3 DEF JoinPick

LEMMA AutoReadLeaves ==
    ASSUME TypeOK, NEW r \in Requests, NEW c, AutoRead(r, c)
    PROVE  /\ Session(r, "auto_pick", c, NoUser,
                      {u \in users : <<c, u>> \in enrolled /\ HeldBy(c, u) = {}}, Clean, {})
           /\ UNCHANGED <<db, writer>>
  <1>1. task'[r] = [Idle EXCEPT !.pc = "auto_pick", !.class = c,
                   !.waiting = {u \in users : <<c, u>> \in enrolled /\ HeldBy(c, u) = {}}]
        /\ \A q \in Requests \ {r} : task'[q] = task[q]
    BY BecomeIs DEF AutoRead
  <1>2. QED
    BY <1>1 DEF Session, Idle, AutoRead

LEMMA AutoPickLeaves ==
    ASSUME TypeOK, NEW r \in Requests, AutoPick(r)
    PROVE  /\ \/ Ended(r)
              \/ \E match \in [Rows -> task[r].waiting \cup {NoUser}] :
                    /\ Zips(match, task[r].waiting,
                            {i \in Rows : Free(i, task[r].class)})
                    /\ Session(r, "update", task[r].class, task[r].user, task[r].waiting,
                               [i \in Rows |-> IF match[i] = NoUser THEN NoPatch
                                               ELSE Diff(vm[i], match[i], "assigned")],
                               task[r].doomed)
           /\ UNCHANGED <<db, writer>>
  <1>0. task[r] \in Task
    BY DEF TypeOK
  <1>1. ASSUME NEW p, Become(r, [task[r] EXCEPT !.pc = "update", !.patch = p])
        PROVE  Session(r, "update", task[r].class, task[r].user, task[r].waiting,
                       p, task[r].doomed)
    <2>1. task'[r] = [task[r] EXCEPT !.pc = "update", !.patch = p]
          /\ \A q \in Requests \ {r} : task'[q] = task[q]
      BY <1>1, BecomeIs
    <2>2. QED
      BY <1>0, <2>1 DEF Session, Task
  <1> DEFINE free == {i \in Rows : Free(i, task[r].class)}
             new(match) == [i \in Rows |-> IF match[i] = NoUser THEN NoPatch
                                           ELSE Diff(vm[i], match[i], "assigned")]
  <1>2. /\ \/ Finish(r)
           \/ \E match \in [Rows -> task[r].waiting \cup {NoUser}] :
                 /\ Zips(match, task[r].waiting, free)
                 /\ Become(r, [task[r] EXCEPT !.pc = "update", !.patch = new(match)])
        /\ UNCHANGED <<db, writer>>
    BY DEF AutoPick
  <1> HIDE DEF free, new
  <1>3. /\ \/ Ended(r)
           \/ \E match \in [Rows -> task[r].waiting \cup {NoUser}] :
                 /\ Zips(match, task[r].waiting, free)
                 /\ Session(r, "update", task[r].class, task[r].user, task[r].waiting,
                            new(match), task[r].doomed)
        /\ UNCHANGED <<db, writer>>
    BY <1>1, <1>2, FinishEnds
  <1>4. QED
    BY <1>3 DEF free, new

LEMMA AssignLeaves ==
    ASSUME TypeOK, NEW r \in Requests, NEW i, NEW u, NEW c,
           AssignRead(r, i, u) \/ AssignStudentRead(r, c, i, u)
    PROVE  /\ Session(r, "update", NoClass, NoUser, {}, AssignPatch(i, u), {})
           /\ UNCHANGED <<db, writer>>
  <1>1. task'[r] = [Idle EXCEPT !.pc = "update", !.patch = AssignPatch(i, u)]
        /\ \A q \in Requests \ {r} : task'[q] = task[q]
    BY BecomeIs DEF AssignRead, AssignStudentRead
  <1>2. QED
    BY <1>1 DEF Session, Idle, AssignRead, AssignStudentRead

LEMMA UnassignLeaves ==
    ASSUME TypeOK, NEW r \in Requests, NEW i, UnassignRead(r, i)
    PROVE  /\ Session(r, "update", NoClass, NoUser, {}, UnassignPatch(i), {})
           /\ UNCHANGED <<db, writer>>
  <1>1. task'[r] = [Idle EXCEPT !.pc = "update", !.patch = UnassignPatch(i)]
        /\ \A q \in Requests \ {r} : task'[q] = task[q]
    BY BecomeIs DEF UnassignRead
  <1>2. QED
    BY <1>1 DEF Session, Idle, UnassignRead

LEMMA DeleteRowLeaves ==
    ASSUME TypeOK, NEW r \in Requests, NEW c, NEW i, DeleteRowRead(r, c, i)
    PROVE  /\ Session(r, "delete_row", NoClass, NoUser, {}, Clean, {i})
           /\ UNCHANGED <<db, writer>>
  <1>1. task'[r] = [Idle EXCEPT !.pc = "delete_row", !.doomed = {i}]
        /\ \A q \in Requests \ {r} : task'[q] = task[q]
    BY BecomeIs DEF DeleteRowRead
  <1>2. QED
    BY <1>1 DEF Session, Idle, DeleteRowRead

LEMMA DeleteUserLeaves ==
    ASSUME TypeOK, NEW r \in Requests, NEW u, DeleteUserRead(r, u)
    PROVE  /\ Session(r, "delete_user", NoClass, u, {},
                      [i \in Rows |-> IF Exists(i) /\ vm[i].user = u
                                      THEN Diff(vm[i], NoUser, "available")
                                      ELSE NoPatch], {})
           /\ UNCHANGED <<db, writer>>
  <1> DEFINE p == [i \in Rows |-> IF Exists(i) /\ vm[i].user = u
                                  THEN Diff(vm[i], NoUser, "available")
                                  ELSE NoPatch]
  <1>1. Become(r, [Idle EXCEPT !.pc = "delete_user", !.user = u, !.patch = p])
        /\ UNCHANGED <<db, writer>>
    BY DEF DeleteUserRead
  <1> HIDE DEF p
  <1>2. task'[r] = [Idle EXCEPT !.pc = "delete_user", !.user = u, !.patch = p]
        /\ \A q \in Requests \ {r} : task'[q] = task[q]
    BY <1>1, BecomeIs
  <1>3. Session(r, "delete_user", NoClass, u, {}, p, {})
    BY <1>2 DEF Session, Idle
  <1>4. QED
    BY <1>1, <1>3 DEF p

LEMMA DeleteClassLeaves ==
    ASSUME TypeOK, NEW r \in Requests, NEW c, DeleteClassRead(r, c)
    PROVE  /\ Session(r, "delete_class", c, NoUser, {}, Clean,
                      {i \in Rows : Exists(i) /\ vm[i].class = c})
           /\ UNCHANGED <<db, writer>>
  <1>1. task'[r] = [Idle EXCEPT !.pc = "delete_class", !.class = c, !.tries = 1,
                   !.doomed = {i \in Rows : Exists(i) /\ vm[i].class = c}]
        /\ \A q \in Requests \ {r} : task'[q] = task[q]
    BY BecomeIs DEF DeleteClassRead
  <1>2. QED
    BY <1>1 DEF Session, Idle, DeleteClassRead

LEMMA AddLeaves ==
    ASSUME TypeOK, NEW r \in Requests, NEW c, DeployStart(r, c) \/ AddManualRead(r, c)
    PROVE  /\ \E pc \in {"deploy", "insert"} : Session(r, pc, c, NoUser, {}, Clean, {})
           /\ UNCHANGED <<db, writer>>
  <1>1. ASSUME NEW pc, Become(r, [Idle EXCEPT !.pc = pc, !.class = c])
        PROVE  Session(r, pc, c, NoUser, {}, Clean, {})
    <2>1. task'[r] = [Idle EXCEPT !.pc = pc, !.class = c]
          /\ \A q \in Requests \ {r} : task'[q] = task[q]
      BY <1>1, BecomeIs
    <2>2. QED
      BY <2>1 DEF Session, Idle
  <1>2. CASE DeployStart(r, c)
    <2>1. Session(r, "deploy", c, NoUser, {}, Clean, {})
      BY <1>1, <1>2 DEF DeployStart
    <2>2. QED
      BY <1>2, <2>1 DEF DeployStart
  <1>3. CASE AddManualRead(r, c)
    <2>1. Session(r, "insert", c, NoUser, {}, Clean, {})
      BY <1>1, <1>3 DEF AddManualRead
    <2>2. QED
      BY <1>3, <2>1 DEF AddManualRead
  <1>4. QED
    BY <1>2, <1>3

LEMMA DeployLeaves ==
    ASSUME TypeOK, NEW r \in Requests, DeployFlush(r) \/ DeployCommit(r)
    PROVE  Ended(r) \/ \E pc \in {"deploy", "deploy_locked"} :
              Session(r, pc, task[r].class, task[r].user, task[r].waiting,
                      task[r].patch, task[r].doomed)
  <1>0. task[r] \in Task
    BY DEF TypeOK
  <1>1. ASSUME NEW pc, Become(r, [task[r] EXCEPT !.pc = pc])
        PROVE  Session(r, pc, task[r].class, task[r].user, task[r].waiting,
                       task[r].patch, task[r].doomed)
    <2>1. task'[r] = [task[r] EXCEPT !.pc = pc]
          /\ \A q \in Requests \ {r} : task'[q] = task[q]
      BY <1>1, BecomeIs
    <2>2. QED
      BY <1>0, <2>1 DEF Session, Task
  <1>2. QED
    BY <1>1, FinishEnds DEF DeployFlush, DeployCommit

LEMMA FailureLeaves ==
    ASSUME TypeOK, NEW r \in Requests, LockTimeout(r) \/ Rollback(r)
    PROVE  /\ \/ Ended(r)
              \/ /\ task[r].pc = "delete_class"
                 /\ Session(r, task[r].pc, task[r].class, task[r].user, task[r].waiting,
                            task[r].patch,
                            {i \in Rows : Exists(i) /\ vm[i].class = task[r].class})
           /\ UNCHANGED db
  <1> DEFINE d == {i \in Rows : Exists(i) /\ vm[i].class = task[r].class}
  <1>0. task[r] \in Task
    BY DEF TypeOK
  <1>1. ASSUME Become(r, [task[r] EXCEPT !.tries = @ + 1, !.doomed = d])
        PROVE  Session(r, task[r].pc, task[r].class, task[r].user, task[r].waiting,
                       task[r].patch, d)
    <2>1. task'[r] = [task[r] EXCEPT !.tries = @ + 1, !.doomed = d]
          /\ \A q \in Requests \ {r} : task'[q] = task[q]
      BY <1>1, BecomeIs
    <2>2. QED
      BY <1>0, <2>1 DEF Session, Task
  <1>2. QED
    BY <1>1, FinishEnds DEF LockTimeout, Rollback

-----------------------------------------------------------------------------
(* One request at a time.  What a handler has read is then still so when it   *)
(* commits, and the cascades leave nothing behind.                            *)

RowsSound == NoOrphanRows /\ NoDanglingHolder

(* What a request's session holds still fits the tables: the class it works on
   and the users it writes are there, and delete_class has read every row of
   its class.                                                                *)
Fits(t) ==
    /\ t.pc \in {"join_enroll", "join_pick", "join_commit", "auto_pick", "deploy",
                 "deploy_locked", "insert"} => t.class \in classes
    /\ t.pc \in Joining => t.user \in users
    /\ t.pc = "auto_pick" => t.waiting \subseteq users
    /\ \A i \in Rows : t.patch[i].user \in users \cup {NoUser, Same}
    /\ t.pc = "delete_class" =>
          \A i \in Rows : Exists(i) /\ vm[i].class = t.class => i \in t.doomed

SeqInv == RowsSound /\ \A r \in Requests : Fits(task[r])

(* Every class a row of the initial table belongs to is there.               *)
RowsHaveClasses == \A i \in Rows : InitialRows[i].status # "absent" =>
                                      InitialRows[i].class \in Classes

(* The request goes on without a write.                                      *)
LEMMA SeqGoesOn ==
    ASSUME TypeOK, SeqInv, NEW q \in Requests, Requests = {q},
           NEW new, Become(q, new), Fits(new), UNCHANGED db
    PROVE  SeqInv'
  <1>1. task'[q] = new
    BY BecomeIs
  <1>2. RowsSound'
    BY DEF SeqInv, RowsSound, NoOrphanRows, NoDanglingHolder, Exists, db
  <1>3. Fits(task[q])'
    BY <1>1 DEF Fits, Exists, db
  <1>4. QED
    BY <1>2, <1>3 DEF SeqInv

(* The request ends, whatever it wrote.                                      *)
LEMMA SeqEnds ==
    ASSUME TypeOK, NEW q \in Requests, Requests = {q}, Finish(q), RowsSound'
    PROVE  SeqInv'
  <1>1. task'[q] = Idle
    BY BecomeIs DEF Finish
  <1>2. Fits(task[q])'
    BY <1>1 DEF Fits, Idle, Clean, NoPatch, Joining
  <1>3. QED
    BY <1>2 DEF SeqInv

LEMMA RowsSoundKept ==
    ASSUME RowsSound, UNCHANGED <<vm, users, classes>>
    PROVE  RowsSound'
  BY DEF RowsSound, NoOrphanRows, NoDanglingHolder, Exists

(* UPDATEs of rows that are there, by users that are there.                  *)
LEMMA FlushSound ==
    ASSUME TypeOK, RowsSound, NEW p \in [Rows -> Patch], ~Stale(p),
           \A i \in Rows : p[i].user \in users \cup {NoUser, Same}
    PROVE  \A i \in Rows :
              /\ Flushed(p)[i].status # "absent" => Flushed(p)[i].class \in classes
              /\ Flushed(p)[i].user \in users \cup {NoUser}
  <1> TAKE i \in Rows
  <1>1. Flushed(p)[i] = Updated(vm[i], p[i]) /\ vm[i] \in VmRow
    BY DEF Flushed, TypeOK
  <1>2. p[i] = NoPatch \/ Exists(i)
    BY DEF Stale
  <1>3. CASE p[i] = NoPatch
    BY <1>1, <1>3, NoPatchKeeps DEF RowsSound, NoOrphanRows, NoDanglingHolder, Exists
  <1>4. CASE Exists(i)
    BY <1>1, <1>4 DEF RowsSound, NoOrphanRows, NoDanglingHolder, Updated
  <1>5. QED
    BY <1>2, <1>3, <1>4

LEMMA CommitSound ==
    ASSUME TypeOK, RowsSound, NEW p \in [Rows -> Patch],
           \A i \in Rows : p[i].user \in users \cup {NoUser, Same},
           vm' = IF Stale(p) THEN vm ELSE Flushed(p),
           UNCHANGED <<users, classes>>
    PROVE  RowsSound'
  <1>1. CASE Stale(p)
    BY <1>1, RowsSoundKept
  <1>2. CASE ~Stale(p)
    BY <1>2, FlushSound DEF RowsSound, NoOrphanRows, NoDanglingHolder, Exists
  <1>3. QED
    BY <1>1, <1>2

LEMMA JoinSeq ==
    ASSUME TypeOK, SeqInv, NEW q \in Requests, Requests = {q}, Join(q)
    PROVE  SeqInv'
  <1>0. task[q] \in Task /\ Fits(task[q])
    BY DEF TypeOK, SeqInv
  <1>1. ASSUME NEW c \in Classes, NEW u \in Users, JoinCheck(q, c, u)
        PROVE  SeqInv'
    <2>1. Fits([Idle EXCEPT !.pc = "join_enroll", !.class = c, !.user = u])
      BY <1>1 DEF JoinCheck, Fits, Idle, Clean, NoPatch, Joining
    <2>2. QED
      BY <1>1, <2>1, SeqGoesOn DEF JoinCheck
  <1>2. CASE JoinEnroll(q)
    <2>1. Fits([task[q] EXCEPT !.pc = "join_pick"])
      BY <1>0, <1>2 DEF JoinEnroll, At, Fits, Task, Joining
    <2>2. RowsSound'
      BY <1>2, RowsSoundKept DEF JoinEnroll, db, SeqInv
    <2>3. QED
      BY <1>2, <2>1, <2>2, SeqGoesOn, SeqEnds DEF JoinEnroll
  <1>3. CASE JoinPick(q)
    <2>0. At(q, "join_pick") /\ UNCHANGED db
      BY <1>3 DEF JoinPick, db
    <2>1. task[q].user \in users /\ task[q].class \in classes
      BY <1>0, <2>0 DEF At, Fits, Joining
    <2>2. ASSUME NEW i \in Rows
          PROVE  Fits([task[q] EXCEPT !.pc = "join_commit",
                                      !.patch = AssignPatch(i, task[q].user)])
      <3>1. \A j \in Rows : AssignPatch(i, task[q].user)[j].user \in users \cup {NoUser, Same}
        BY <2>1 DEF AssignPatch, Clean, NoPatch, Diff
      <3>2. QED
        BY <1>0, <2>1, <3>1 DEF Fits, Task, Joining
    <2>3. Fits([task[q] EXCEPT !.pc = "join_commit"])
      BY <1>0, <2>1 DEF Fits, Task, Joining
    <2>4. PICK new : Become(q, new) /\ Fits(new)
      BY <1>3, <2>2, <2>3 DEF JoinPick
    <2>5. QED
      BY <2>0, <2>4, SeqGoesOn
  <1>4. CASE JoinCommit(q)
    <2>1. RowsSound'
      BY <1>0, <1>4, CommitSound DEF JoinCommit, Fits, Task, SeqInv
    <2>2. QED
      BY <1>4, <2>1, SeqEnds DEF JoinCommit
  <1>5. QED
    BY <1>1, <1>2, <1>3, <1>4 DEF Join

LEMMA AutoAssignSeq ==
    ASSUME TypeOK, SeqInv, NEW q \in Requests, Requests = {q}, AutoAssign(q)
    PROVE  SeqInv'
  <1>0. task[q] \in Task /\ Fits(task[q])
    BY DEF TypeOK, SeqInv
  <1>1. ASSUME NEW c \in Classes, AutoRead(q, c)
        PROVE  SeqInv'
    <2>1. ASSUME NEW w \in SUBSET users
          PROVE  Fits([Idle EXCEPT !.pc = "auto_pick", !.class = c, !.waiting = w])
      BY <1>1 DEF AutoRead, Fits, Idle, Clean, NoPatch, Joining
    <2>2. {u \in users : <<c, u>> \in enrolled /\ HeldBy(c, u) = {}} \in SUBSET users
      OBVIOUS
    <2>3. UNCHANGED db /\ \E new : Become(q, new) /\ Fits(new)
      BY <1>1, <2>1, <2>2 DEF AutoRead, Idle, db
    <2>4. QED
      BY <2>3, SeqGoesOn
  <1>2. CASE AutoPick(q)
    <2>0. At(q, "auto_pick") /\ UNCHANGED db
      BY <1>2 DEF AutoPick, db
    <2>1. ASSUME NEW match \in [Rows -> task[q].waiting \cup {NoUser}]
          PROVE  Fits([task[q] EXCEPT
                           !.pc = "update",
                           !.patch = [i \in Rows |->
                               IF match[i] = NoUser THEN NoPatch
                               ELSE Diff(vm[i], match[i], "assigned")]])
      <3> DEFINE p == [i \in Rows |-> IF match[i] = NoUser THEN NoPatch
                                      ELSE Diff(vm[i], match[i], "assigned")]
      <3>1. task[q].waiting \subseteq users
        BY <1>0, <2>0 DEF At, Fits
      <3>2. \A i \in Rows : p[i].user \in users \cup {NoUser, Same}
        BY <3>1 DEF NoPatch, Diff
      <3> HIDE DEF p
      <3>3. Fits([task[q] EXCEPT !.pc = "update", !.patch = p])
        BY <1>0, <3>2 DEF Fits, Task, Joining
      <3>4. QED
        BY <3>3 DEF p
    <2>2. RowsSound'
      BY <2>0, RowsSoundKept DEF db, SeqInv
    <2>3. Finish(q) \/ \E new : Become(q, new) /\ Fits(new)
      BY <1>2, <2>1 DEF AutoPick
    <2>4. QED
      BY <2>0, <2>2, <2>3, SeqGoesOn, SeqEnds
  <1>3. QED
    BY <1>1, <1>2 DEF AutoAssign

(* A request about to update the one row its patch names.                    *)
LEMMA UpdateFits ==
    ASSUME NEW p, \A i \in Rows : p[i].user \in users \cup {NoUser, Same}
    PROVE  Fits([Idle EXCEPT !.pc = "update", !.patch = p])
  BY DEF Fits, Idle, Joining

LEMMA AssignSeq ==
    ASSUME TypeOK, SeqInv, NEW q \in Requests, Requests = {q}, Assign(q)
    PROVE  SeqInv'
  <1>0. task[q] \in Task /\ Fits(task[q])
    BY DEF TypeOK, SeqInv
  <1>1. ASSUME NEW i \in Rows, NEW u \in users
        PROVE  Fits([Idle EXCEPT !.pc = "update", !.patch = AssignPatch(i, u)])
    <2> DEFINE p == AssignPatch(i, u)
    <2>1. \A j \in Rows : p[j].user \in users \cup {NoUser, Same}
      BY DEF AssignPatch, Clean, NoPatch, Diff
    <2> HIDE DEF p
    <2>2. Fits([Idle EXCEPT !.pc = "update", !.patch = p])
      BY <2>1, UpdateFits DEF Idle
    <2>3. QED
      BY <2>2 DEF p
  <1>2. ASSUME NEW i \in Rows
        PROVE  Fits([Idle EXCEPT !.pc = "update", !.patch = UnassignPatch(i)])
    <2> DEFINE p == UnassignPatch(i)
    <2>1. \A j \in Rows : p[j].user \in users \cup {NoUser, Same}
      BY DEF UnassignPatch, Clean, NoPatch, Diff
    <2> HIDE DEF p
    <2>2. Fits([Idle EXCEPT !.pc = "update", !.patch = p])
      BY <2>1, UpdateFits DEF Idle
    <2>3. QED
      BY <2>2 DEF p
  <1>3. ASSUME NEW i \in Rows, NEW u \in Users, AssignRead(q, i, u)
        PROVE  SeqInv'
    <2>1. UNCHANGED db /\ \E new : Become(q, new) /\ Fits(new)
      BY <1>1, <1>3 DEF AssignRead, Idle, db
    <2>2. QED
      BY <2>1, SeqGoesOn
  <1>4. ASSUME NEW c \in Classes, NEW i \in Rows, NEW u \in Users,
               AssignStudentRead(q, c, i, u)
        PROVE  SeqInv'
    <2>1. UNCHANGED db /\ \E new : Become(q, new) /\ Fits(new)
      BY <1>1, <1>4 DEF AssignStudentRead, Idle, db
    <2>2. QED
      BY <2>1, SeqGoesOn
  <1>5. ASSUME NEW i \in Rows, UnassignRead(q, i)
        PROVE  SeqInv'
    <2>1. UNCHANGED db /\ \E new : Become(q, new) /\ Fits(new)
      BY <1>2, <1>5 DEF UnassignRead, Idle, db
    <2>2. QED
      BY <2>1, SeqGoesOn
  <1>6. CASE UpdateCommit(q)
    <2>1. RowsSound'
      BY <1>0, <1>6, CommitSound DEF UpdateCommit, Fits, Task, SeqInv
    <2>2. QED
      BY <1>6, <2>1, SeqEnds DEF UpdateCommit
  <1>7. QED
    BY <1>3, <1>4, <1>5, <1>6 DEF Assign

LEMMA DeleteSeq ==
    ASSUME TypeOK, SeqInv, NEW q \in Requests, Requests = {q}, Delete(q)
    PROVE  SeqInv'
  <1>0. task[q] \in Task /\ Fits(task[q])
    BY DEF TypeOK, SeqInv
  <1> USE DEF RowsSound, NoOrphanRows, NoDanglingHolder
  <1>1. ASSUME NEW c \in Classes, NEW i \in Rows, DeleteRowRead(q, c, i)
        PROVE  SeqInv'
    <2>1. Fits([Idle EXCEPT !.pc = "delete_row", !.doomed = {i}])
      BY DEF Fits, Idle, Clean, NoPatch, Joining
    <2>2. QED
      BY <1>1, <2>1, SeqGoesOn DEF DeleteRowRead
  <1>2. CASE DeleteRowCommit(q)
    <2>1. RowsSound'
      BY <1>2 DEF DeleteRowCommit, Without, Blank, Exists, SeqInv
    <2>2. QED
      BY <1>2, <2>1, SeqEnds DEF DeleteRowCommit
  <1>3. ASSUME NEW u \in Users, DeleteUserRead(q, u)
        PROVE  SeqInv'
    <2> DEFINE p == [i \in Rows |-> IF Exists(i) /\ vm[i].user = u
                                    THEN Diff(vm[i], NoUser, "available")
                                    ELSE NoPatch]
    <2>1. \A i \in Rows : p[i].user \in users \cup {NoUser, Same}
      BY DEF Diff, NoPatch
    <2> HIDE DEF p
    <2>2. Fits([Idle EXCEPT !.pc = "delete_user", !.user = u, !.patch = p])
      BY <2>1 DEF Fits, Idle, Joining
    <2>3. QED
      BY <1>3, <2>2, SeqGoesOn DEF DeleteUserRead, p
  <1>4. CASE DeleteUserCommit(q)
    <2>1. CASE Stale(task[q].patch)
      BY <1>4, <2>1, RowsSoundKept, SeqEnds DEF DeleteUserCommit, SeqInv
    <2>2. CASE ~Stale(task[q].patch)
      <3> DEFINE f == Flushed(task[q].patch)
      <3>1. \A i \in Rows : /\ f[i] \in VmRow
                            /\ f[i].status # "absent" => f[i].class \in classes
                            /\ f[i].user \in users \cup {NoUser}
        BY <1>0, <2>2, FlushSound, FlushedType DEF Fits, Task, SeqInv
      <3> HIDE DEF f
      <3>2. /\ vm' = [i \in Rows |-> IF f[i].user = task[q].user
                                     THEN [f[i] EXCEPT !.user = NoUser] ELSE f[i]]
            /\ users' = users \ {task[q].user}
            /\ classes' = classes
        BY <1>4, <2>2 DEF DeleteUserCommit, f
      <3>3. \A i \in Rows : /\ vm'[i].status = f[i].status
                            /\ vm'[i].class = f[i].class
                            /\ vm'[i].user \in users' \cup {NoUser}
        BY <3>1, <3>2 DEF VmRow
      <3>4. RowsSound'
        BY <3>1, <3>2, <3>3 DEF Exists
      <3>5. QED
        BY <1>4, <3>4, SeqEnds DEF DeleteUserCommit
    <2>3. QED
      BY <2>1, <2>2
  <1>5. ASSUME NEW c \in Classes, DeleteClassRead(q, c)
        PROVE  SeqInv'
    <2> DEFINE d == {i \in Rows : Exists(i) /\ vm[i].class = c}
    <2>1. Fits([Idle EXCEPT !.pc = "delete_class", !.class = c, !.tries = 1, !.doomed = d])
      BY DEF Fits, Idle, Clean, NoPatch, Joining
    <2> HIDE DEF d
    <2>2. QED
      BY <1>5, <2>1, SeqGoesOn DEF DeleteClassRead, d
  <1>6. CASE DeleteClassCommit(q)
    <2>1. \A i \in Rows : Exists(i) /\ vm[i].class = task[q].class => i \in task[q].doomed
      BY <1>0, <1>6 DEF Fits, DeleteClassCommit, At
    <2>2. RowsSound'
      BY <1>6, <2>1 DEF DeleteClassCommit, Without, Blank, Exists, SeqInv
    <2>3. QED
      BY <1>6, <2>2, SeqEnds DEF DeleteClassCommit
  <1>7. QED
    BY <1>1, <1>2, <1>3, <1>4, <1>5, <1>6 DEF Delete

LEMMA AddSeq ==
    ASSUME TypeOK, SeqInv, NEW q \in Requests, Requests = {q}, Add(q)
    PROVE  SeqInv'
  <1>0. task[q] \in Task /\ Fits(task[q])
    BY DEF TypeOK, SeqInv
  <1>1. ASSUME NEW pc \in {"deploy", "insert"}, NEW c \in classes
        PROVE  Fits([Idle EXCEPT !.pc = pc, !.class = c])
    BY DEF Fits, Idle, Clean, NoPatch, Joining
  <1>2. ASSUME NEW c \in classes, NEW kind \in Kind, InsertRow(c, kind),
               UNCHANGED <<users, classes>>
        PROVE  RowsSound'
    <2>1. \A i \in Rows : \/ vm'[i] = vm[i]
                          \/ vm'[i].class = c /\ vm'[i].user = NoUser
      BY <1>2 DEF InsertRow, TypeOK
    <2>2. QED
      BY <1>2, <2>1 DEF SeqInv, RowsSound, NoOrphanRows, NoDanglingHolder, Exists
  <1>3. ASSUME NEW c \in Classes, DeployStart(q, c) \/ AddManualRead(q, c)
        PROVE  SeqInv'
    <2>1. UNCHANGED db /\ \E new : Become(q, new) /\ Fits(new)
      BY <1>1, <1>3 DEF DeployStart, AddManualRead, Idle, db
    <2>2. QED
      BY <2>1, SeqGoesOn
  <1>4. CASE DeployFlush(q)
    <2>1. Fits([task[q] EXCEPT !.pc = "deploy_locked"])
      BY <1>0, <1>4 DEF DeployFlush, At, Fits, Task, Joining
    <2>2. QED
      BY <1>4, <2>1, SeqGoesOn DEF DeployFlush
  <1>5. CASE DeployCommit(q)
    <2>1. task[q].class \in classes
      BY <1>0, <1>5 DEF DeployCommit, At, Fits
    <2>2. RowsSound'
      BY <1>2, <1>5, <2>1 DEF DeployCommit, Kind
    <2>3. CASE Finish(q)
      BY <2>2, <2>3, SeqEnds
    <2>4. CASE Become(q, [task[q] EXCEPT !.pc = "deploy"])
      <3>1. task'[q] = [task[q] EXCEPT !.pc = "deploy"]
        BY <2>4, BecomeIs
      <3>2. Fits(task[q])'
        BY <1>0, <1>5, <2>1, <3>1 DEF DeployCommit, Fits, Task, Joining
      <3>3. QED
        BY <2>2, <3>2 DEF SeqInv
    <2>5. QED
      BY <1>5, <2>3, <2>4 DEF DeployCommit
  <1>6. CASE DeployEnd(q)
    BY <1>6, RowsSoundKept, SeqEnds DEF DeployEnd, db, SeqInv
  <1>7. CASE AddManualCommit(q)
    <2>1. task[q].class \in classes
      BY <1>0, <1>7 DEF AddManualCommit, At, Fits
    <2>2. RowsSound'
      BY <1>2, <1>7, <2>1 DEF AddManualCommit, Kind
    <2>3. QED
      BY <1>7, <2>2, SeqEnds DEF AddManualCommit
  <1>8. QED
    BY <1>3, <1>4, <1>5, <1>6, <1>7 DEF Add

LEMMA FailureSeq ==
    ASSUME TypeOK, SeqInv, NEW q \in Requests, Requests = {q},
           LockTimeout(q) \/ Rollback(q)
    PROVE  SeqInv'
  <1>0. task[q] \in Task /\ Fits(task[q])
    BY DEF TypeOK, SeqInv
  <1> DEFINE d == {i \in Rows : Exists(i) /\ vm[i].class = task[q].class}
  <1>1. \A n : Fits([task[q] EXCEPT !.tries = n, !.doomed = d])
    BY <1>0 DEF Fits, Task
  <1> HIDE DEF d
  <1>2. CASE Finish(q)
    BY <1>2, RowsSoundKept, SeqEnds DEF LockTimeout, Rollback, db, SeqInv
  <1>3. CASE Become(q, [task[q] EXCEPT !.tries = @ + 1, !.doomed = d])
    <2>1. UNCHANGED db
      BY DEF LockTimeout, Rollback
    <2>2. \E new : Become(q, new) /\ Fits(new)
      BY <1>1, <1>3
    <2>3. QED
      BY <2>1, <2>2, SeqGoesOn
  <1>4. QED
    BY <1>2, <1>3 DEF LockTimeout, Rollback, d

LEMMA SeqStep ==
    ASSUME TypeOK, SeqInv, NEW q, Requests = {q}, [Next]_vars
    PROVE  SeqInv'
  <1>1. CASE Invite \/ UNCHANGED vars
    <2>1. UNCHANGED <<vm, users, classes, task>>
      BY <1>1 DEF Invite, GenerateInvite, InvalidateInvite, TokenExpires, vars, db
    <2>2. QED
      BY <2>1 DEF SeqInv, RowsSound, NoOrphanRows, NoDanglingHolder, Fits, Exists
  <1>2. QED
    BY <1>1, JoinSeq, AutoAssignSeq, AssignSeq, DeleteSeq, AddSeq, FailureSeq DEF Next

LEMMA SeqInit ==
    ASSUME Init, RowsHaveClasses
    PROVE  SeqInv
  <1>1. \A i \in Rows : InitialRows[i].user \in Users \cup {NoUser}
    BY PoolAssumption DEF VmRow
  <1>2. QED
    BY <1>1 DEF Init, SeqInv, RowsSound, NoOrphanRows, NoDanglingHolder, Exists,
                RowsHaveClasses, Fits, Idle, Clean, NoPatch, Joining

(* While requests run one at a time, deleting a class leaves none of its VM
   rows, whatever was joined, assigned, added and deleted before.
   (class_service.py, delete_class)                                          *)
THEOREM ClassesTakeTheirRows ==
    ASSUME NEW q, Requests = {q}, RowsHaveClasses
    PROVE  Spec => []NoOrphanRows
  <1>1. TypeOK /\ SeqInv /\ [Next]_vars => SeqInv'
    BY SeqStep
  <1>2. SeqInv => NoOrphanRows
    BY DEF SeqInv, RowsSound
  <1>3. Init => SeqInv
    BY SeqInit
  <1>4. QED
    BY <1>1, <1>2, <1>3, TypeCorrect, PTL DEF Spec

(* While requests run one at a time, no row names an account that is gone.
   (class_service.py, delete_user)                                           *)
THEOREM HoldersAreThere ==
    ASSUME NEW q, Requests = {q}, RowsHaveClasses
    PROVE  Spec => []NoDanglingHolder
  <1>1. TypeOK /\ SeqInv /\ [Next]_vars => SeqInv'
    BY SeqStep
  <1>2. SeqInv => NoDanglingHolder
    BY DEF SeqInv, RowsSound
  <1>3. Init => SeqInv
    BY SeqInit
  <1>4. QED
    BY <1>1, <1>2, <1>3, TypeCorrect, PTL DEF Spec

-----------------------------------------------------------------------------
(* Students' operations at any number of requests: who joins, is assigned     *)
(* automatically, gives back a VM or loses it.                                *)

(* Operations that take rows away, whose ids SQLite then gives again.        *)
Recycles == Ops \cap {"delete_row", "delete_class"} # {}

(* u is enrolled in the class of row i.                                      *)
InClassOf(i, u) == Exists(i) /\ <<vm[i].class, u>> \in enrolled

(* An auto-assignment may still make u the holder of row i.  Where rows come
   and go the row may be another one by then, of the one class there is.     *)
Entitled(i, u) ==
    \/ classes = {}
    \/ IF Recycles THEN \A c \in Classes : <<c, u>> \in enrolled ELSE InClassOf(i, u)

(* What a request's session holds makes holders only of enrolled students.   *)
HolderFit(t) ==
    /\ t.pc # "delete_user"
    /\ t.pc = "delete_row" => "delete_row" \in Ops
    /\ t.pc = "delete_class" => "delete_class" \in Ops /\ t.class \in Classes
    /\ t.pc = "auto_pick" =>
          /\ "auto" \in Ops
          /\ \A u \in t.waiting : classes = {} \/ <<t.class, u>> \in enrolled
    /\ t.pc = "update" => \A i \in Rows :
          /\ t.patch[i].status # "absent"
          /\ t.patch[i].user \in Users => "auto" \in Ops /\ Entitled(i, t.patch[i].user)

HolderInv == HolderIsEnrolled /\ \A r \in Requests : HolderFit(task[r])

(* No teacher assigns a VM by hand and no account is deleted.                *)
HolderOps == Ops \subseteq {"join", "auto", "unassign", "delete_row", "delete_class",
                            "deploy", "add_manual", "invite"}

(* The exception: auto-assignment beside deletions needs that there is one
   class, for it assigns by row id what may be a row of another by then.     *)
OneClassIfRecycled == "auto" \in Ops /\ Recycles => \A c, d \in Classes : c = d

(* Initially nobody but staff holds a VM.                                    *)
StaffHolds == \A i \in Rows : InitialRows[i].user \in Staff \cup {NoUser}

(* What auto-assignments rely on: what is enrolled stays so, and rows stay
   unless they may be deleted.                                               *)
RowsKept ==
    /\ classes' \subseteq classes
    /\ \/ classes' = {} \/ "auto" \notin Ops
       \/ /\ enrolled \subseteq enrolled'
          /\ ~Recycles => \A i \in Rows : Exists(i) => Exists(i)' /\ vm'[i].class = vm[i].class

LEMMA EntitledKept ==
    ASSUME RowsKept, "auto" \in Ops, NEW i \in Rows, NEW u, Entitled(i, u)
    PROVE  Entitled(i, u)'
  BY DEF RowsKept, Entitled, InClassOf

LEMMA HolderFitKept ==
    ASSUME RowsKept, NEW q \in Requests, HolderFit(task[q]), task'[q] = task[q]
    PROVE  HolderFit(task[q])'
  <1>1. /\ task[q].pc = "auto_pick" =>
             /\ "auto" \in Ops
             /\ \A u \in task[q].waiting : classes = {} \/ <<task[q].class, u>> \in enrolled
        /\ task[q].pc = "update" => \A i \in Rows :
             /\ task[q].patch[i].status # "absent"
             /\ task[q].patch[i].user \in Users =>
                   "auto" \in Ops /\ Entitled(i, task[q].patch[i].user)
    BY DEF HolderFit
  <1>2. task'[q].pc = "auto_pick" =>
             /\ "auto" \in Ops
             /\ \A u \in task'[q].waiting : classes' = {} \/ <<task'[q].class, u>> \in enrolled'
    BY <1>1 DEF RowsKept
  <1>3. task'[q].pc = "update" => \A i \in Rows :
             /\ task'[q].patch[i].status # "absent"
             /\ task'[q].patch[i].user \in Users =>
                   "auto" \in Ops /\ Entitled(i, task[q].patch[i].user)'
    BY <1>1, EntitledKept
  <1>4. QED
    BY <1>2, <1>3 DEF HolderFit

(* A step of r keeps the invariant when rows and enrolments are kept, holders
   are enrolled after it, and r's own session fits.                          *)
LEMMA HolderBy ==
    ASSUME HolderInv, NEW r \in Requests, RowsKept, HolderIsEnrolled', HolderFit(task[r])',
           \A q \in Requests \ {r} : task'[q] = task[q]
    PROVE  HolderInv'
  BY HolderFitKept DEF HolderInv

(* A step that leaves the tables alone.                                      *)
LEMMA HolderRead ==
    ASSUME HolderInv, NEW r \in Requests, UNCHANGED db, HolderFit(task[r])',
           \A q \in Requests \ {r} : task'[q] = task[q]
    PROVE  HolderInv'
  <1>1. RowsKept
    BY DEF RowsKept, db, Exists
  <1>2. HolderIsEnrolled'
    BY DEF HolderInv, HolderIsEnrolled, db
  <1>3. QED
    BY <1>1, <1>2, HolderBy

LEMMA HolderEnded ==
    ASSUME NEW r \in Requests, Ended(r)
    PROVE  HolderFit(task[r])' /\ \A q \in Requests \ {r} : task'[q] = task[q]
  BY DEF Ended, Session, HolderFit

(* Patches that were entitled hand rows to enrolled students, and leave every
   row where it is.                                                          *)
LEMMA HolderFlush ==
    ASSUME TypeOK, HolderInv, NEW p \in [Rows -> Patch], ~Stale(p),
           vm' = Flushed(p), enrolled \subseteq enrolled', UNCHANGED classes,
           \A i \in Rows : /\ p[i].status # "absent"
                           /\ p[i].user \in Users =>
                                 Entitled(i, p[i].user)' \/ InClassOf(i, p[i].user)'
    PROVE  RowsKept /\ HolderIsEnrolled'
  <1>1. \A i \in Rows :
           /\ vm'[i].class = vm[i].class
           /\ vm'[i].user = IF p[i].user = Same THEN vm[i].user ELSE p[i].user
           /\ vm'[i].status = IF p[i].status = Same THEN vm[i].status ELSE p[i].status
           /\ p[i].user \in Users \cup {NoUser, Same}
    BY UpdatedIs DEF Flushed, Patch
  <1>2. \A i \in Rows : Exists(i) => Exists(i)'
    BY <1>1 DEF Exists
  <1>3. ASSUME NEW i \in Rows, vm'[i].user \notin Staff \cup {NoUser},
               vm'[i].class \in classes'
        PROVE  <<vm'[i].class, vm'[i].user>> \in enrolled'
    <2>1. CASE p[i].user \in Users
      <3>1. vm'[i].user = p[i].user
        BY <1>1, <2>1, PoolAssumption
      <3>2. Entitled(i, p[i].user)' \/ InClassOf(i, p[i].user)'
        BY <2>1
      <3>3. vm'[i].class \in Classes
        BY <1>3 DEF TypeOK
      <3>4. QED
        BY <1>1, <1>3, <3>1, <3>2, <3>3 DEF Entitled, InClassOf
    <2>2. CASE p[i].user \notin Users
      <3>1. vm'[i].user = vm[i].user
        BY <1>1, <1>3, <2>2
      <3>2. QED
        BY <1>1, <1>3, <3>1 DEF HolderInv, HolderIsEnrolled
    <2>3. QED
      BY <2>1, <2>2
  <1>4. QED
    BY <1>1, <1>2, <1>3 DEF RowsKept, HolderIsEnrolled

LEMMA JoinHolder ==
    ASSUME TypeOK, JoinInv, HolderInv, NEW r \in Requests, Join(r)
    PROVE  HolderInv'
  <1>1. ASSUME NEW c \in Classes, NEW u \in Users, JoinCheck(r, c, u)
        PROVE  HolderInv'
    <2>1. HolderFit(task[r])' /\ UNCHANGED db /\ \A q \in Requests \ {r} : task'[q] = task[q]
      BY <1>1, JoinCheckLeaves DEF Session, HolderFit, db
    <2>2. QED
      BY <2>1, HolderRead
  <1>2. CASE JoinEnroll(r)
    <2>1. HolderFit(task[r])' /\ UNCHANGED db /\ \A q \in Requests \ {r} : task'[q] = task[q]
      BY <1>2, JoinEnrollLeaves DEF Ended, Session, HolderFit
    <2>2. QED
      BY <2>1, HolderRead
  <1>3. CASE JoinPick(r)
    <2>1. HolderFit(task[r])' /\ UNCHANGED db /\ \A q \in Requests \ {r} : task'[q] = task[q]
      BY <1>3, JoinPickLeaves DEF Session, HolderFit, db
    <2>2. QED
      BY <2>1, HolderRead
  <1>4. CASE JoinCommit(r)
    <2> PICK p : p = task[r].patch
      OBVIOUS
    <2>1. Ended(r) /\ p \in [Rows -> Patch] /\ At(r, "join_commit")
      BY <1>4, FinishEnds DEF JoinCommit, TypeOK, Task
    <2>2. CASE Stale(p)
      <3>1. RowsKept /\ HolderIsEnrolled'
        BY <1>4, <2>2 DEF JoinCommit, RowsKept, HolderInv, HolderIsEnrolled, Exists
      <3>2. QED
        BY <2>1, <3>1, HolderBy, HolderEnded
    <2>3. CASE ~Stale(p)
      <3>1. /\ vm' = Flushed(p) /\ classes' = classes
            /\ enrolled' = enrolled \cup {<<task[r].class, task[r].user>>}
        BY <1>4, <2>3 DEF JoinCommit
      <3>2. task[r].class \in Classes /\ task[r].user \in Users
        BY <2>1 DEF TypeOK, At, Joining
      <3>3. ASSUME NEW i \in Rows
            PROVE  /\ p[i].status # "absent"
                   /\ p[i].user \in Users => InClassOf(i, p[i].user)'
        <4>1. CASE p[i] = NoPatch
          BY <4>1, PoolAssumption DEF NoPatch, Status
        <4>2. CASE p[i] # NoPatch
          <5>1. Free(i, task[r].class) /\ ~Stale(p) /\ Exists(i)
            BY <2>1, <2>3, <4>2, PickedFree DEF Stale
          <5>2. p[i] = Diff(vm[i], task[r].user, "assigned")
            <6>1. PICK j \in Rows : p = AssignPatch(j, task[r].user)
              BY <2>1, <4>2 DEF JoinInv, PickInv, Clean
            <6>2. j = i
              BY <4>2, <6>1 DEF AssignPatch, Clean
            <6>3. QED
              BY <6>1, <6>2 DEF AssignPatch, Clean
          <5>3. p[i].user = task[r].user /\ p[i].status = "assigned"
            BY <3>2, <5>1, <5>2, PoolAssumption DEF Diff, Free
          <5>4. Exists(i)' /\ vm'[i].class = task[r].class
            BY <3>1, <5>1, <5>3 DEF Exists, Flushed, Updated, Free
          <5>5. QED
            BY <3>1, <3>2, <5>3, <5>4 DEF InClassOf
        <4>3. QED
          BY <4>1, <4>2
      <3>4. RowsKept /\ HolderIsEnrolled'
        BY <2>1, <2>3, <3>1, <3>3, HolderFlush
      <3>5. QED
        BY <2>1, <3>4, HolderBy, HolderEnded
    <2>4. QED
      BY <2>2, <2>3
  <1>5. QED
    BY <1>1, <1>2, <1>3, <1>4 DEF Join

LEMMA AutoAssignHolder ==
    ASSUME TypeOK, OneClassIfRecycled, HolderInv, NEW r \in Requests, AutoAssign(r)
    PROVE  HolderInv'
  <1>1. ASSUME NEW c \in Classes, AutoRead(r, c)
        PROVE  HolderInv'
    <2>1. "auto" \in Ops
      BY <1>1 DEF AutoRead, Start
    <2>2. HolderFit(task[r])' /\ UNCHANGED db /\ \A q \in Requests \ {r} : task'[q] = task[q]
      BY <1>1, <2>1, AutoReadLeaves DEF Session, HolderFit, db
    <2>3. QED
      BY <2>2, HolderRead
  <1>2. CASE AutoPick(r)
    <2>0. At(r, "auto_pick") /\ "auto" \in Ops /\ UNCHANGED db
      BY <1>2, AutoPickLeaves DEF AutoPick, At, HolderInv, HolderFit, db
    <2>1. CASE Ended(r)
      BY <2>0, <2>1, HolderRead, HolderEnded
    <2>2. ASSUME NEW match \in [Rows -> task[r].waiting \cup {NoUser}],
                 Zips(match, task[r].waiting, {i \in Rows : Free(i, task[r].class)}),
                 NEW p, p = [i \in Rows |-> IF match[i] = NoUser THEN NoPatch
                                            ELSE Diff(vm[i], match[i], "assigned")],
                 Session(r, "update", task[r].class, task[r].user, task[r].waiting,
                         p, task[r].doomed)
          PROVE  HolderInv'
      <3>1. ASSUME NEW i \in Rows
            PROVE  /\ p[i].status # "absent"
                   /\ p[i].user \in Users => Entitled(i, p[i].user)
        <4>1. CASE match[i] = NoUser
          <5>1. p[i] = NoPatch
            BY <2>2, <4>1
          <5>2. QED
            BY <5>1, PoolAssumption DEF NoPatch, Status
        <4>2. CASE match[i] # NoUser
          <5>1. Free(i, task[r].class) /\ match[i] \in task[r].waiting
            BY <2>2, <4>2 DEF Zips
          <5>2. p[i] = Diff(vm[i], match[i], "assigned")
            BY <2>2, <4>2
          <5>3. p[i].user = match[i] /\ p[i].status = "assigned"
            BY <4>2, <5>1, <5>2 DEF Diff, Free
          <5>4. classes = {} \/ <<task[r].class, match[i]>> \in enrolled
            BY <2>0, <5>1 DEF HolderInv, HolderFit, At
          <5>5. classes = {} \/ task[r].class \in Classes
            BY <5>4 DEF TypeOK
          <5>6. Exists(i) /\ vm[i].class = task[r].class
            BY <5>1 DEF Free, Exists
          <5>7. QED
            BY <2>0, <5>3, <5>4, <5>5, <5>6 DEF Entitled, InClassOf, OneClassIfRecycled
        <4>3. QED
          BY <4>1, <4>2
      <3>2. \A i \in Rows : /\ task'[r].patch[i].status # "absent"
                            /\ task'[r].patch[i].user \in Users =>
                                 Entitled(i, task[r].patch[i].user)'
        BY <2>0, <2>2, <3>1 DEF Session, Entitled, InClassOf, Exists, db
      <3>3. HolderFit(task[r])' /\ \A q \in Requests \ {r} : task'[q] = task[q]
        BY <2>0, <2>2, <3>2 DEF HolderFit, Session
      <3>4. QED
        BY <2>0, <3>3, HolderRead
    <2>3. QED
      BY <1>2, <2>1, <2>2, AutoPickLeaves
  <1>3. QED
    BY <1>1, <1>2 DEF AutoAssign

LEMMA AssignHolder ==
    ASSUME TypeOK, HolderOps, HolderInv, NEW r \in Requests, Assign(r)
    PROVE  HolderInv'
  <1>1. ASSUME NEW i \in Rows, UnassignRead(r, i)
        PROVE  HolderInv'
    <2>1. Session(r, "update", NoClass, NoUser, {}, UnassignPatch(i), {}) /\ UNCHANGED db
      BY <1>1, UnassignLeaves DEF db
    <2>2. \A j \in Rows : UnassignPatch(i)[j].user \notin Users
                          /\ UnassignPatch(i)[j].status # "absent"
      BY PoolAssumption DEF UnassignPatch, Clean, NoPatch, Diff, Status
    <2>3. HolderFit(task[r])' /\ \A q \in Requests \ {r} : task'[q] = task[q]
      BY <2>1, <2>2 DEF Session, HolderFit
    <2>4. QED
      BY <2>1, <2>3, HolderRead
  <1>2. CASE UpdateCommit(r)
    <2> PICK p : p = task[r].patch
      OBVIOUS
    <2>1. Ended(r) /\ p \in [Rows -> Patch] /\ At(r, "update")
          /\ UNCHANGED <<classes, enrolled>>
      BY <1>2, FinishEnds DEF UpdateCommit, TypeOK, Task
    <2>2. CASE Stale(p)
      <3>1. RowsKept /\ HolderIsEnrolled'
        BY <1>2, <2>2 DEF UpdateCommit, RowsKept, HolderInv, HolderIsEnrolled, Exists
      <3>2. QED
        BY <2>1, <3>1, HolderBy, HolderEnded
    <2>3. CASE ~Stale(p)
      <3>1. vm' = Flushed(p)
        BY <1>2, <2>3 DEF UpdateCommit
      <3>2. \A i \in Rows : /\ p[i].status # "absent"
                            /\ p[i].user \in Users => "auto" \in Ops /\ Entitled(i, p[i].user)
        BY <2>1 DEF HolderInv, HolderFit, At
      <3>3. \A i \in Rows : Exists(i) => Exists(i)' /\ vm'[i].class = vm[i].class
        BY <3>1, <3>2, UpdatedIs DEF Flushed, Exists
      <3>4. \A i \in Rows : p[i].user \in Users => Entitled(i, p[i].user)'
        BY <2>1, <3>2, <3>3 DEF Entitled, InClassOf
      <3>5. RowsKept /\ HolderIsEnrolled'
        BY <2>1, <2>3, <3>1, <3>2, <3>4, HolderFlush
      <3>6. QED
        BY <2>1, <3>5, HolderBy, HolderEnded
    <2>4. QED
      BY <2>2, <2>3
  <1>3. QED
    BY <1>1, <1>2 DEF Assign, AssignRead, AssignStudentRead, Start, HolderOps

LEMMA DeleteHolder ==
    ASSUME TypeOK, HolderOps, OneClassIfRecycled, HolderInv, NEW r \in Requests, Delete(r)
    PROVE  HolderInv'
  <1>0. HolderFit(task[r])
    BY DEF HolderInv
  <1>1. ASSUME NEW c \in Classes, NEW i \in Rows, DeleteRowRead(r, c, i)
        PROVE  HolderInv'
    <2>1. HolderFit(task[r])' /\ UNCHANGED db /\ \A q \in Requests \ {r} : task'[q] = task[q]
      BY <1>1, DeleteRowLeaves DEF Session, HolderFit, db, DeleteRowRead, Start
    <2>2. QED
      BY <2>1, HolderRead
  <1>2. CASE DeleteRowCommit(r)
    <2>1. Ended(r) /\ Recycles /\ vm' = Without(task[r].doomed)
          /\ UNCHANGED <<classes, enrolled>>
      BY <1>0, <1>2, FinishEnds DEF DeleteRowCommit, At, HolderFit, Recycles
    <2>2. RowsKept
      BY <2>1 DEF RowsKept
    <2>3. HolderIsEnrolled'
      BY <2>1 DEF HolderInv, HolderIsEnrolled, Without, Blank
    <2>4. QED
      BY <2>1, <2>2, <2>3, HolderBy, HolderEnded
  <1>3. ASSUME NEW c \in Classes, DeleteClassRead(r, c)
        PROVE  HolderInv'
    <2>0. UNCHANGED db /\ \E d : Session(r, "delete_class", c, NoUser, {}, Clean, d)
      BY <1>3, DeleteClassLeaves DEF db
    <2>1. HolderFit(task[r])' /\ \A q \in Requests \ {r} : task'[q] = task[q]
      BY <1>3, <2>0 DEF Session, HolderFit, DeleteClassRead, Start
    <2>2. QED
      BY <2>0, <2>1, HolderRead
  <1>4. CASE DeleteClassCommit(r)
    <2>1. /\ Ended(r) /\ classes' = classes \ {task[r].class}
          /\ vm' = Without(task[r].doomed)
          /\ enrolled' = {e \in enrolled : e[1] # task[r].class}
      BY <1>4, FinishEnds DEF DeleteClassCommit
    <2>2. task[r].class \in Classes /\ Recycles
      BY <1>0, <1>4 DEF HolderFit, DeleteClassCommit, At, Recycles
    <2>3. classes' = {} \/ "auto" \notin Ops
      BY <2>1, <2>2 DEF TypeOK, OneClassIfRecycled
    <2>4. HolderIsEnrolled'
      BY <2>1 DEF HolderInv, HolderIsEnrolled, Without, Blank
    <2>5. QED
      BY <2>1, <2>3, <2>4, HolderBy, HolderEnded DEF RowsKept
  <1>5. ~DeleteUserCommit(r) /\ \A u \in Users : ~DeleteUserRead(r, u)
    BY <1>0 DEF DeleteUserCommit, DeleteUserRead, Start, At, HolderFit, HolderOps
  <1>6. QED
    BY <1>1, <1>2, <1>3, <1>4, <1>5 DEF Delete

LEMMA AddHolder ==
    ASSUME TypeOK, HolderOps, HolderInv, NEW r \in Requests, Add(r)
    PROVE  HolderInv'
  <1>1. ASSUME NEW c \in Classes, DeployStart(r, c) \/ AddManualRead(r, c)
        PROVE  HolderInv'
    <2>1. HolderFit(task[r])' /\ UNCHANGED db /\ \A q \in Requests \ {r} : task'[q] = task[q]
      BY <1>1, AddLeaves DEF Session, HolderFit, db
    <2>2. QED
      BY <2>1, HolderRead
  <1>2. CASE DeployFlush(r)
    <2>1. HolderFit(task[r])' /\ UNCHANGED db /\ \A q \in Requests \ {r} : task'[q] = task[q]
      BY <1>2, DeployLeaves DEF DeployFlush, Ended, Session, HolderFit
    <2>2. QED
      BY <2>1, HolderRead
  <1>3. CASE DeployEnd(r)
    <2>1. HolderFit(task[r])' /\ UNCHANGED db /\ \A q \in Requests \ {r} : task'[q] = task[q]
      BY <1>3, FinishEnds, HolderEnded DEF DeployEnd, db
    <2>2. QED
      BY <2>1, HolderRead
  <1>4. ASSUME NEW c, NEW kind, InsertRow(c, kind), UNCHANGED <<classes, enrolled>>
        PROVE  RowsKept /\ HolderIsEnrolled'
    <2>1. PICK i \in Rows :
             /\ NextRow(i)
             /\ vm' = [vm EXCEPT ![i] = [class |-> c, user |-> NoUser,
                                         status |-> "available", kind |-> kind]]
      BY <1>4 DEF InsertRow
    <2>2. ~Exists(i)
      BY <2>1 DEF NextRow, NewRow, Rows
    <2>3. vm'[i].user = NoUser /\ \A j \in Rows \ {i} : vm'[j] = vm[j]
      BY <2>1 DEF TypeOK
    <2>4. QED
      BY <1>4, <2>2, <2>3 DEF RowsKept, Exists, HolderInv, HolderIsEnrolled
  <1>5. CASE DeployCommit(r)
    <2>1. RowsKept /\ HolderIsEnrolled'
      BY <1>4, <1>5 DEF DeployCommit
    <2>2. HolderFit(task[r])' /\ \A q \in Requests \ {r} : task'[q] = task[q]
      BY <1>5, DeployLeaves DEF Ended, Session, HolderFit
    <2>3. QED
      BY <2>1, <2>2, HolderBy
  <1>6. CASE AddManualCommit(r)
    <2>1. RowsKept /\ HolderIsEnrolled'
      BY <1>4, <1>6 DEF AddManualCommit
    <2>2. QED
      BY <1>6, <2>1, FinishEnds, HolderEnded, HolderBy DEF AddManualCommit
  <1>7. QED
    BY <1>1, <1>2, <1>3, <1>5, <1>6 DEF Add

LEMMA FailureHolder ==
    ASSUME TypeOK, HolderInv, NEW r \in Requests, LockTimeout(r) \/ Rollback(r)
    PROVE  HolderInv'
  <1>1. HolderFit(task[r])
    BY DEF HolderInv
  <1>2. HolderFit(task[r])' /\ UNCHANGED db /\ \A q \in Requests \ {r} : task'[q] = task[q]
    BY <1>1, FailureLeaves DEF Ended, Session, HolderFit
  <1>3. QED
    BY <1>2, HolderRead

LEMMA HolderStep ==
    ASSUME TypeOK, JoinInv, HolderOps, OneClassIfRecycled, HolderInv, [Next]_vars
    PROVE  HolderInv'
  <1>1. CASE Invite \/ UNCHANGED vars
    <2>1. UNCHANGED <<vm, classes, enrolled, task>>
      BY <1>1 DEF Invite, GenerateInvite, InvalidateInvite, TokenExpires, vars, db
    <2>2. RowsKept /\ HolderIsEnrolled'
      BY <2>1 DEF RowsKept, HolderInv, HolderIsEnrolled, Exists
    <2>3. QED
      BY <2>1, <2>2, HolderFitKept DEF HolderInv
  <1>2. QED
    BY <1>1, JoinHolder, AutoAssignHolder, AssignHolder, DeleteHolder, AddHolder,
       FailureHolder DEF Next

(* However many requests run: a student's VM belongs to a class the student is
   enrolled in, whatever the order of joins, auto-assignments, withdrawals,
   additions and deletions of rows and classes, as long as the class is there.
   Where rows are deleted beside auto-assignments, for one class only: with two
   it is false.  (class_service.py, join and auto-assign)                    *)
THEOREM HoldersAreEnrolled ==
    ASSUME HolderOps, OneClassIfRecycled, StaffHolds
    PROVE  Spec => []HolderIsEnrolled
  <1>1. TypeOK /\ JoinInv /\ HolderInv /\ [Next]_vars => HolderInv'
    BY HolderStep
  <1>2. Init => HolderInv
    BY DEF Init, HolderInv, HolderIsEnrolled, HolderFit, Idle, StaffHolds
  <1>3. HolderInv => HolderIsEnrolled
    BY DEF HolderInv
  <1>4. QED
    BY <1>1, <1>2, <1>3, TypeCorrect, JoinSerialised, PTL DEF Spec

-----------------------------------------------------------------------------
(* The two columns of a row agree.                                            *)

(* The VMs that are never offered.                                           *)
BaseKinds == {"manual", "template"}

(* A withdrawal of a reserved VM may meet another row of the same id.        *)
Recycled == Recycles /\ "unassign" \in Ops

(* Given any row it may meet, a pending update keeps the columns in step: it
   writes both, or takes a base VM nobody can hold out of "reserved".        *)
Harmless(i, p) ==
    \/ p = NoPatch
    \/ p.user = NoUser /\ p.status = "available"
    \/ /\ p.user \in Users /\ p.status = "assigned"
       /\ Recycles \/ (Exists(i) /\ vm[i].kind \notin BaseKinds)
    \/ /\ p.user = Same /\ p.status = "available"
       /\ ~Recycles
       /\ Exists(i) /\ vm[i].user = NoUser /\ vm[i].kind \in BaseKinds

HeldFit(t) ==
    /\ t.pc # "delete_user"
    /\ t.pc \in {"delete_row", "delete_class"} => Recycles
    /\ t.pc = "update" => \A i \in Rows : Harmless(i, t.patch[i])

ReservedStay == \A i \in Rows : vm[i].status = "reserved" =>
                                   vm[i].kind \in BaseKinds /\ ~Recycled

HeldInv == AssignedIffHeld /\ ReservedStay /\ \A r \in Requests : HeldFit(task[r])

(* No teacher assigns a VM by hand and no account is deleted.                *)
HeldOps == Ops \subseteq {"join", "auto", "unassign", "delete_row", "delete_class",
                          "deploy", "add_manual", "invite"}

(* In the initial table the columns agree, and reserved rows are base VMs.   *)
ColumnsAgree ==
    \A i \in Rows :
        /\ InitialRows[i].status = "assigned" <=> InitialRows[i].user # NoUser
        /\ InitialRows[i].status = "reserved" => InitialRows[i].kind \in BaseKinds

(* The exception: withdrawals beside deletions need that no row is reserved,
   as the base VM of a deployed class is: the id of a reserved row that is
   being withdrawn may pass to a row somebody gets.                          *)
NoneReservedIfRecycled == Recycled => \A i \in Rows : InitialRows[i].status # "reserved"

(* Unless rows may be deleted, every row stays what it is; a base VM that
   nobody holds stays so.                                                    *)
BaseVmsStay ==
    ~Recycles => \A i \in Rows : Exists(i) =>
        /\ Exists(i)' /\ vm'[i].kind = vm[i].kind
        /\ vm[i].kind \in BaseKinds /\ vm[i].user = NoUser => vm'[i].user = NoUser

RowsAgree == AssignedIffHeld /\ ReservedStay

LEMMA HeldBy1 ==
    ASSUME HeldInv, NEW r \in Requests, BaseVmsStay, RowsAgree', HeldFit(task[r])',
           \A q \in Requests \ {r} : task'[q] = task[q]
    PROVE  HeldInv'
  <1>1. ASSUME NEW q \in Requests, task'[q] = task[q]
        PROVE  HeldFit(task[q])'
    <2>1. HeldFit(task[q])
      BY DEF HeldInv
    <2>2. ASSUME NEW i \in Rows, NEW p, Harmless(i, p)
          PROVE  Harmless(i, p)'
      BY <2>2 DEF Harmless, BaseVmsStay
    <2>3. QED
      BY <1>1, <2>1, <2>2 DEF HeldFit
  <1>2. QED
    BY <1>1 DEF HeldInv, RowsAgree

LEMMA HeldRead ==
    ASSUME HeldInv, NEW r \in Requests, UNCHANGED db, HeldFit(task[r])',
           \A q \in Requests \ {r} : task'[q] = task[q]
    PROVE  HeldInv'
  <1>1. BaseVmsStay /\ RowsAgree'
    BY DEF BaseVmsStay, RowsAgree, AssignedIffHeld, ReservedStay, HeldInv, db, Exists
  <1>2. QED
    BY <1>1, HeldBy1

LEMMA HeldEnded ==
    ASSUME NEW r \in Requests, Ended(r)
    PROVE  HeldFit(task[r])' /\ \A q \in Requests \ {r} : task'[q] = task[q]
  BY DEF Ended, Session, HeldFit

LEMMA HeldFlush ==
    ASSUME TypeOK, HeldInv, NEW p, vm' = IF Stale(p) THEN vm ELSE Flushed(p),
           \A i \in Rows : Harmless(i, p[i])
    PROVE  BaseVmsStay /\ RowsAgree'
  <1>1. CASE Stale(p)
    BY <1>1 DEF BaseVmsStay, RowsAgree, AssignedIffHeld, ReservedStay, HeldInv, Exists
  <1>2. CASE ~Stale(p)
    <2>1. ASSUME NEW i \in Rows
          PROVE  /\ vm'[i].class = vm[i].class /\ vm'[i].kind = vm[i].kind
                 /\ vm'[i].user = IF p[i].user = Same THEN vm[i].user ELSE p[i].user
                 /\ vm'[i].status = IF p[i].status = Same THEN vm[i].status ELSE p[i].status
                 /\ Exists(i) \/ p[i] = NoPatch
                 /\ vm[i].status = "assigned" <=> vm[i].user # NoUser
                 /\ vm[i].status = "reserved" => vm[i].kind \in BaseKinds /\ ~Recycled
                 /\ Harmless(i, p[i])
                 /\ Same # NoUser /\ Same \notin Users /\ NoUser \notin Users
                 /\ Same \notin Status
      BY <1>2, UpdatedIs, PoolAssumption
         DEF Flushed, Stale, HeldInv, AssignedIffHeld, ReservedStay
    <2>2. ASSUME NEW i \in Rows
          PROVE  /\ vm'[i].status = "assigned" <=> vm'[i].user # NoUser
                 /\ vm'[i].status = "reserved" => vm'[i].kind \in BaseKinds /\ ~Recycled
                 /\ ~Recycles /\ Exists(i) =>
                      /\ vm'[i].status # "absent" /\ vm'[i].kind = vm[i].kind
                      /\ vm[i].kind \in BaseKinds /\ vm[i].user = NoUser => vm'[i].user = NoUser
      <3>1. CASE p[i] = NoPatch
        <4>1. vm'[i].user = vm[i].user /\ vm'[i].status = vm[i].status
          BY <2>1, <3>1 DEF NoPatch
        <4>2. QED
          BY <2>1, <4>1 DEF Exists
      <3>2. CASE p[i] # NoPatch
        BY <2>1, <3>2 DEF Harmless, Exists, Status
      <3>3. QED
        BY <3>1, <3>2
    <2>3. QED
      BY <2>2 DEF BaseVmsStay, RowsAgree, AssignedIffHeld, ReservedStay, Exists
  <1>3. QED
    BY <1>1, <1>2

(* A VM that is free is taken with both columns.                             *)
LEMMA TakenWhole ==
    ASSUME NEW i \in Rows, NEW c, Free(i, c), NEW u \in Users, NEW p,
           p = Diff(vm[i], u, "assigned")
    PROVE  Harmless(i, p)
  <1>1. p.user = u /\ p.status = "assigned"
    BY PoolAssumption DEF Diff, Free
  <1>2. Exists(i) /\ vm[i].kind \notin BaseKinds
    BY DEF Free, Exists, BaseKinds
  <1>3. QED
    BY <1>1, <1>2 DEF Harmless

LEMMA JoinHeld ==
    ASSUME TypeOK, JoinInv, HeldInv, NEW r \in Requests, Join(r)
    PROVE  HeldInv'
  <1>1. CASE (\E c \in Classes, u \in Users : JoinCheck(r, c, u))
             \/ JoinEnroll(r) \/ JoinPick(r)
    <2>1. HeldFit(task[r])' /\ UNCHANGED db /\ \A q \in Requests \ {r} : task'[q] = task[q]
      BY <1>1, JoinCheckLeaves, JoinEnrollLeaves, JoinPickLeaves
         DEF Ended, Session, HeldFit, db
    <2>2. QED
      BY <2>1, HeldRead
  <1>2. CASE JoinCommit(r)
    <2> PICK p : p = task[r].patch
      OBVIOUS
    <2>1. /\ Ended(r) /\ At(r, "join_commit")
          /\ vm' = IF Stale(p) THEN vm ELSE Flushed(p)
      BY <1>2, FinishEnds DEF JoinCommit
    <2>2. ASSUME NEW i \in Rows
          PROVE  Harmless(i, p[i])
      <3>1. CASE p[i] = NoPatch
        BY <3>1 DEF Harmless
      <3>2. CASE p[i] # NoPatch
        <4>1. PICK j \in Rows : /\ Free(j, task[r].class)
                                /\ p = AssignPatch(j, task[r].user)
                                /\ task[r].user \in Users
          BY <2>1, <3>2 DEF JoinInv, PickInv, Clean
        <4>2. j = i
          BY <3>2, <4>1 DEF AssignPatch, Clean
        <4>3. p[i] = Diff(vm[i], task[r].user, "assigned")
          BY <4>1, <4>2 DEF AssignPatch, Clean
        <4>4. QED
          BY <4>1, <4>2, <4>3, TakenWhole
      <3>3. QED
        BY <3>1, <3>2
    <2>3. QED
      BY <2>1, <2>2, HeldFlush, HeldEnded, HeldBy1
  <1>3. QED
    BY <1>1, <1>2 DEF Join

LEMMA AutoAssignHeld ==
    ASSUME TypeOK, HeldInv, NEW r \in Requests, AutoAssign(r)
    PROVE  HeldInv'
  <1>1. ASSUME NEW c \in Classes, AutoRead(r, c)
        PROVE  HeldInv'
    <2>1. HeldFit(task[r])' /\ UNCHANGED db /\ \A q \in Requests \ {r} : task'[q] = task[q]
      BY <1>1, AutoReadLeaves DEF Session, HeldFit, db
    <2>2. QED
      BY <2>1, HeldRead
  <1>2. CASE AutoPick(r)
    <2>0. UNCHANGED db /\ task[r].waiting \subseteq Users
      BY <1>2, AutoPickLeaves DEF db, TypeOK, Task
    <2>1. CASE Ended(r)
      BY <2>0, <2>1, HeldRead, HeldEnded
    <2>2. ASSUME NEW match \in [Rows -> task[r].waiting \cup {NoUser}],
                 Zips(match, task[r].waiting, {i \in Rows : Free(i, task[r].class)}),
                 NEW p, p = [i \in Rows |-> IF match[i] = NoUser THEN NoPatch
                                            ELSE Diff(vm[i], match[i], "assigned")],
                 Session(r, "update", task[r].class, task[r].user, task[r].waiting,
                         p, task[r].doomed)
          PROVE  HeldInv'
      <3>1. ASSUME NEW i \in Rows
            PROVE  Harmless(i, p[i])
        <4>1. CASE match[i] = NoUser
          <5>1. p[i] = NoPatch
            BY <2>2, <4>1
          <5>2. QED
            BY <5>1 DEF Harmless
        <4>2. CASE match[i] # NoUser
          <5>1. Free(i, task[r].class) /\ match[i] \in Users
            BY <2>0, <2>2, <4>2 DEF Zips
          <5>2. p[i] = Diff(vm[i], match[i], "assigned")
            BY <2>2, <4>2
          <5>3. QED
            BY <5>1, <5>2, TakenWhole
        <4>3. QED
          BY <4>1, <4>2
      <3>2. \A i \in Rows : Harmless(i, p[i])'
        BY <2>0, <3>1 DEF Harmless, Exists, db
      <3>3. HeldFit(task[r])' /\ \A q \in Requests \ {r} : task'[q] = task[q]
        BY <2>2, <3>2 DEF HeldFit, Session
      <3>4. QED
        BY <2>0, <3>3, HeldRead
    <2>3. QED
      BY <1>2, <2>1, <2>2, AutoPickLeaves
  <1>3. QED
    BY <1>1, <1>2 DEF AutoAssign

LEMMA AssignHeld ==
    ASSUME TypeOK, HeldOps, HeldInv, NEW r \in Requests, Assign(r)
    PROVE  HeldInv'
  <1>1. ASSUME NEW i \in Rows, UnassignRead(r, i)
        PROVE  HeldInv'
    <2>0. PICK p : p = UnassignPatch(i)
      OBVIOUS
    <2>1. Session(r, "update", NoClass, NoUser, {}, p, {}) /\ UNCHANGED db /\ Exists(i)
      BY <1>1, <2>0, UnassignLeaves DEF db, UnassignRead
    <2>2. ASSUME NEW j \in Rows
          PROVE  Harmless(j, p[j])
      <3>1. CASE j # i
        <4>1. p[j] = NoPatch
          BY <2>0, <3>1 DEF UnassignPatch, Clean
        <4>2. QED
          BY <4>1 DEF Harmless
      <3>2. CASE j = i
        <4>1. p[j] = Diff(vm[j], NoUser, "available")
          BY <2>0, <3>2 DEF UnassignPatch, Clean
        <4>2. /\ vm[j].status \in Status \ {"absent"}
              /\ vm[j].status = "assigned" <=> vm[j].user # NoUser
              /\ vm[j].status = "reserved" => vm[j].kind \in BaseKinds /\ ~Recycled
          BY <2>1, <3>2 DEF TypeOK, VmRow, Exists, HeldInv, AssignedIffHeld, ReservedStay
        <4>3. CASE vm[j].user # NoUser
          BY <4>1, <4>2, <4>3 DEF Diff, Harmless
        <4>4. CASE vm[j].status = "available"
          BY <4>1, <4>2, <4>4 DEF Diff, Harmless, NoPatch
        <4>5. CASE vm[j].status = "reserved"
          <5>1. ~Recycles
            BY <1>1, <4>2, <4>5 DEF UnassignRead, Start, Recycled
          <5>2. QED
            BY <2>1, <3>2, <4>1, <4>2, <4>5, <5>1 DEF Diff, Harmless
        <4>6. QED
          BY <4>2, <4>3, <4>4, <4>5 DEF Status
      <3>3. QED
        BY <3>1, <3>2
    <2>3. \A j \in Rows : Harmless(j, p[j])'
      BY <2>1, <2>2 DEF Harmless, Exists, db
    <2>4. HeldFit(task[r])' /\ \A q \in Requests \ {r} : task'[q] = task[q]
      BY <2>1, <2>3 DEF Session, HeldFit
    <2>5. QED
      BY <2>1, <2>4, HeldRead
  <1>2. CASE UpdateCommit(r)
    <2> PICK p : p = task[r].patch
      OBVIOUS
    <2>1. Ended(r) /\ vm' = IF Stale(p) THEN vm ELSE Flushed(p)
      BY <1>2, FinishEnds DEF UpdateCommit
    <2>2. \A i \in Rows : Harmless(i, p[i])
      BY <1>2 DEF UpdateCommit, At, HeldInv, HeldFit
    <2>3. QED
      BY <2>1, <2>2, HeldFlush, HeldEnded, HeldBy1
  <1>3. QED
    BY <1>1, <1>2 DEF Assign, AssignRead, AssignStudentRead, Start, HeldOps

LEMMA DeleteHeld ==
    ASSUME TypeOK, HeldOps, HeldInv, NEW r \in Requests, Delete(r)
    PROVE  HeldInv'
  <1>0. HeldFit(task[r])
    BY DEF HeldInv
  <1>1. CASE \/ \E c \in Classes, i \in Rows : DeleteRowRead(r, c, i)
             \/ \E c \in Classes : DeleteClassRead(r, c)
    <2>1. UNCHANGED db /\ \E pc \in {"delete_row", "delete_class"} : \E c, d :
                              Session(r, pc, c, NoUser, {}, Clean, d)
      BY <1>1, DeleteRowLeaves, DeleteClassLeaves DEF db
    <2>2. Recycles
      BY <1>1 DEF DeleteRowRead, DeleteClassRead, Start, Recycles
    <2>3. HeldFit(task[r])' /\ \A q \in Requests \ {r} : task'[q] = task[q]
      BY <2>1, <2>2 DEF Session, HeldFit
    <2>4. QED
      BY <2>1, <2>3, HeldRead
  <1>2. CASE DeleteRowCommit(r) \/ DeleteClassCommit(r)
    <2>1. Ended(r) /\ Recycles /\ vm' = Without(task[r].doomed)
      BY <1>0, <1>2, FinishEnds DEF DeleteRowCommit, DeleteClassCommit, At, HeldFit
    <2>2. BaseVmsStay /\ RowsAgree'
      BY <2>1 DEF BaseVmsStay, RowsAgree, AssignedIffHeld, ReservedStay, HeldInv,
                  Without, Blank
    <2>3. QED
      BY <2>1, <2>2, HeldBy1, HeldEnded
  <1>3. ~DeleteUserCommit(r) /\ \A u \in Users : ~DeleteUserRead(r, u)
    BY <1>0 DEF DeleteUserCommit, DeleteUserRead, Start, At, HeldFit, HeldOps
  <1>4. QED
    BY <1>1, <1>2, <1>3 DEF Delete

LEMMA AddHeld ==
    ASSUME TypeOK, HeldInv, NEW r \in Requests, Add(r)
    PROVE  HeldInv'
  <1>1. ASSUME NEW c \in Classes, DeployStart(r, c) \/ AddManualRead(r, c)
        PROVE  HeldInv'
    <2>1. HeldFit(task[r])' /\ UNCHANGED db /\ \A q \in Requests \ {r} : task'[q] = task[q]
      BY <1>1, AddLeaves DEF Session, HeldFit, db
    <2>2. QED
      BY <2>1, HeldRead
  <1>2. CASE DeployFlush(r)
    <2>1. HeldFit(task[r])' /\ UNCHANGED db /\ \A q \in Requests \ {r} : task'[q] = task[q]
      BY <1>2, DeployLeaves DEF DeployFlush, Ended, Session, HeldFit
    <2>2. QED
      BY <2>1, HeldRead
  <1>3. CASE DeployEnd(r)
    <2>1. HeldFit(task[r])' /\ UNCHANGED db /\ \A q \in Requests \ {r} : task'[q] = task[q]
      BY <1>3, FinishEnds, HeldEnded DEF DeployEnd, db
    <2>2. QED
      BY <2>1, HeldRead
  <1>4. ASSUME NEW c, NEW kind, InsertRow(c, kind)
        PROVE  BaseVmsStay /\ RowsAgree'
    <2>1. PICK i \in Rows :
             /\ NextRow(i)
             /\ vm' = [vm EXCEPT ![i] = [class |-> c, user |-> NoUser,
                                         status |-> "available", kind |-> kind]]
      BY <1>4 DEF InsertRow
    <2>2. ~Exists(i)
      BY <2>1 DEF NextRow, NewRow, Rows
    <2>3. vm'[i].user = NoUser /\ vm'[i].status = "available"
          /\ \A j \in Rows \ {i} : vm'[j] = vm[j]
      BY <2>1 DEF TypeOK
    <2>4. QED
      BY <1>4, <2>2, <2>3 DEF BaseVmsStay, RowsAgree, AssignedIffHeld, ReservedStay,
                              Exists, HeldInv
  <1>5. CASE DeployCommit(r)
    <2>1. BaseVmsStay /\ RowsAgree'
      BY <1>4, <1>5 DEF DeployCommit
    <2>2. HeldFit(task[r])' /\ \A q \in Requests \ {r} : task'[q] = task[q]
      BY <1>5, DeployLeaves DEF Ended, Session, HeldFit
    <2>3. QED
      BY <2>1, <2>2, HeldBy1
  <1>6. CASE AddManualCommit(r)
    <2>1. BaseVmsStay /\ RowsAgree'
      BY <1>4, <1>6 DEF AddManualCommit
    <2>2. QED
      BY <1>6, <2>1, FinishEnds, HeldEnded, HeldBy1 DEF AddManualCommit
  <1>7. QED
    BY <1>1, <1>2, <1>3, <1>5, <1>6 DEF Add

LEMMA FailureHeld ==
    ASSUME TypeOK, HeldInv, NEW r \in Requests, LockTimeout(r) \/ Rollback(r)
    PROVE  HeldInv'
  <1>1. HeldFit(task[r])
    BY DEF HeldInv
  <1>2. HeldFit(task[r])' /\ UNCHANGED db /\ \A q \in Requests \ {r} : task'[q] = task[q]
    BY <1>1, FailureLeaves DEF Ended, Session, HeldFit
  <1>3. QED
    BY <1>2, HeldRead

LEMMA HeldStep ==
    ASSUME TypeOK, JoinInv, HeldOps, HeldInv, [Next]_vars
    PROVE  HeldInv'
  <1>1. CASE Invite \/ UNCHANGED vars
    <2>1. UNCHANGED <<vm, task>>
      BY <1>1 DEF Invite, GenerateInvite, InvalidateInvite, TokenExpires, vars, db
    <2>2. QED
      BY <2>1 DEF HeldInv, AssignedIffHeld, ReservedStay, HeldFit, Harmless, Exists
  <1>2. QED
    BY <1>1, JoinHeld, AutoAssignHeld, AssignHeld, DeleteHeld, AddHeld, FailureHeld
       DEF Next

(* However many requests run: a row is assigned exactly when somebody holds it,
   whatever the order of joins, auto-assignments, withdrawals, additions and
   deletions of rows and classes.  Where withdrawals run beside deletions, for
   tables without a reserved row only: with one it is false.
   (models.py, assign_to_user and unassign)                                  *)
THEOREM ColumnsStayInStep ==
    ASSUME HeldOps, ColumnsAgree, NoneReservedIfRecycled
    PROVE  Spec => []AssignedIffHeld
  <1>1. TypeOK /\ JoinInv /\ HeldInv /\ [Next]_vars => HeldInv'
    BY HeldStep
  <1>2. Init => HeldInv
    BY DEF Init, HeldInv, AssignedIffHeld, ReservedStay, HeldFit, Idle, ColumnsAgree,
           NoneReservedIfRecycled
  <1>3. HeldInv => AssignedIffHeld
    BY DEF HeldInv
  <1>4. QED
    BY <1>1, <1>2, <1>3, TypeCorrect, JoinSerialised, PTL DEF Spec

-----------------------------------------------------------------------------
(* Where nobody but the students assigns VMs: they join, at any number of
   requests and classes, VMs are taken back, rows come and go.               *)

SeatOps == Ops \subseteq {"join", "unassign", "delete_row", "delete_class", "deploy",
                          "add_manual", "invite"}

(* A patch that touches row i alone, and not to make somebody its holder.    *)
Frees(p, i) == /\ p[i].user \in {NoUser, Same}
               /\ \A j \in Rows \ {i} : p[j] = NoPatch

(* What a request's session may hold.  A join that has the lock has seen that
   the student is not enrolled yet.                                          *)
SeatFit(t) ==
    /\ t.pc \notin {"auto_pick", "delete_user"}
    /\ t.pc = "delete_class" => t.class \in Classes
    /\ t.pc = "delete_row" => \E i \in Rows : t.doomed = {i}
    /\ t.pc \in {"join_pick", "join_commit"} => <<t.class, t.user>> \notin enrolled
    /\ t.pc = "update" => \E i \in Rows : Frees(t.patch, i)

(* Two rows of one class have not the same student.                          *)
OneEach ==
    \A i, j \in Rows :
        /\ vm[i].user \notin Staff \cup {NoUser} /\ vm[i].class \in classes
        /\ vm[j].user = vm[i].user /\ vm[j].class = vm[i].class
        => i = j

SeatInv == HolderIsEnrolled /\ OneEach /\ \A r \in Requests : SeatFit(task[r])

LEMMA SeatFitKept ==
    ASSUME NEW q \in Requests, SeatFit(task[q]), task'[q] = task[q],
           enrolled' \subseteq enrolled \/ task[q].pc \notin Locked
    PROVE  SeatFit(task[q])'
  <1>1. /\ task[q].pc = "delete_row" => \E i \in Rows : task[q].doomed = {i}
        /\ task[q].pc \in {"join_pick", "join_commit"} =>
              <<task[q].class, task[q].user>> \notin enrolled
        /\ task[q].pc = "update" => \E i \in Rows : Frees(task[q].patch, i)
    BY DEF SeatFit
  <1>2. task'[q].pc \in {"join_pick", "join_commit"} =>
              <<task'[q].class, task'[q].user>> \notin enrolled'
    BY <1>1 DEF Locked
  <1>3. task'[q].pc = "update" => \E i \in Rows : Frees(task'[q].patch, i)
    BY <1>1
  <1>4. QED
    BY <1>1, <1>2, <1>3 DEF SeatFit, Frees

(* A step of r keeps the invariant when its tables and r's session do, and
   only a request that holds the lock enrols anybody.                        *)
LEMMA SeatBy ==
    ASSUME JoinInv, SeatInv, NEW r \in Requests, HolderIsEnrolled', OneEach',
           SeatFit(task[r])', \A q \in Requests \ {r} : task'[q] = task[q],
           enrolled' \subseteq enrolled \/ task[r].pc \in Locked
    PROVE  SeatInv'
  <1>1. \A q \in Requests \ {r} : task[r].pc \in Locked => task[q].pc \notin Locked
    BY DEF JoinInv, LockInv
  <1>2. \A q \in Requests \ {r} : SeatFit(task[q])'
    BY <1>1, SeatFitKept DEF SeatInv
  <1>3. QED
    BY <1>2 DEF SeatInv

(* Rows that lose their holder or keep holder and class, classes and their
   enrolments that go.                                                       *)
LEMMA SeatRows ==
    ASSUME SeatInv, classes' \subseteq classes,
           \A e \in enrolled : e[1] \in classes' => e \in enrolled',
           \A i \in Rows : \/ vm'[i].user = NoUser
                           \/ vm'[i].user = vm[i].user /\ vm'[i].class = vm[i].class
    PROVE  HolderIsEnrolled' /\ OneEach'
  <1>1. HolderIsEnrolled'
    BY DEF SeatInv, HolderIsEnrolled
  <1>2. OneEach'
    BY DEF SeatInv, OneEach
  <1>3. QED
    BY <1>1, <1>2

(* A step that leaves the tables alone.                                      *)
LEMMA SeatRead ==
    ASSUME JoinInv, SeatInv, NEW r \in Requests, UNCHANGED db, SeatFit(task[r])',
           \A q \in Requests \ {r} : task'[q] = task[q]
    PROVE  SeatInv'
  <1>1. HolderIsEnrolled' /\ OneEach'
    BY SeatRows DEF db
  <1>2. QED
    BY <1>1, SeatBy DEF db

LEMMA SeatEnded ==
    ASSUME NEW r \in Requests, Ended(r)
    PROVE  SeatFit(task[r])' /\ \A q \in Requests \ {r} : task'[q] = task[q]
  BY DEF Ended, Session, SeatFit

(* What a join writes at its commit: the enrolment, and the free row it picked
   if its class had one.                                                     *)
LEMMA JoinWrites ==
    ASSUME TypeOK, JoinInv, NEW r \in Requests, JoinCommit(r)
    PROVE  /\ task[r].class \in Classes /\ task[r].user \in Users
           /\ enrolled' = enrolled \cup {<<task[r].class, task[r].user>>}
           /\ \/ /\ \A i \in Rows : ~Free(i, task[r].class)
                 /\ \A j \in Rows : vm'[j] = vm[j]
              \/ \E i \in Rows :
                    /\ Free(i, task[r].class)
                    /\ vm'[i].class = task[r].class /\ vm'[i].user = task[r].user
                    /\ \A j \in Rows \ {i} : vm'[j] = vm[j]
  <1> PICK p : p = task[r].patch
    OBVIOUS
  <1>0. /\ At(r, "join_commit") /\ p \in [Rows -> Patch]
        /\ task[r].class \in Classes /\ task[r].user \in Users
    BY DEF JoinCommit, TypeOK, Task, At, Joining
  <1>1. ~Stale(p)
    BY <1>0, PickedFree DEF Stale, Exists, Free
  <1>2. /\ vm' = Flushed(p)
        /\ enrolled' = enrolled \cup {<<task[r].class, task[r].user>>}
    BY <1>1 DEF JoinCommit
  <1>3. \A j \in Rows : p[j] = NoPatch => vm'[j] = vm[j]
    BY <1>2, NoPatchKeeps DEF Flushed, TypeOK
  <1>4. CASE p = Clean
    <2>1. ASSUME NEW i \in Rows, Free(i, task[r].class), p = AssignPatch(i, task[r].user)
          PROVE  FALSE
      <3>1. p[i] = Diff(vm[i], task[r].user, "assigned")
        BY <2>1 DEF AssignPatch, Clean
      <3>2. p[i].user = task[r].user
        BY <1>0, <2>1, <3>1, PoolAssumption DEF Diff, Free
      <3>3. p[i].user = Same
        BY <1>4 DEF Clean, NoPatch
      <3>4. QED
        BY <1>0, <3>2, <3>3, PoolAssumption
    <2>2. \A i \in Rows : ~Free(i, task[r].class)
      BY <1>0, <2>1 DEF JoinInv, PickInv
    <2>3. QED
      BY <1>0, <1>2, <1>3, <1>4, <2>2 DEF Clean
  <1>5. CASE p # Clean
    <2>1. PICK i \in Rows : Free(i, task[r].class) /\ p = AssignPatch(i, task[r].user)
      BY <1>0, <1>5 DEF JoinInv, PickInv
    <2>2. p[i] = Diff(vm[i], task[r].user, "assigned")
          /\ \A j \in Rows \ {i} : p[j] = NoPatch
      BY <2>1 DEF AssignPatch, Clean
    <2>3. p[i].user = task[r].user
      BY <1>0, <2>1, <2>2, PoolAssumption DEF Diff, Free
    <2>4. vm'[i].class = task[r].class /\ vm'[i].user = task[r].user
      BY <1>0, <1>2, <2>1, <2>3, UpdatedIs, PoolAssumption DEF Flushed, Free
    <2>5. QED
      BY <1>0, <1>2, <1>3, <2>1, <2>2, <2>4
  <1>6. QED
    BY <1>4, <1>5

LEMMA JoinSeat ==
    ASSUME TypeOK, JoinInv, SeatInv, NEW r \in Requests, Join(r)
    PROVE  SeatInv'
  <1>0. SeatFit(task[r])
    BY DEF SeatInv
  <1>1. ASSUME NEW c \in Classes, NEW u \in Users, JoinCheck(r, c, u)
        PROVE  SeatInv'
    <2>1. SeatFit(task[r])' /\ UNCHANGED db /\ \A q \in Requests \ {r} : task'[q] = task[q]
      BY <1>1, JoinCheckLeaves DEF Session, SeatFit, db
    <2>2. QED
      BY <2>1, SeatRead
  <1>2. CASE JoinEnroll(r)
    <2>1. SeatFit(task[r])' /\ UNCHANGED db /\ \A q \in Requests \ {r} : task'[q] = task[q]
      BY <1>2, JoinEnrollLeaves DEF Ended, Session, SeatFit, db
    <2>2. QED
      BY <2>1, SeatRead
  <1>3. CASE JoinPick(r)
    <2>1. UNCHANGED db /\ \E p : Session(r, "join_commit", task[r].class, task[r].user,
                                         task[r].waiting, p, task[r].doomed)
      BY <1>3, JoinPickLeaves DEF db
    <2>2. SeatFit(task[r])' /\ \A q \in Requests \ {r} : task'[q] = task[q]
      BY <1>0, <1>3, <2>1 DEF Session, SeatFit, JoinPick, At, db
    <2>3. QED
      BY <2>1, <2>2, SeatRead
  <1>4. CASE JoinCommit(r)
    <2>1. Ended(r) /\ task[r].pc = "join_commit" /\ classes' = classes
      BY <1>4, FinishEnds DEF JoinCommit, At
    <2>2. /\ task[r].class \in Classes /\ task[r].user \in Users
          /\ <<task[r].class, task[r].user>> \notin enrolled
          /\ enrolled' = enrolled \cup {<<task[r].class, task[r].user>>}
      BY <1>0, <1>4, <2>1, JoinWrites DEF SeatFit
    <2>3. CASE \A j \in Rows : vm'[j] = vm[j]
      BY <2>1, <2>2, <2>3, SeatRows, SeatEnded, SeatBy DEF Locked
    <2>4. ASSUME NEW i \in Rows, Free(i, task[r].class),
                 vm'[i].class = task[r].class, vm'[i].user = task[r].user,
                 \A j \in Rows \ {i} : vm'[j] = vm[j]
          PROVE  HolderIsEnrolled' /\ OneEach'
      <3>1. HolderIsEnrolled'
        BY <2>1, <2>2, <2>4 DEF SeatInv, HolderIsEnrolled
      <3>2. ASSUME NEW j \in Rows \ {i}, vm'[j].user = task[r].user,
                   vm'[j].class = task[r].class,
                   task[r].user \notin Staff, task[r].class \in classes
            PROVE  FALSE
        BY <2>2, <2>4, <3>2, PoolAssumption DEF SeatInv, HolderIsEnrolled
      <3>3. OneEach'
        BY <2>1, <2>4, <3>2 DEF SeatInv, OneEach
      <3>4. QED
        BY <3>1, <3>3
    <2>5. QED
      BY <1>4, <2>1, <2>3, <2>4, JoinWrites, SeatEnded, SeatBy DEF Locked
  <1>5. QED
    BY <1>1, <1>2, <1>3, <1>4 DEF Join

(* What unassign does at its commit: row i may lose its holder.              *)
LEMMA UpdateFrees ==
    ASSUME TypeOK, SeatInv, NEW r \in Requests, UpdateCommit(r)
    PROVE  \E i \in Rows :
              /\ \A j \in Rows \ {i} : vm'[j] = vm[j]
              /\ vm'[i].class = vm[i].class
              /\ vm'[i].user \in {NoUser, vm[i].user}
  <1> PICK p : p = task[r].patch
    OBVIOUS
  <1>1. PICK i \in Rows : Frees(p, i)
    BY DEF UpdateCommit, At, SeatInv, SeatFit
  <1>2. CASE vm' = vm
    BY <1>2
  <1>3. CASE vm' = Flushed(p)
    <2>1. \A j \in Rows \ {i} : vm'[j] = vm[j]
      BY <1>1, <1>3, NoPatchKeeps DEF Flushed, Frees, TypeOK
    <2>2. vm'[i].class = vm[i].class /\ vm'[i].user \in {NoUser, vm[i].user}
      BY <1>1, <1>3, UpdatedIs DEF Flushed, Frees
    <2>3. QED
      BY <2>1, <2>2
  <1>4. QED
    BY <1>2, <1>3 DEF UpdateCommit

LEMMA AssignSeat ==
    ASSUME TypeOK, JoinInv, SeatOps, SeatInv, NEW r \in Requests, Assign(r)
    PROVE  SeatInv'
  <1>1. ASSUME NEW i \in Rows, UnassignRead(r, i)
        PROVE  SeatInv'
    <2>1. Session(r, "update", NoClass, NoUser, {}, UnassignPatch(i), {}) /\ UNCHANGED db
      BY <1>1, UnassignLeaves DEF db
    <2>2. Frees(UnassignPatch(i), i)
      BY DEF UnassignPatch, Clean, Diff, Frees
    <2>3. SeatFit(task[r])' /\ \A q \in Requests \ {r} : task'[q] = task[q]
      BY <2>1, <2>2 DEF Session, SeatFit, Frees
    <2>4. QED
      BY <2>1, <2>3, SeatRead
  <1>2. CASE UpdateCommit(r)
    <2>1. Ended(r) /\ UNCHANGED <<classes, enrolled>>
      BY <1>2, FinishEnds DEF UpdateCommit
    <2>2. HolderIsEnrolled' /\ OneEach'
      BY <1>2, <2>1, UpdateFrees, SeatRows
    <2>3. QED
      BY <2>1, <2>2, SeatEnded, SeatBy
  <1>3. QED
    BY <1>1, <1>2 DEF Assign, AssignRead, AssignStudentRead, Start, SeatOps

LEMMA DeleteSeat ==
    ASSUME TypeOK, JoinInv, SeatOps, SeatInv, NEW r \in Requests, Delete(r)
    PROVE  SeatInv'
  <1>0. SeatFit(task[r])
    BY DEF SeatInv
  <1>1. ASSUME NEW c \in Classes, NEW i \in Rows, DeleteRowRead(r, c, i)
        PROVE  SeatInv'
    <2>1. SeatFit(task[r])' /\ UNCHANGED db /\ \A q \in Requests \ {r} : task'[q] = task[q]
      BY <1>1, DeleteRowLeaves DEF Session, SeatFit, db
    <2>2. QED
      BY <2>1, SeatRead
  <1>2. ASSUME NEW c \in Classes, DeleteClassRead(r, c)
        PROVE  SeatInv'
    <2>1. UNCHANGED db /\ \E d : Session(r, "delete_class", c, NoUser, {}, Clean, d)
      BY <1>2, DeleteClassLeaves DEF db
    <2>2. SeatFit(task[r])' /\ \A q \in Requests \ {r} : task'[q] = task[q]
      BY <2>1 DEF Session, SeatFit
    <2>3. QED
      BY <2>1, <2>2, SeatRead
  <1>3. ASSUME NEW c, Ended(r), vm' = Without(task[r].doomed), classes' = classes \ {c},
               enrolled' = {e \in enrolled : e[1] # c} \/ UNCHANGED enrolled
        PROVE  SeatInv'
    <2>1. \A i \in Rows : vm'[i].user = NoUser \/ vm'[i] = vm[i]
      BY <1>3 DEF Without, Blank
    <2>2. HolderIsEnrolled' /\ OneEach'
      BY <1>3, <2>1, SeatRows
    <2>3. QED
      BY <1>3, <2>2, SeatEnded, SeatBy
  <1>4. CASE DeleteRowCommit(r)
    <2>1. Ended(r) /\ classes' = classes \ {NoClass}
      BY <1>4, FinishEnds, PoolAssumption DEF DeleteRowCommit, TypeOK
    <2>2. QED
      BY <1>3, <1>4, <2>1 DEF DeleteRowCommit
  <1>5. CASE DeleteClassCommit(r)
    BY <1>3, <1>5, FinishEnds DEF DeleteClassCommit
  <1>6. ~DeleteUserCommit(r) /\ \A u \in Users : ~DeleteUserRead(r, u)
    BY <1>0 DEF DeleteUserCommit, DeleteUserRead, Start, At, SeatFit, SeatOps
  <1>7. QED
    BY <1>1, <1>2, <1>4, <1>5, <1>6 DEF Delete

(* A new row has no holder.                                                  *)
LEMMA InsertedRow ==
    ASSUME TypeOK, NEW c, NEW kind, InsertRow(c, kind)
    PROVE  \E i \in Rows : vm'[i].user = NoUser /\ \A j \in Rows \ {i} : vm'[j] = vm[j]
  BY DEF InsertRow, TypeOK

LEMMA AddSeat ==
    ASSUME TypeOK, JoinInv, SeatInv, NEW r \in Requests, Add(r)
    PROVE  SeatInv'
  <1>1. ASSUME NEW c \in Classes, DeployStart(r, c) \/ AddManualRead(r, c)
        PROVE  SeatInv'
    <2>1. UNCHANGED db /\ \E pc \in {"deploy", "insert"} :
                              Session(r, pc, c, NoUser, {}, Clean, {})
      BY <1>1, AddLeaves DEF db
    <2>2. SeatFit(task[r])' /\ \A q \in Requests \ {r} : task'[q] = task[q]
      BY <2>1 DEF Session, SeatFit
    <2>3. QED
      BY <2>1, <2>2, SeatRead
  <1>2. CASE DeployFlush(r)
    <2>1. SeatFit(task[r])' /\ UNCHANGED db /\ \A q \in Requests \ {r} : task'[q] = task[q]
      BY <1>2, DeployLeaves DEF DeployFlush, Ended, Session, SeatFit
    <2>2. QED
      BY <2>1, SeatRead
  <1>3. CASE DeployEnd(r)
    BY <1>3, FinishEnds, SeatEnded, SeatRead DEF DeployEnd, db
  <1>4. CASE DeployCommit(r)
    <2>1. HolderIsEnrolled' /\ OneEach'
      <3>1. UNCHANGED <<classes, enrolled>>
        BY <1>4 DEF DeployCommit
      <3>2. QED
        BY <1>4, <3>1, InsertedRow, SeatRows DEF DeployCommit
    <2>2. SeatFit(task[r])' /\ \A q \in Requests \ {r} : task'[q] = task[q]
      BY <1>4, DeployLeaves DEF Ended, Session, SeatFit
    <2>3. QED
      BY <1>4, <2>1, <2>2, SeatBy DEF DeployCommit
  <1>5. CASE AddManualCommit(r)
    <2>1. HolderIsEnrolled' /\ OneEach'
      <3>1. UNCHANGED <<classes, enrolled>>
        BY <1>5 DEF AddManualCommit
      <3>2. QED
        BY <1>5, <3>1, InsertedRow, SeatRows DEF AddManualCommit
    <2>2. QED
      BY <1>5, <2>1, FinishEnds, SeatEnded, SeatBy DEF AddManualCommit
  <1>6. QED
    BY <1>1, <1>2, <1>3, <1>4, <1>5 DEF Add

LEMMA FailureSeat ==
    ASSUME TypeOK, JoinInv, SeatInv, NEW r \in Requests, LockTimeout(r) \/ Rollback(r)
    PROVE  SeatInv'
  <1>1. SeatFit(task[r])
    BY DEF SeatInv
  <1>2. SeatFit(task[r])' /\ UNCHANGED db /\ \A q \in Requests \ {r} : task'[q] = task[q]
    BY <1>1, FailureLeaves DEF Ended, Session, SeatFit
  <1>3. QED
    BY <1>2, SeatRead

(* Nothing is assigned automatically.                                        *)
LEMMA NoAutoAssign ==
    ASSUME SeatOps, SeatInv, NEW r \in Requests
    PROVE  ~AutoAssign(r)
  <1>1. SeatFit(task[r])
    BY DEF SeatInv
  <1>2. QED
    BY <1>1 DEF AutoAssign, AutoRead, AutoPick, Start, At, SeatOps, SeatFit

LEMMA SeatStep ==
    ASSUME TypeOK, JoinInv, SeatOps, SeatInv, [Next]_vars
    PROVE  SeatInv'
  <1>1. CASE Invite \/ UNCHANGED vars
    <2>1. UNCHANGED <<vm, classes, enrolled, task>>
      BY <1>1 DEF Invite, GenerateInvite, InvalidateInvite, TokenExpires, vars, db
    <2>2. HolderIsEnrolled' /\ OneEach'
      BY <2>1, SeatRows
    <2>3. QED
      BY <2>1, <2>2, SeatFitKept DEF SeatInv
  <1>2. QED
    BY <1>1, JoinSeat, NoAutoAssign, AssignSeat, DeleteSeat, AddSeat, FailureSeat
       DEF Next

LEMMA SeatInit ==
    ASSUME StaffHolds
    PROVE  Init => SeatInv
  BY DEF Init, SeatInv, HolderIsEnrolled, OneEach, SeatFit, Idle, StaffHolds

(* assign_vm_to_user: "Check if user already has a VM in this class".  Where
   students get their VMs by joining only, none has two VMs of one class.
   (class_service.py, join_class_via_token)                                  *)
THEOREM OneVmByJoining ==
    ASSUME SeatOps, StaffHolds
    PROVE  Spec => []OneVmPerStudent
  <1>1. TypeOK /\ JoinInv /\ SeatInv /\ [Next]_vars => SeatInv'
    BY SeatStep
  <1>2. Init => SeatInv
    BY SeatInit
  <1>3. SeatInv => OneVmPerStudent
    <2> SUFFICES ASSUME SeatInv, NEW c \in classes, NEW u \in Users \ Staff
                 PROVE  Cardinality(HeldBy(c, u)) <= 1
      BY DEF OneVmPerStudent
    <2>1. CASE HeldBy(c, u) = {}
      BY <2>1, FS_EmptySet
    <2>2. CASE HeldBy(c, u) # {}
      <3>1. PICK i : i \in HeldBy(c, u)
        BY <2>2
      <3>2. HeldBy(c, u) = {i}
        BY <3>1, PoolAssumption DEF HeldBy, SeatInv, OneEach
      <3>3. QED
        BY <3>2, FS_Singleton
    <2>3. QED
      BY <2>1, <2>2
  <1>4. QED
    BY <1>1, <1>2, <1>3, TypeCorrect, JoinSerialised, PTL DEF Spec

-----------------------------------------------------------------------------
(* Refinement of Enrolment: the commit of a join is its atomic Join.          *)

LEMMA SeatingIs ==
    ASSUME TypeOK
    PROVE  /\ Seating \in [Rows -> Promise!Seat]
           /\ \A i \in Rows : Seating[i] = SeatOf(i)
  <1>1. \A i \in Rows : vm[i].class \in Classes \cup {NoClass}
                        /\ vm[i].user \in Users \cup {NoUser}
    BY DEF TypeOK, VmRow
  <1>2. \A i \in Rows : SeatOf(i) \in Promise!Seat
    BY <1>1 DEF SeatOf, Promise!Seat, Free
  <1>3. QED
    BY <1>2 DEF Seating

LEMMA SeatKept ==
    ASSUME TypeOK, NEW i \in Rows, TypeOK',
           \/ vm'[i] = vm[i]
           \/ vm'[i].class = vm[i].class /\ vm'[i].user = vm[i].user /\ vm[i].user # NoUser
    PROVE  Seating'[i] = Seating[i]
  <1>1. SeatOf(i)' = SeatOf(i)
    BY DEF SeatOf, Free
  <1>2. QED
    BY <1>1, SeatingIs DEF Seating

LEMMA SeatsKept ==
    ASSUME TypeOK, TypeOK', \A i \in Rows : vm'[i] = vm[i]
    PROVE  Seating' = Seating
  <1>1. \A i \in Rows : Seating'[i] = Seating[i]
    BY SeatKept
  <1>2. Seating \in [Rows -> Promise!Seat] /\ Seating' = [i \in Rows |-> Seating'[i]]
    BY SeatingIs DEF Seating
  <1>3. QED
    BY <1>1, <1>2

(* One row changes and has no holder afterwards, or the same as before.      *)
LEMMA Rearranged ==
    ASSUME TypeOK, TypeOK', UNCHANGED enrolled, NEW i \in Rows,
           \A j \in Rows \ {i} : vm'[j] = vm[j],
           \/ vm'[i].user = NoUser
           \/ vm'[i].class = vm[i].class /\ vm'[i].user = vm[i].user
    PROVE  [Promise!Next]_(Promise!vars)
  <1> DEFINE s == SeatOf(i)'
  <1>1. \A j \in Rows \ {i} : Seating'[j] = Seating[j]
    BY SeatKept
  <1>2. /\ Seating \in [Rows -> Promise!Seat] /\ Seating' = [j \in Rows |-> Seating'[j]]
        /\ Seating'[i] = s
    BY SeatingIs DEF Seating
  <1>3. CASE vm'[i].user = NoUser
    <2>1. s \in Promise!Empty
      BY <1>3 DEF SeatOf, Promise!Empty, Promise!Seat, Free, TypeOK, VmRow
    <2>2. Seating' = [Seating EXCEPT ![i] = s]
      <3> HIDE DEF s
      <3>1. QED
        BY <1>1, <1>2
    <2>3. Promise!Rearrange(i)
      <3> HIDE DEF s
      <3>1. QED
        BY <2>1, <2>2 DEF Promise!Rearrange
    <2>4. QED
      BY <2>3 DEF Promise!Next
  <1>4. CASE vm'[i].user # NoUser
    <2>1. \A j \in Rows : Seating'[j] = Seating[j]
      BY <1>1, <1>4, SeatKept
    <2>2. Seating' = Seating
      BY <1>2, <2>1
    <2>3. QED
      BY <2>2 DEF Promise!vars
  <1>5. QED
    BY <1>3, <1>4

LEMMA JoinAtomic ==
    ASSUME TypeOK, TypeOK', JoinInv, SeatInv, NEW r \in Requests, JoinCommit(r)
    PROVE  Promise!Join(task[r].class, task[r].user)
  <1> DEFINE c == task[r].class
             u == task[r].user
  <1>1. <<c, u>> \notin enrolled
    BY DEF SeatInv, SeatFit, JoinCommit, At
  <1>2. c \in Classes /\ u \in Users /\ enrolled' = enrolled \cup {<<c, u>>}
    BY JoinWrites
  <1>3. Seating \in [Rows -> Promise!Seat] /\ Seating' = [j \in Rows |-> Seating'[j]]
    BY SeatingIs DEF Seating
  <1>4. Promise!Offered(c) = {i \in Rows : Free(i, c)}
    BY SeatingIs DEF Promise!Offered, SeatOf, Free
  <1>5. CASE /\ \A i \in Rows : ~Free(i, c)
             /\ \A j \in Rows : vm'[j] = vm[j]
    BY <1>1, <1>2, <1>4, <1>5, SeatsKept DEF Promise!Join
  <1>6. ASSUME NEW i \in Rows, Free(i, c), vm'[i].class = c, vm'[i].user = u,
               \A j \in Rows \ {i} : vm'[j] = vm[j]
        PROVE  \E k \in Promise!Offered(c) :
                  /\ Seating[k].user = NoUser
                  /\ Seating' = [Seating EXCEPT ![k] = Promise!Taken(c, u)]
    <2>1. \A j \in Rows \ {i} : Seating'[j] = Seating[j]
      BY <1>6, SeatKept
    <2>2. Seating'[i] = Promise!Taken(c, u)
      <3>1. SeatOf(i)' = [class |-> vm'[i].class, user |-> vm'[i].user, offered |-> FALSE]
        BY <1>2, <1>6, PoolAssumption DEF SeatOf, Free
      <3>2. QED
        BY <1>6, <3>1 DEF Seating, Promise!Taken
    <2>3. Seating[i].user = NoUser
      BY <1>6, SeatingIs DEF SeatOf, Free
    <2>4. Seating' = [Seating EXCEPT ![i] = Promise!Taken(c, u)]
      BY <1>3, <2>1, <2>2
    <2>5. QED
      BY <1>4, <1>6, <2>3, <2>4
  <1>7. QED
    BY <1>1, <1>2, <1>5, <1>6, JoinWrites DEF Promise!Join

LEMMA ClassCloses ==
    ASSUME TypeOK, TypeOK', SeatInv, NEW r \in Requests, DeleteClassCommit(r)
    PROVE  \E c \in Classes : Promise!Close(c)
  <1> DEFINE c == task[r].class
             gone == task[r].doomed \cap Rows
  <1>1. /\ c \in Classes /\ enrolled' = {e \in enrolled : e[1] # c}
        /\ vm' = Without(task[r].doomed)
    BY DEF SeatInv, SeatFit, DeleteClassCommit, At
  <1>2. \A i \in Rows \ gone : Seating'[i] = Seating[i]
    BY <1>1, SeatKept DEF Without
  <1>3. \A i \in gone : Seating'[i] = Promise!NoSeat
    BY <1>1 DEF Without, Seating, SeatOf, Free, Blank, Promise!NoSeat
  <1>4. Seating' = [i \in Rows |-> IF i \in gone THEN Promise!NoSeat ELSE Seating[i]]
    <2>1. Seating' = [i \in Rows |-> Seating'[i]]
      BY DEF Seating
    <2>2. QED
      BY <1>2, <1>3, <2>1
  <1>5. QED
    BY <1>1, <1>4 DEF Promise!Close

LEMMA AtomicStep ==
    ASSUME TypeOK, TypeOK', JoinInv, SeatOps, SeatInv, [Next]_vars
    PROVE  [Promise!Next]_(Promise!vars)
  <1>1. ASSUME UNCHANGED <<vm, enrolled>>
        PROVE  [Promise!Next]_(Promise!vars)
    BY <1>1, SeatsKept DEF Promise!vars
  <1>2. CASE Invite \/ UNCHANGED vars
    BY <1>1, <1>2 DEF Invite, GenerateInvite, InvalidateInvite, TokenExpires, vars, db
  <1>3. ASSUME NEW r \in Requests, Join(r)
        PROVE  [Promise!Next]_(Promise!vars)
    <2>1. CASE JoinCommit(r)
      BY <2>1, JoinAtomic, JoinWrites DEF Promise!Next
    <2>2. CASE ~JoinCommit(r)
      BY <1>1, <1>3, <2>2 DEF Join, JoinCheck, JoinEnroll, JoinPick, db
    <2>3. QED
      BY <2>1, <2>2
  <1>4. ASSUME NEW r \in Requests, Assign(r)
        PROVE  [Promise!Next]_(Promise!vars)
    <2>1. CASE UpdateCommit(r)
      <3>1. UNCHANGED enrolled
        BY <2>1 DEF UpdateCommit
      <3>2. QED
        BY <2>1, <3>1, UpdateFrees, Rearranged
    <2>2. CASE ~UpdateCommit(r)
      BY <1>1, <1>4, <2>2 DEF Assign, AssignRead, AssignStudentRead, UnassignRead, db
    <2>3. QED
      BY <2>1, <2>2
  <1>5. ASSUME NEW r \in Requests, Delete(r)
        PROVE  [Promise!Next]_(Promise!vars)
    <2>1. CASE DeleteRowCommit(r)
      <3>1. PICK i \in Rows : task[r].doomed = {i}
        BY <2>1 DEF DeleteRowCommit, At, SeatInv, SeatFit
      <3>2. /\ UNCHANGED enrolled /\ vm'[i] = Blank
            /\ \A j \in Rows \ {i} : vm'[j] = vm[j]
        BY <2>1, <3>1 DEF DeleteRowCommit, Without
      <3>3. vm'[i].user = NoUser
        BY <3>2 DEF Blank
      <3>4. QED
        BY <3>2, <3>3, Rearranged
    <2>2. CASE DeleteClassCommit(r)
      BY <2>2, ClassCloses DEF Promise!Next
    <2>3. CASE UNCHANGED db
      BY <1>1, <2>3 DEF db
    <2>4. ~DeleteUserCommit(r)
      BY DEF SeatInv, SeatFit, DeleteUserCommit, At
    <2>5. QED
      BY <1>5, <2>1, <2>2, <2>3, <2>4
         DEF Delete, DeleteRowRead, DeleteUserRead, DeleteClassRead, db
  <1>6. ASSUME NEW r \in Requests, Add(r)
        PROVE  [Promise!Next]_(Promise!vars)
    <2>1. ASSUME NEW c, NEW kind, InsertRow(c, kind), UNCHANGED enrolled
          PROVE  [Promise!Next]_(Promise!vars)
      BY <2>1, InsertedRow, Rearranged
    <2>2. CASE DeployCommit(r)
      BY <2>1, <2>2 DEF DeployCommit
    <2>3. CASE AddManualCommit(r)
      BY <2>1, <2>3 DEF AddManualCommit
    <2>4. CASE UNCHANGED db
      BY <1>1, <2>4 DEF db
    <2>5. QED
      BY <1>6, <2>2, <2>3, <2>4
         DEF Add, DeployStart, DeployFlush, DeployEnd, AddManualRead, db
  <1>7. ASSUME NEW r \in Requests, LockTimeout(r) \/ Rollback(r)
        PROVE  [Promise!Next]_(Promise!vars)
    BY <1>1, <1>7 DEF LockTimeout, Rollback, db
  <1>8. QED
    BY <1>2, <1>3, <1>4, <1>5, <1>6, <1>7, NoAutoAssign DEF Next

(* Refinement: where students get their VMs by joining only, the handlers, for
   all their reads, locks, time-outs and rollbacks, implement Enrolment, in
   which joining is one atomic step and nobody is seated over anybody.
   (class_service.py, join_class_via_token)                                  *)
THEOREM JoinsAreAtomic ==
    ASSUME SeatOps, StaffHolds
    PROVE  Spec => JoinIsAtomic
  <1>1. TypeOK /\ JoinInv /\ SeatInv /\ [Next]_vars => SeatInv'
    BY SeatStep
  <1>2. Init => SeatInv
    BY SeatInit
  <1>3. TypeOK /\ TypeOK' /\ JoinInv /\ SeatInv /\ [Next]_vars
            => [Promise!Next]_(Promise!vars)
    BY AtomicStep
  <1>4. Init => Promise!Init
    BY TypeInit, SeatingIs DEF Init, Promise!Init
  <1>5. QED
    BY <1>1, <1>2, <1>3, <1>4, TypeCorrect, JoinSerialised, PTL
       DEF Spec, JoinIsAtomic, Promise!Spec

=============================================================================
