-------------------------- MODULE VmidPrefixProofs --------------------------
(***************************************************************************)
(* Proofs about VmidPrefix for every set of prefixes and requests, every    *)
(* bound on class ids and every set of operations: type correctness, that   *)
(* the prefix create_class chose stays unused until it commits (AllocInv),  *)
(* and that a new class therefore never causes a duplicate.  For requests   *)
(* that come one at a time, also that ranges pass from a deleted class to a *)
(* new one without its VMs.                                                 *)
(***************************************************************************)
EXTENDS VmidPrefix, TLAPS

(* A request that moves changes its own task and no other.                   *)
LEMMA BecomeIs ==
    ASSUME TypeOK, NEW r \in Requests, NEW new, Become(r, new)
    PROVE  /\ task'[r] = new
           /\ \A q \in Requests : q # r => task'[q] = task[q]
  BY DEF TypeOK, Become

LEMMA BecomeType ==
    ASSUME TypeOK, NEW r \in Requests, NEW new \in Task, Become(r, new)
    PROVE  task' \in [Requests -> Task]
  BY DEF TypeOK, Become

LEMMA IdleType == Idle \in Task /\ Idle.pc = "idle"
  BY DEF Idle, Task, Fields, PC

LEMMA FinishType ==
    ASSUME TypeOK, NEW r \in Requests, Finish(r)
    PROVE  task' \in [Requests -> Task] /\ task'[r] = Idle
  BY IdleType, BecomeType, BecomeIs DEF Finish

(* Where a task may go without reading anything: to a point that asks of it no
   more than the class it has.                                               *)
LEMMA GotoType ==
    ASSUME TypeOK, NEW r \in Requests,
           NEW pc \in {"create", "create_reply", "reread", "destroy"}, Goto(r, pc),
           pc \in {"create", "create_reply"} \/ task[r].class \in Classes
    PROVE  task' \in [Requests -> Task]
  <1> DEFINE new == [task[r] EXCEPT !.pc = pc]
  <1>1. task[r] \in Task
    BY DEF TypeOK
  <1>2. new \in Task
    BY <1>1 DEF Task, Fields, PC
  <1>3. Become(r, new)
    BY DEF Goto
  <1> HIDE DEF new
  <1>4. QED
    BY <1>2, <1>3, BecomeType

LEMMA TaskClass ==
    ASSUME TypeOK, NEW r \in Requests,
           task[r].pc \notin {"idle", "create", "create_reply"}
    PROVE  task[r].class \in Classes
  BY DEF TypeOK, Task

LEMMA FillType ==
    ASSUME TypeOK, NEW p \in Prefixes, NEW c \in Classes, NEW base \in BOOLEAN
    PROVE  Fill(p, c, base) \in [Prefixes -> VmRange]
  <1>1. made[p] \in VmRange
    BY DEF TypeOK
  <1>2. [class |-> IF made[p] = NoVms THEN c ELSE made[p].class, base |-> base] \in VmRange
    BY <1>1 DEF VmRange
  <1>3. QED
    BY <1>2 DEF TypeOK, Fill

LEMMA ToRowsType ==
    ASSUME TypeOK, NEW r \in Requests, At(r, "deploy"), ToRows(r)
    PROVE  task' \in [Requests -> Task]
  <1> DEFINE new == [task[r] EXCEPT !.pc = "rows", !.ranges = {task[r].prefix}]
  <1>1. task[r] \in Task
    BY DEF TypeOK
  <1>2. task[r].prefix \in Prefixes /\ task[r].class \in Classes
    BY <1>1 DEF Task, At
  <1>3. new \in Task
    BY <1>1, <1>2 DEF Task, Fields, PC
  <1>4. Become(r, new)
    BY DEF ToRows
  <1> HIDE DEF new
  <1>5. QED
    BY <1>3, <1>4, BecomeType

-----------------------------------------------------------------------------
(* Types.                                                                    *)

LEMMA CreateTypeStep ==
    ASSUME TypeOK, NEW r \in Requests, Create(r)
    PROVE  TypeOK'
  <1>0. task[r] \in Task
    BY DEF TypeOK
  <1>1. CASE CreateStart(r)
    BY <1>1, GotoType DEF CreateStart, TypeOK
  <1>2. ASSUME NEW c \in Classes, CreateFlush(r, c)
        PROVE  TypeOK'
    <2> DEFINE new == [task[r] EXCEPT !.pc = "create_pick", !.class = c]
    <2>1. new \in Task
      BY <1>0 DEF Task, Fields, PC
    <2>2. Become(r, new)
      BY <1>2 DEF CreateFlush
    <2> HIDE DEF new
    <2>3. QED
      BY <1>2, <2>1, <2>2, BecomeType DEF CreateFlush, TypeOK
  <1>3. ASSUME NEW p \in Prefixes \cup {NoPrefix}, CreatePick(r, p)
        PROVE  TypeOK'
    <2> DEFINE new == [task[r] EXCEPT !.pc = "create_commit", !.prefix = p]
    <2>1. task[r].class \in Classes
      BY <1>3, TaskClass DEF CreatePick, At
    <2>2. new \in Task
      BY <1>0, <2>1 DEF Task, Fields, PC
    <2>3. Become(r, new)
      BY <1>3 DEF CreatePick
    <2> HIDE DEF new
    <2>4. QED
      BY <1>3, <2>2, <2>3, BecomeType DEF CreatePick, TypeOK
  <1>4. CASE CreateCommit(r)
    <2>1. task[r].class \in Classes /\ task[r].prefix \in Prefixes \cup {NoPrefix}
      BY <1>0, <1>4, TaskClass DEF CreateCommit, At, Task, Fields
    <2>2. stored' \subseteq Classes /\ prefix' \in [Classes -> Prefixes \cup {NoPrefix}]
      BY <1>4, <2>1 DEF CreateCommit, TypeOK
    <2>3. QED
      BY <1>4, <2>2, GotoType DEF CreateCommit, TypeOK
  <1>5. CASE CreateLocked(r)
    BY <1>5, GotoType DEF CreateLocked, TypeOK
  <1>6. CASE CreateReply(r)
    BY <1>6, FinishType DEF CreateReply, TypeOK
  <1>7. CASE Rollback(r)
    BY <1>7, FinishType DEF Rollback, TypeOK
  <1>8. QED
    BY <1>1, <1>2, <1>3, <1>4, <1>5, <1>6, <1>7 DEF Create

LEMMA DeployTypeStep ==
    ASSUME TypeOK, NEW r \in Requests, Deploy(r)
    PROVE  TypeOK'
  <1>0. task[r] \in Task
    BY DEF TypeOK
  <1>1. ASSUME NEW c \in Classes, NEW p \in Prefixes, DeployWithoutPrefix(r, c, p)
        PROVE  TypeOK'
    <2> DEFINE new == [Idle EXCEPT !.pc = "late", !.class = c, !.prefix = p]
    <2>1. new \in Task
      BY DEF Idle, Task, Fields, PC
    <2>2. Become(r, new)
      BY <1>1 DEF DeployWithoutPrefix
    <2> HIDE DEF new
    <2>3. QED
      BY <1>1, <2>1, <2>2, BecomeType DEF DeployWithoutPrefix, TypeOK
  <1>2. ASSUME NEW c \in Classes, NEW p \in Prefixes, FormWithoutPrefix(r, c, p)
        PROVE  TypeOK'
    <2> DEFINE new == [Idle EXCEPT !.pc = "form", !.class = c, !.prefix = p]
    <2>1. new \in Task
      BY DEF Idle, Task, Fields, PC
    <2>2. Become(r, new)
      BY <1>2 DEF FormWithoutPrefix
    <2> HIDE DEF new
    <2>3. QED
      BY <1>2, <2>1, <2>2, BecomeType DEF FormWithoutPrefix, TypeOK
  <1>3. ASSUME NEW c \in Classes, DeployStart(r, c)
        PROVE  TypeOK'
    <2>1. prefix[c] \in Prefixes
      BY <1>3 DEF DeployStart, TypeOK
    <2> DEFINE new == [Idle EXCEPT !.pc = "deploy", !.class = c, !.prefix = prefix[c]]
    <2>2. new \in Task
      BY <2>1 DEF Idle, Task, Fields, PC
    <2>3. Become(r, new)
      BY <1>3 DEF DeployStart
    <2> HIDE DEF new
    <2>4. QED
      BY <1>3, <2>2, <2>3, BecomeType DEF DeployStart, TypeOK
  <1>4. CASE PrefixCommit(r)
    <2>1. task[r].class \in Classes
      BY <1>4, TaskClass DEF PrefixCommit
    <2>2. task' \in [Requests -> Task]
      BY <1>4, <2>1, GotoType, FinishType DEF PrefixCommit
    <2>3. task[r].prefix \in Prefixes
      BY <1>0, <1>4 DEF PrefixCommit, Task
    <2>4. prefix' \in [Classes -> Prefixes \cup {NoPrefix}]
      BY <1>4, <2>1, <2>3 DEF PrefixCommit, TypeOK
    <2>5. QED
      BY <1>4, <2>2, <2>4 DEF PrefixCommit, TypeOK
  <1>5. CASE DeployReread(r)
    <2>1. task[r].class \in Classes
      BY <1>5, TaskClass DEF DeployReread, At
    <2>2. CASE prefix[task[r].class] # NoPrefix
      <3> DEFINE new == [task[r] EXCEPT !.pc = "deploy", !.prefix = prefix[task[r].class]]
      <3>1. prefix[task[r].class] \in Prefixes
        BY <2>1, <2>2 DEF TypeOK
      <3>2. new \in Task
        BY <1>0, <2>1, <3>1 DEF Task, Fields, PC
      <3>3. Become(r, new) \/ Finish(r)
        BY <1>5 DEF DeployReread
      <3> HIDE DEF new
      <3>4. QED
        BY <1>5, <3>2, <3>3, BecomeType, FinishType DEF DeployReread, TypeOK
    <2>3. CASE prefix[task[r].class] = NoPrefix
      BY <1>5, <2>3, FinishType DEF DeployReread, TypeOK
    <2>4. QED
      BY <2>2, <2>3
  <1>6. CASE DeployNew(r)
    <2>1. task[r].class \in Classes /\ task[r].prefix \in Prefixes
      BY <1>0, <1>6 DEF DeployNew, At, Task
    <2>2. QED
      BY <1>6, <2>1, FillType, ToRowsType DEF DeployNew, TypeOK
  <1>7. CASE DeployFails(r)
    <2>1. task[r].class \in Classes /\ task[r].prefix \in Prefixes
      BY <1>0, <1>7 DEF DeployFails, At, Task
    <2>2. QED
      BY <1>7, <2>1, FillType, FinishType DEF DeployFails, TypeOK
  <1>8. CASE DeployAdd(r)
    BY <1>8, ToRowsType, FinishType DEF DeployAdd, TypeOK
  <1>9. CASE RowsCommit(r)
    <2>1. task[r].class \in Classes /\ task[r].ranges \in SUBSET Prefixes
      BY <1>0, <1>9 DEF RowsCommit, At, Task, Fields
    <2>2. listed' \in [Classes -> SUBSET Prefixes]
      BY <1>9, <2>1 DEF RowsCommit, TypeOK
    <2>3. QED
      BY <1>9, <2>2, FinishType DEF RowsCommit, TypeOK
  <1>10. QED
    BY <1>1, <1>2, <1>3, <1>4, <1>5, <1>6, <1>7, <1>8, <1>9 DEF Deploy

LEMMA DeleteTypeStep ==
    ASSUME TypeOK, NEW r \in Requests, Delete(r)
    PROVE  TypeOK'
  <1>0. task[r] \in Task
    BY DEF TypeOK
  <1>1. ASSUME NEW c \in Classes, NEW force \in BOOLEAN, DeleteRead(r, c, force)
        PROVE  TypeOK'
    <2> DEFINE new == [Idle EXCEPT !.pc = "delete", !.class = c, !.ranges = listed[c],
                                   !.force = force]
    <2>1. listed[c] \in SUBSET Prefixes
      BY DEF TypeOK
    <2>2. new \in Task
      BY <2>1 DEF Idle, Task, Fields, PC
    <2>3. Become(r, new)
      BY <1>1 DEF DeleteRead
    <2> HIDE DEF new
    <2>4. QED
      BY <1>1, <2>2, <2>3, BecomeType DEF DeleteRead, TypeOK
  <1>2. CASE DeleteCommit(r)
    <2>1. task[r].class \in Classes
      BY <1>2, TaskClass DEF DeleteCommit, At
    <2>2. task' \in [Requests -> Task]
      BY <1>2, <2>1, GotoType, FinishType DEF DeleteCommit
    <2>3. prefix' \in [Classes -> Prefixes \cup {NoPrefix}]
      BY <1>2, <2>1 DEF DeleteCommit, TypeOK
    <2>4. listed' \in [Classes -> SUBSET Prefixes]
      BY <1>2, <2>1 DEF DeleteCommit, TypeOK
    <2>5. QED
      BY <1>2, <2>2, <2>3, <2>4 DEF DeleteCommit, TypeOK
  <1>3. ASSUME NEW p \in Prefixes, Destroy(r, p) \/ DestroyFails(r, p)
        PROVE  TypeOK'
    <2> DEFINE new == [task[r] EXCEPT !.ranges = @ \ {p}]
    <2>1. new \in Task
      BY <1>0 DEF Task, Fields
    <2>2. Become(r, new)
      BY <1>3 DEF Destroy, DestroyFails
    <2>3. made' \in [Prefixes -> VmRange]
      <3>1. NoVms \in VmRange
        BY DEF NoVms, VmRange
      <3>2. made' = [made EXCEPT ![p] = NoVms] \/ made' = made
        BY <1>3 DEF Destroy, DestroyFails
      <3>3. QED
        BY <3>1, <3>2 DEF TypeOK
    <2> HIDE DEF new
    <2>4. QED
      BY <1>3, <2>1, <2>2, <2>3, BecomeType DEF Destroy, DestroyFails, TypeOK
  <1>4. CASE DeleteReply(r)
    BY <1>4, FinishType DEF DeleteReply, TypeOK
  <1>5. QED
    BY <1>1, <1>2, <1>3, <1>4 DEF Delete

LEMMA TypeStep == TypeOK /\ [Next]_vars => TypeOK'
  <1> SUFFICES ASSUME TypeOK, [Next]_vars
               PROVE  TypeOK'
    OBVIOUS
  <1>1. CASE UNCHANGED vars
    BY <1>1 DEF TypeOK, vars
  <1>2. ASSUME NEW r \in Requests, LockTimeout(r)
        PROVE  TypeOK'
    BY <1>2, FinishType DEF LockTimeout, TypeOK
  <1>3. QED
    BY <1>1, <1>2, CreateTypeStep, DeployTypeStep, DeleteTypeStep DEF Next

(* The tables and every request keep their types.
   (class_service.py create_class, class_vm_service.py, class_api.py)        *)
THEOREM TypeCorrect == Spec => []TypeOK
  <1>1. Init => TypeOK
    BY IdleType DEF Init, TypeOK, NoVms, VmRange
  <1>2. QED
    BY <1>1, TypeStep, PTL DEF Spec

-----------------------------------------------------------------------------
(* Discipline.  Every step is of one request r and one of five kinds; only two
   of them write the tables stored and prefix, and both need the write lock.  *)

Others(r) == \A q \in Requests : q # r => task'[q] = task[q]
Outside(r) == task[r].pc \notin Locked /\ task'[r].pc \notin Locked

Quiet(r)   == Outside(r) /\ UNCHANGED <<stored, prefix, writer>>
Writes(r)  == /\ Outside(r) /\ LockFree /\ UNCHANGED writer
              /\ stored' \subseteq stored
Takes(r)   == /\ LockFree /\ writer' = r /\ UNCHANGED <<stored, prefix>>
              /\ task'[r].pc = "create_pick" /\ task'[r].class \notin stored
Picks(r)   == /\ task[r].pc = "create_pick" /\ task'[r].pc = "create_commit"
              /\ task'[r].class = task[r].class /\ task'[r].prefix \notin Used
              /\ UNCHANGED <<stored, prefix, writer>>
Commits(r) == /\ task[r].pc = "create_commit" /\ task'[r].pc \notin Locked
              /\ writer' = NoRequest
              /\ stored' = stored \cup {task[r].class}
              /\ prefix' = [prefix EXCEPT ![task[r].class] = task[r].prefix]
Aborts(r)  == /\ task[r].pc \in Locked /\ task'[r].pc \notin Locked
              /\ writer' = NoRequest /\ UNCHANGED <<stored, prefix>>

Disciplined(r) == Others(r) /\ (\/ Quiet(r) \/ Writes(r) \/ Takes(r)
                                \/ Picks(r) \/ Commits(r) \/ Aborts(r))

LEMMA FinishOutside ==
    ASSUME TypeOK, NEW r \in Requests, Finish(r)
    PROVE  Others(r) /\ task'[r].pc \notin Locked
  BY BecomeIs, IdleType DEF Finish, Others, Locked

LEMMA GotoIs ==
    ASSUME TypeOK, NEW r \in Requests, NEW pc, Goto(r, pc)
    PROVE  Others(r) /\ task'[r].pc = pc
  <1>1. ([task[r] EXCEPT !.pc = pc]).pc = pc
    BY DEF TypeOK, Task, Fields
  <1>2. QED
    BY <1>1, BecomeIs DEF Goto, Others

LEMMA CreateDisciplined ==
    ASSUME TypeOK, NEW r \in Requests, Create(r)
    PROVE  Disciplined(r)
  <1>0. task[r] \in Task
    BY DEF TypeOK
  <1>1. CASE CreateStart(r)
    BY <1>1, GotoIs DEF CreateStart, Start, At, Disciplined, Quiet, Outside, Locked
  <1>2. ASSUME NEW c \in Classes, CreateFlush(r, c)
        PROVE  Disciplined(r)
    <2> DEFINE new == [task[r] EXCEPT !.pc = "create_pick", !.class = c]
    <2>1. new.pc = "create_pick" /\ new.class = c
      BY <1>0 DEF Task, Fields
    <2>2. Become(r, new)
      BY <1>2 DEF CreateFlush
    <2> HIDE DEF new
    <2>3. task'[r] = new /\ Others(r)
      BY <2>2, BecomeIs DEF Others
    <2>4. c \notin stored
      BY <1>2 DEF CreateFlush, NextId, Classes
    <2>5. QED
      BY <1>2, <2>1, <2>3, <2>4 DEF CreateFlush, Disciplined, Takes
  <1>3. ASSUME NEW p \in Prefixes \cup {NoPrefix}, CreatePick(r, p)
        PROVE  Disciplined(r)
    <2> DEFINE new == [task[r] EXCEPT !.pc = "create_commit", !.prefix = p]
    <2>1. new.pc = "create_commit" /\ new.class = task[r].class /\ new.prefix = p
      BY <1>0 DEF Task, Fields
    <2>2. Become(r, new)
      BY <1>3 DEF CreatePick
    <2> HIDE DEF new
    <2>3. task'[r] = new /\ Others(r)
      BY <2>2, BecomeIs DEF Others
    <2>4. QED
      BY <1>3, <2>1, <2>3 DEF CreatePick, At, Disciplined, Picks
  <1>4. CASE CreateCommit(r)
    BY <1>4, GotoIs DEF CreateCommit, At, Disciplined, Commits, Locked
  <1>5. CASE CreateLocked(r)
    BY <1>5, GotoIs DEF CreateLocked, At, Disciplined, Quiet, Outside, Locked
  <1>6. CASE CreateReply(r)
    BY <1>6, FinishOutside DEF CreateReply, At, Disciplined, Quiet, Outside, Locked
  <1>7. CASE Rollback(r)
    BY <1>7, FinishOutside DEF Rollback, Disciplined, Aborts
  <1>8. QED
    BY <1>1, <1>2, <1>3, <1>4, <1>5, <1>6, <1>7 DEF Create

(* The requests that read: whatever they become, it is outside.              *)
LEMMA ReadQuiet ==
    ASSUME TypeOK, NEW r \in Requests, task[r].pc \notin Locked, NEW new,
           new.pc \notin Locked, Become(r, new), UNCHANGED <<stored, prefix, writer>>
    PROVE  Disciplined(r)
  BY BecomeIs DEF Disciplined, Others, Quiet, Outside

LEMMA ToRowsIs ==
    ASSUME TypeOK, NEW r \in Requests, ToRows(r)
    PROVE  Others(r) /\ task'[r].pc = "rows"
  <1> DEFINE new == [task[r] EXCEPT !.pc = "rows", !.ranges = {task[r].prefix}]
  <1>1. new.pc = "rows"
    BY DEF TypeOK, Task, Fields
  <1>2. Become(r, new)
    BY DEF ToRows
  <1> HIDE DEF new
  <1>3. QED
    BY <1>1, <1>2, BecomeIs DEF Others

LEMMA DeployDisciplined ==
    ASSUME TypeOK, NEW r \in Requests, Deploy(r)
    PROVE  Disciplined(r)
  <1>0. task[r] \in Task
    BY DEF TypeOK
  <1>1. \A pc \in {"late", "form", "deploy"} : \A c, p :
           ([Idle EXCEPT !.pc = pc, !.class = c, !.prefix = p]).pc \notin Locked
    BY DEF Idle, Locked
  <1>2. ASSUME NEW c \in Classes, NEW p \in Prefixes,
               DeployWithoutPrefix(r, c, p) \/ FormWithoutPrefix(r, c, p)
        PROVE  Disciplined(r)
    <2>1. PICK pc \in {"late", "form"} :
             Become(r, [Idle EXCEPT !.pc = pc, !.class = c, !.prefix = p])
      BY <1>2 DEF DeployWithoutPrefix, FormWithoutPrefix
    <2> DEFINE new == [Idle EXCEPT !.pc = pc, !.class = c, !.prefix = p]
    <2>2. new.pc \notin Locked /\ Become(r, new)
      BY <1>1, <2>1
    <2> HIDE DEF new
    <2>3. QED
      BY <1>2, <2>2, ReadQuiet
         DEF DeployWithoutPrefix, FormWithoutPrefix, Start, At, Locked
  <1>3. ASSUME NEW c \in Classes, DeployStart(r, c)
        PROVE  Disciplined(r)
    <2> DEFINE new == [Idle EXCEPT !.pc = "deploy", !.class = c, !.prefix = prefix[c]]
    <2>1. new.pc \notin Locked /\ Become(r, new)
      BY <1>1, <1>3 DEF DeployStart
    <2> HIDE DEF new
    <2>2. QED
      BY <1>3, <2>1, ReadQuiet DEF DeployStart, Start, At, Locked
  <1>4. CASE PrefixCommit(r)
    <2>1. Others(r) /\ task'[r].pc \notin Locked
      BY <1>4, GotoIs, FinishOutside DEF PrefixCommit, Locked
    <2>2. QED
      BY <1>4, <2>1 DEF PrefixCommit, Disciplined, Writes, Outside, Locked
  <1>5. CASE DeployReread(r)
    <2> DEFINE new == [task[r] EXCEPT !.pc = "deploy", !.prefix = prefix[task[r].class]]
    <2>1. new.pc \notin Locked
      BY <1>0 DEF Task, Fields, Locked
    <2>2. Become(r, new) \/ Finish(r)
      BY <1>5 DEF DeployReread
    <2> HIDE DEF new
    <2>3. CASE Become(r, new)
      BY <1>5, <2>1, <2>3, ReadQuiet DEF DeployReread, At, Locked
    <2>4. CASE Finish(r)
      BY <1>5, <2>4, FinishOutside DEF DeployReread, At, Disciplined, Quiet, Outside, Locked
    <2>5. QED
      BY <2>2, <2>3, <2>4
  <1>6. CASE DeployNew(r) \/ DeployFails(r) \/ DeployAdd(r)
    <2>1. Others(r) /\ task'[r].pc \notin Locked
      BY <1>6, ToRowsIs, FinishOutside DEF DeployNew, DeployFails, DeployAdd, Locked
    <2>2. QED
      BY <1>6, <2>1 DEF DeployNew, DeployFails, DeployAdd, At, Disciplined, Quiet,
                        Outside, Locked
  <1>7. CASE RowsCommit(r)
    BY <1>7, FinishOutside DEF RowsCommit, At, Disciplined, Quiet, Outside, Locked
  <1>8. QED
    BY <1>2, <1>3, <1>4, <1>5, <1>6, <1>7 DEF Deploy

LEMMA DeleteDisciplined ==
    ASSUME TypeOK, NEW r \in Requests, Delete(r)
    PROVE  Disciplined(r)
  <1>0. task[r] \in Task
    BY DEF TypeOK
  <1>1. ASSUME NEW c \in Classes, NEW force \in BOOLEAN, DeleteRead(r, c, force)
        PROVE  Disciplined(r)
    <2> DEFINE new == [Idle EXCEPT !.pc = "delete", !.class = c, !.ranges = listed[c],
                                   !.force = force]
    <2>1. new.pc \notin Locked
      BY DEF Idle, Locked
    <2>2. Become(r, new)
      BY <1>1 DEF DeleteRead
    <2> HIDE DEF new
    <2>3. QED
      BY <1>1, <2>1, <2>2, ReadQuiet DEF DeleteRead, Start, At, Locked
  <1>2. CASE DeleteCommit(r)
    <2>1. Others(r) /\ task'[r].pc \notin Locked
      BY <1>2, GotoIs, FinishOutside DEF DeleteCommit, Locked
    <2>2. stored' \subseteq stored
      BY <1>2 DEF DeleteCommit
    <2>3. QED
      BY <1>2, <2>1, <2>2 DEF DeleteCommit, At, Disciplined, Writes, Outside, Locked
  <1>3. ASSUME NEW p \in Prefixes, Destroy(r, p) \/ DestroyFails(r, p)
        PROVE  Disciplined(r)
    <2> DEFINE new == [task[r] EXCEPT !.ranges = @ \ {p}]
    <2>1. new.pc = task[r].pc
      BY <1>0 DEF Task, Fields
    <2>2. Become(r, new) /\ task[r].pc = "destroy"
      BY <1>3 DEF Destroy, DestroyFails, At
    <2> HIDE DEF new
    <2>3. QED
      BY <1>3, <2>1, <2>2, ReadQuiet DEF Destroy, DestroyFails, Locked
  <1>4. CASE DeleteReply(r)
    BY <1>4, FinishOutside DEF DeleteReply, At, Disciplined, Quiet, Outside, Locked
  <1>5. QED
    BY <1>1, <1>2, <1>3, <1>4 DEF Delete

LEMMA StepDisciplined == TypeOK /\ Next => \E r \in Requests : Disciplined(r)
  <1> SUFFICES ASSUME TypeOK, Next
               PROVE  \E r \in Requests : Disciplined(r)
    OBVIOUS
  <1>1. ASSUME NEW r \in Requests, LockTimeout(r)
        PROVE  Disciplined(r)
    BY <1>1, FinishOutside DEF LockTimeout, Flushing, Locked, Disciplined, Quiet, Outside
  <1>2. QED
    BY <1>1, CreateDisciplined, DeployDisciplined, DeleteDisciplined DEF Next

-----------------------------------------------------------------------------
(* The invariant.                                                            *)

LEMMA LockStep ==
    ASSUME TypeOK, LockInv, NEW r \in Requests, Disciplined(r)
    PROVE  LockInv'
  <1> SUFFICES ASSUME NEW q \in Requests
               PROVE  task'[q].pc \in Locked <=> writer' = q
    BY DEF LockInv
  <1>1. task[q].pc \in Locked <=> writer = q
    BY DEF LockInv
  <1>2. task[r].pc \in Locked <=> writer = r
    BY DEF LockInv
  <1>3. NoRequest # q
    BY PrefixAssumption
  <1>4. CASE Quiet(r) \/ Writes(r)
    BY <1>1, <1>4 DEF Disciplined, Others, Quiet, Writes, Outside
  <1>5. CASE Takes(r)
    BY <1>1, <1>3, <1>5 DEF Disciplined, Others, Takes, LockFree, Locked
  <1>6. CASE Picks(r)
    BY <1>1, <1>2, <1>6 DEF Disciplined, Others, Picks, Locked
  <1>7. CASE Commits(r) \/ Aborts(r)
    BY <1>1, <1>2, <1>3, <1>7 DEF Disciplined, Others, Commits, Aborts, Locked
  <1>8. QED
    BY <1>4, <1>5, <1>6, <1>7 DEF Disciplined

(* While q is inside its transaction, nobody else touches the two tables.    *)
LEMMA InsideProtected ==
    ASSUME TypeOK, LockInv, NEW r \in Requests, Disciplined(r), NEW q \in Requests,
           q # r, task[q].pc \in Locked
    PROVE  UNCHANGED <<stored, prefix>> /\ task'[q] = task[q]
  <1>1. writer = q /\ writer # NoRequest
    BY PrefixAssumption DEF LockInv
  <1>2. ~(task[r].pc \in Locked)
    BY <1>1 DEF LockInv
  <1>3. Quiet(r)
    BY <1>1, <1>2 DEF Disciplined, Writes, Takes, Picks, Commits, Aborts, LockFree, Locked
  <1>4. QED
    BY <1>3 DEF Quiet, Disciplined, Others

LEMMA AllocStep == TypeOK /\ AllocInv /\ [Next]_vars => AllocInv'
  <1> SUFFICES ASSUME TypeOK, AllocInv, [Next]_vars
               PROVE  AllocInv'
    OBVIOUS
  <1>1. CASE UNCHANGED vars
    BY <1>1 DEF vars, AllocInv, LockInv, FreshInv, PickedUnused, At, Used
  <1>2. CASE Next
    <2>1. PICK r \in Requests : Disciplined(r)
      BY <1>2, StepDisciplined
    <2>2. LockInv'
      BY <2>1, LockStep DEF AllocInv
    <2>3. ASSUME NEW q \in Requests, task'[q].pc \in Locked
          PROVE  /\ task'[q].class \notin stored'
                 /\ task'[q].pc = "create_commit" => task'[q].prefix \notin Used'
      <3>1. CASE q # r
        <4>1. task'[q] = task[q]
          BY <2>1, <3>1 DEF Disciplined, Others
        <4>2. UNCHANGED <<stored, prefix>>
          BY <2>1, <2>3, <3>1, <4>1, InsideProtected DEF AllocInv
        <4>3. QED
          BY <2>3, <4>1, <4>2 DEF AllocInv, FreshInv, PickedUnused, At, Used, Locked
      <3>2. CASE q = r
        <4>1. Takes(r) \/ Picks(r)
          BY <2>1, <2>3, <3>2 DEF Disciplined, Quiet, Writes, Outside, Commits, Aborts
        <4>2. QED
          BY <2>3, <3>2, <4>1 DEF Takes, Picks, AllocInv, FreshInv, At, Used
      <3>3. QED
        BY <3>1, <3>2
    <2>4. QED
      BY <2>2, <2>3 DEF AllocInv, FreshInv, PickedUnused, At, Locked
  <1>3. QED
    BY <1>1, <1>2

(* The prefix create_class has chosen is unused until it commits, whatever the
   other allocators do.  (class_service.py, create_class)                    *)
THEOREM ChosenStaysUnused == Spec => []AllocInv
  <1>1. Init => AllocInv
    BY IdleType, PrefixAssumption
       DEF Init, AllocInv, LockInv, FreshInv, PickedUnused, At, Locked
  <1>2. QED
    BY <1>1, TypeCorrect, AllocStep, PTL DEF Spec

(* Only the commit of create_class adds a class, and its prefix is unused.   *)
LEMMA AddedIsUnique ==
    ASSUME TypeOK, AllocInv, [Next]_vars, stored' \ stored # {}, PrefixesUnique
    PROVE  PrefixesUnique'
  <1>1. PICK r \in Requests : Disciplined(r)
    BY StepDisciplined DEF vars
  <1>2. Commits(r)
    BY <1>1 DEF Disciplined, Quiet, Writes, Takes, Picks, Aborts
  <1> DEFINE c == task[r].class
             p == task[r].prefix
  <1>3. c \in Classes
    BY <1>2, TaskClass DEF Commits
  <1>4. p \notin Used
    BY <1>2 DEF Commits, AllocInv, PickedUnused, At
  <1>5. prefix'[c] = p /\ \A d \in Classes : d # c => prefix'[d] = prefix[d]
    BY <1>2, <1>3 DEF Commits, TypeOK
  <1>6. SUFFICES ASSUME NEW d \in stored', NEW e \in stored',
                        prefix'[d] = prefix'[e], prefix'[d] # NoPrefix
                 PROVE  d = e
    BY DEF PrefixesUnique
  <1>7. d \in stored \cup {c} /\ e \in stored \cup {c} /\ stored \subseteq Classes
    BY <1>2 DEF Commits, TypeOK
  <1>8. CASE d # c /\ e # c
    BY <1>5, <1>6, <1>7, <1>8 DEF PrefixesUnique
  <1>9. CASE d = c /\ e # c
    BY <1>4, <1>5, <1>6, <1>7, <1>9 DEF Used
  <1>10. CASE d # c /\ e = c
    BY <1>4, <1>5, <1>6, <1>7, <1>10 DEF Used
  <1>11. QED
    BY <1>8, <1>9, <1>10

(* No commit of a new class causes a duplicate prefix.
   (class_service.py, create_class)                                          *)
THEOREM NewClassIsUnique == Spec => CreateKeepsUnique
  <1>1. TypeOK /\ AllocInv /\ [Next]_vars
           => [stored' \ stored # {} /\ PrefixesUnique => PrefixesUnique']_vars
    BY AddedIsUnique
  <1>2. QED
    BY <1>1, TypeCorrect, ChosenStaysUnused, PTL DEF Spec, CreateKeepsUnique

-----------------------------------------------------------------------------
(* Requests one at a time, without failures, forced deletions and the form:
   the range of a class from its creation to its deletion.                   *)

OneByOneOps == Ops \subseteq {"create", "deploy", "delete"}

(* What a request has read is still so: nobody else is there to change it.   *)
AloneFit(t) ==
    /\ t.pc # "form"
    /\ t.pc \in {"late", "reread", "deploy", "rows", "delete"} => t.class \in stored
    /\ t.pc = "late" => /\ t.prefix \notin Used /\ made[t.prefix] = NoVms
                        /\ prefix[t.class] = NoPrefix
    /\ t.pc \in {"deploy", "rows"} => prefix[t.class] = t.prefix
    /\ t.pc = "rows" => t.ranges = {t.prefix}
    /\ t.pc = "delete" => t.ranges = listed[t.class] /\ ~t.force
    /\ t.pc = "destroy" => t.ranges \cap Used = {}

(* The rows of a class name its own range, those of no class none.           *)
ListedByPrefix ==
    \A c \in Classes : \A p \in listed[c] : c \in stored /\ p = prefix[c]

(* The VMs of a range are listed by the class they were made for, are about to
   be, or are being destroyed.                                               *)
Accounted(p) ==
    \/ \E c \in stored : p \in listed[c] /\ made[p].class = c
    \/ \E r \in Requests : /\ task[r].pc = "rows" /\ p \in task[r].ranges
                           /\ made[p].class = task[r].class
    \/ \E r \in Requests : task[r].pc = "destroy" /\ p \in task[r].ranges
VmsAccounted == \A p \in Prefixes : made[p] # NoVms => Accounted(p)

AloneInv == /\ PrefixesUnique /\ ListedByPrefix /\ VmsAccounted
            /\ \A r \in Requests : AloneFit(task[r])

(* The record of request r after a step.                                     *)
Left(r, pc, c, p, ranges, force) ==
    /\ task'[r].pc = pc /\ task'[r].class = c /\ task'[r].prefix = p
    /\ task'[r].ranges = ranges /\ task'[r].force = force

LEMMA FinishLeaves ==
    ASSUME TypeOK, NEW r \in Requests, Finish(r)
    PROVE  Left(r, "idle", NoClass, NoPrefix, {}, FALSE)
  BY FinishType DEF Left, Idle

LEMMA GotoLeaves ==
    ASSUME TypeOK, NEW r \in Requests, NEW pc, Goto(r, pc)
    PROVE  Left(r, pc, task[r].class, task[r].prefix, task[r].ranges, task[r].force)
  <1>1. task'[r] = [task[r] EXCEPT !.pc = pc]
    BY BecomeIs DEF Goto
  <1>2. task[r] \in Fields
    BY DEF TypeOK, Task
  <1>3. QED
    BY <1>1, <1>2 DEF Left, Fields

LEMMA ToRowsLeaves ==
    ASSUME TypeOK, NEW r \in Requests, ToRows(r)
    PROVE  Left(r, "rows", task[r].class, task[r].prefix, {task[r].prefix}, task[r].force)
  <1>1. task'[r] = [task[r] EXCEPT !.pc = "rows", !.ranges = {task[r].prefix}]
    BY BecomeIs DEF ToRows
  <1>2. task[r] \in Fields
    BY DEF TypeOK, Task
  <1>3. QED
    BY <1>1, <1>2 DEF Left, Fields

(* With one request the lock is free whenever that request has not got it.   *)
LEMMA AloneLockFree ==
    ASSUME TypeOK, AllocInv, NEW q, Requests = {q}, task[q].pc \notin Locked
    PROVE  LockFree
  BY DEF TypeOK, AllocInv, LockInv, LockFree

(* A step that leaves classes, rows and VMs as they are, of a request that was
   not about to list or destroy any.                                         *)
LEMMA AloneRead ==
    ASSUME AloneInv, NEW q, Requests = {q}, UNCHANGED <<stored, prefix, listed, made>>,
           task[q].pc \notin {"rows", "destroy"}, AloneFit(task[q])'
    PROVE  AloneInv'
  <1>1. \A p \in Prefixes : made[p] # NoVms =>
           \E c \in stored : p \in listed[c] /\ made[p].class = c
    BY DEF AloneInv, VmsAccounted, Accounted
  <1>2. VmsAccounted'
    BY <1>1 DEF VmsAccounted, Accounted
  <1>3. PrefixesUnique' /\ ListedByPrefix'
    BY DEF AloneInv, PrefixesUnique, ListedByPrefix
  <1>4. QED
    BY <1>2, <1>3 DEF AloneInv

LEMMA CreateAlone ==
    ASSUME TypeOK, AllocInv, AloneInv, NEW q, Requests = {q}, Create(q), [Next]_vars
    PROVE  AloneInv'
  <1>0. task[q] \in Fields /\ q \in Requests
    BY DEF TypeOK, Task
  <1>1. CASE CreateStart(q)
    <2>1. AloneFit(task[q])'
      BY <1>0, <1>1, GotoLeaves DEF CreateStart, Left, AloneFit
    <2>2. QED
      BY <1>1, <2>1, AloneRead DEF CreateStart, Start, At
  <1>2. ASSUME NEW c \in Classes, CreateFlush(q, c)
        PROVE  AloneInv'
    <2>1. task'[q] = [task[q] EXCEPT !.pc = "create_pick", !.class = c]
      BY <1>0, <1>2, BecomeIs DEF CreateFlush
    <2>2. task'[q].pc = "create_pick"
      BY <1>0, <2>1 DEF Fields
    <2>3. AloneFit(task[q])'
      BY <2>2 DEF AloneFit
    <2>4. QED
      BY <1>2, <2>3, AloneRead DEF CreateFlush, At
  <1>3. ASSUME NEW p \in Prefixes \cup {NoPrefix}, CreatePick(q, p)
        PROVE  AloneInv'
    <2>1. task'[q] = [task[q] EXCEPT !.pc = "create_commit", !.prefix = p]
      BY <1>0, <1>3, BecomeIs DEF CreatePick
    <2>2. task'[q].pc = "create_commit"
      BY <1>0, <2>1 DEF Fields
    <2>3. AloneFit(task[q])'
      BY <2>2 DEF AloneFit
    <2>4. QED
      BY <1>3, <2>3, AloneRead DEF CreatePick, At
  <1>4. CASE CreateCommit(q)
    <2> DEFINE c == task[q].class
    <2>1. /\ stored' = stored \cup {c} /\ prefix' = [prefix EXCEPT ![c] = task[q].prefix]
          /\ UNCHANGED <<listed, made>> /\ At(q, "create_commit")
      BY <1>4 DEF CreateCommit
    <2>2. c \in Classes \ stored
      BY <1>0, <2>1, TaskClass DEF AllocInv, PickedUnused, At
    <2>3. PrefixesUnique'
      BY <2>1, <2>2, AddedIsUnique DEF AloneInv
    <2>4. ListedByPrefix'
      BY <2>1, <2>2 DEF AloneInv, ListedByPrefix, TypeOK
    <2>5. VmsAccounted'
      <3>1. \A p \in Prefixes : made[p] # NoVms =>
               \E d \in stored : p \in listed[d] /\ made[p].class = d
        BY <2>1 DEF AloneInv, VmsAccounted, Accounted, At
      <3>2. QED
        BY <2>1, <3>1 DEF VmsAccounted, Accounted
    <2>6. AloneFit(task[q])'
      BY <1>0, <1>4, GotoLeaves DEF CreateCommit, Left, AloneFit
    <2>7. QED
      BY <2>3, <2>4, <2>5, <2>6 DEF AloneInv
  <1>5. ~CreateLocked(q)
    BY AloneLockFree DEF CreateLocked, At, Locked
  <1>6. CASE CreateReply(q) \/ Rollback(q)
    <2>1. AloneFit(task[q])'
      BY <1>0, <1>6, FinishLeaves DEF CreateReply, Rollback, Left, AloneFit
    <2>2. QED
      BY <1>6, <2>1, AloneRead DEF CreateReply, Rollback, At, Locked
  <1>7. QED
    BY <1>1, <1>2, <1>3, <1>4, <1>5, <1>6 DEF Create

LEMMA DeployAlone ==
    ASSUME TypeOK, TypeOK', AllocInv, OneByOneOps, AloneInv, NEW q, Requests = {q}, Deploy(q)
    PROVE  AloneInv'
  <1>0. task[q] \in Fields /\ q \in Requests /\ AloneFit(task[q])
    BY DEF TypeOK, Task, AloneInv
  <1> DEFINE c == task[q].class
             p == task[q].prefix
  <1>1. ASSUME NEW d \in Classes, NEW x \in Prefixes, DeployWithoutPrefix(q, d, x)
        PROVE  AloneInv'
    <2>1. task'[q] = [Idle EXCEPT !.pc = "late", !.class = d, !.prefix = x]
      BY <1>0, <1>1, BecomeIs DEF DeployWithoutPrefix
    <2>2. task'[q].pc = "late" /\ task'[q].class = d /\ task'[q].prefix = x
      BY <2>1 DEF Idle
    <2>3. AloneFit(task[q])'
      BY <1>1, <2>2 DEF AloneFit, DeployWithoutPrefix, Used
    <2>4. QED
      BY <1>1, <2>3, AloneRead DEF DeployWithoutPrefix, Start, At
  <1>2. \A d \in Classes, x \in Prefixes : ~FormWithoutPrefix(q, d, x)
    BY DEF FormWithoutPrefix, Start, OneByOneOps
  <1>3. ASSUME NEW d \in Classes, DeployStart(q, d)
        PROVE  AloneInv'
    <2>1. task'[q] = [Idle EXCEPT !.pc = "deploy", !.class = d, !.prefix = prefix[d]]
      BY <1>0, <1>3, BecomeIs DEF DeployStart
    <2>2. task'[q].pc = "deploy" /\ task'[q].class = d /\ task'[q].prefix = prefix[d]
      BY <2>1 DEF Idle
    <2>3. AloneFit(task[q])'
      BY <1>3, <2>2 DEF AloneFit, DeployStart
    <2>4. QED
      BY <1>3, <2>3, AloneRead DEF DeployStart, Start, At
  <1>4. CASE PrefixCommit(q)
    <2>1. /\ task[q].pc = "late" /\ c \in stored /\ c \in Classes
          /\ p \notin Used /\ made[p] = NoVms /\ prefix[c] = NoPrefix
      BY <1>0, <1>4 DEF PrefixCommit, AloneFit, TypeOK
    <2>2. /\ prefix' = [prefix EXCEPT ![c] = p] /\ UNCHANGED <<stored, listed, made>>
          /\ Goto(q, "reread")
      BY <1>4, <2>1 DEF PrefixCommit
    <2>3. PrefixesUnique'
      <3>1. prefix'[c] = p /\ \A d \in Classes \ {c} : prefix'[d] = prefix[d]
        BY <2>1, <2>2 DEF TypeOK
      <3>2. \A d \in stored : prefix[d] = p => p = NoPrefix
        BY <2>1 DEF Used
      <3>3. QED
        BY <2>1, <2>2, <3>1, <3>2 DEF AloneInv, PrefixesUnique, TypeOK
    <2>4. ListedByPrefix'
      <3>1. listed[c] = {}
        BY <2>1, PrefixAssumption DEF AloneInv, ListedByPrefix, TypeOK
      <3>2. QED
        BY <2>1, <2>2, <3>1 DEF AloneInv, ListedByPrefix, TypeOK
    <2>5. VmsAccounted'
      BY <2>1, <2>2 DEF AloneInv, VmsAccounted, Accounted
    <2>6. AloneFit(task[q])'
      BY <1>0, <2>1, <2>2, GotoLeaves DEF Left, AloneFit
    <2>7. QED
      BY <2>3, <2>4, <2>5, <2>6 DEF AloneInv
  <1>5. CASE DeployReread(q)
    <2>1. CASE Become(q, [task[q] EXCEPT !.pc = "deploy", !.prefix = prefix[c]])
      <3>1. task'[q] = [task[q] EXCEPT !.pc = "deploy", !.prefix = prefix[c]]
        BY <1>0, <2>1, BecomeIs
      <3>2. task'[q].pc = "deploy" /\ task'[q].class = c /\ task'[q].prefix = prefix[c]
        BY <1>0, <3>1 DEF Fields
      <3>3. AloneFit(task[q])'
        BY <1>0, <1>5, <3>2 DEF AloneFit, DeployReread, At
      <3>4. QED
        BY <1>5, <3>3, AloneRead DEF DeployReread, At
    <2>2. CASE Finish(q)
      <3>1. AloneFit(task[q])'
        BY <1>0, <2>2, FinishLeaves DEF Left, AloneFit
      <3>2. QED
        BY <1>5, <3>1, AloneRead DEF DeployReread, At
    <2>3. QED
      BY <1>5, <2>1, <2>2 DEF DeployReread
  <1>6. CASE DeployNew(q)
    <2>1. /\ task[q].pc = "deploy" /\ c \in stored /\ c \in Classes /\ prefix[c] = p
          /\ p \in Prefixes /\ listed[c] = {} /\ UNCHANGED <<stored, prefix, listed>>
          /\ made' = Fill(p, c, TRUE) /\ ToRows(q)
      BY <1>0, <1>6 DEF DeployNew, At, Adding, AloneFit, TypeOK, Task
    <2>2. \A x \in Prefixes : made[x] # NoVms =>
             \E d \in stored : x \in listed[d] /\ made[x].class = d
      BY <2>1 DEF AloneInv, VmsAccounted, Accounted
    <2>3. made[p] = NoVms
      <3>1. ASSUME NEW d \in stored, p \in listed[d]
            PROVE  d = c
        BY <2>1, <3>1, PrefixAssumption DEF AloneInv, ListedByPrefix, PrefixesUnique, TypeOK
      <3>2. QED
        BY <2>1, <2>2, <3>1
    <2>4. made'[p].class = c /\ \A x \in Prefixes \ {p} : made'[x] = made[x]
      BY <2>1, <2>3 DEF Fill, TypeOK
    <2>5. Left(q, "rows", c, p, {p}, task[q].force)
      BY <1>0, <2>1, ToRowsLeaves
    <2>6. VmsAccounted'
      <3> SUFFICES ASSUME NEW x \in Prefixes, made'[x] # NoVms
                   PROVE  Accounted(x)'
        BY DEF VmsAccounted
      <3>1. CASE x = p
        BY <1>0, <2>4, <2>5, <3>1 DEF Left, Accounted
      <3>2. CASE x # p
        BY <2>1, <2>2, <2>4, <3>2 DEF Accounted
      <3>3. QED
        BY <3>1, <3>2
    <2>7. AloneFit(task[q])'
      BY <2>1, <2>5 DEF Left, AloneFit
    <2>8. PrefixesUnique' /\ ListedByPrefix'
      BY <2>1 DEF AloneInv, PrefixesUnique, ListedByPrefix
    <2>9. QED
      BY <2>6, <2>7, <2>8 DEF AloneInv
  <1>7. ~DeployFails(q)
    BY DEF DeployFails, OneByOneOps
  <1>8. CASE DeployAdd(q)
    <2>1. AloneFit(task[q])'
      BY <1>0, <1>8, FinishLeaves, ToRowsLeaves DEF DeployAdd, Left, AloneFit, At
    <2>2. QED
      BY <1>8, <2>1, AloneRead DEF DeployAdd, At
  <1>9. CASE RowsCommit(q)
    <2>1. /\ task[q].pc = "rows" /\ c \in stored /\ c \in Classes /\ prefix[c] = p
          /\ listed' = [listed EXCEPT ![c] = @ \cup {p}] /\ UNCHANGED <<stored, prefix, made>>
          /\ task[q].ranges = {p}
      BY <1>0, <1>9 DEF RowsCommit, At, AloneFit, TypeOK
    <2>2. listed'[c] = listed[c] \cup {p} /\ \A d \in Classes \ {c} : listed'[d] = listed[d]
      BY <2>1 DEF TypeOK
    <2>3. ListedByPrefix'
      BY <2>1, <2>2 DEF AloneInv, ListedByPrefix
    <2>4. VmsAccounted'
      <3>1. ASSUME NEW x \in Prefixes, made[x] # NoVms
            PROVE  \E d \in stored : x \in listed'[d] /\ made[x].class = d
        <4>1. Accounted(x)
          BY <3>1 DEF AloneInv, VmsAccounted
        <4>2. CASE \E d \in stored : x \in listed[d] /\ made[x].class = d
          BY <2>1, <2>2, <4>2 DEF TypeOK
        <4>3. CASE x \in task[q].ranges /\ made[x].class = c
          BY <2>1, <2>2, <4>3
        <4>4. QED
          BY <2>1, <4>1, <4>2, <4>3 DEF Accounted
      <3>2. QED
        BY <2>1, <3>1 DEF VmsAccounted, Accounted
    <2>5. AloneFit(task[q])'
      BY <1>0, <1>9, FinishLeaves DEF RowsCommit, Left, AloneFit
    <2>6. PrefixesUnique'
      BY <2>1 DEF AloneInv, PrefixesUnique
    <2>7. QED
      BY <2>3, <2>4, <2>5, <2>6 DEF AloneInv
  <1>10. QED
    BY <1>1, <1>2, <1>3, <1>4, <1>5, <1>6, <1>7, <1>8, <1>9 DEF Deploy

LEMMA DeleteAlone ==
    ASSUME TypeOK, TypeOK', AllocInv, OneByOneOps, AloneInv, NEW q, Requests = {q}, Delete(q)
    PROVE  AloneInv'
  <1>0. task[q] \in Fields /\ q \in Requests /\ AloneFit(task[q])
    BY DEF TypeOK, Task, AloneInv
  <1> DEFINE c == task[q].class
             gone == task[q].ranges
  <1>1. ASSUME NEW d \in Classes, NEW force \in BOOLEAN, DeleteRead(q, d, force)
        PROVE  AloneInv'
    <2>1. ~force
      BY <1>1 DEF DeleteRead, Start, OneByOneOps
    <2>2. task'[q] = [Idle EXCEPT !.pc = "delete", !.class = d, !.ranges = listed[d],
                                  !.force = force]
      BY <1>0, <1>1, BecomeIs DEF DeleteRead
    <2>3. /\ task'[q].pc = "delete" /\ task'[q].class = d
          /\ task'[q].ranges = listed[d] /\ ~task'[q].force
      BY <2>1, <2>2 DEF Idle
    <2>4. AloneFit(task[q])'
      BY <1>1, <2>3 DEF AloneFit, DeleteRead
    <2>5. QED
      BY <1>1, <2>4, AloneRead DEF DeleteRead, Start, At
  <1>2. CASE DeleteCommit(q)
    <2>1. /\ task[q].pc = "delete" /\ c \in stored /\ c \in Classes /\ gone = listed[c]
          /\ stored' = stored \ {c} /\ prefix' = [prefix EXCEPT ![c] = NoPrefix]
          /\ listed' = [listed EXCEPT ![c] = @ \ gone] /\ UNCHANGED made
          /\ Goto(q, "destroy")
      BY <1>0, <1>2 DEF DeleteCommit, At, AloneFit, TypeOK
    <2>2. /\ listed'[c] = {} /\ \A d \in Classes \ {c} : listed'[d] = listed[d]
          /\ \A d \in Classes \ {c} : prefix'[d] = prefix[d]
      BY <2>1 DEF TypeOK
    <2>3. Left(q, "destroy", c, task[q].prefix, gone, task[q].force)
      BY <1>0, <2>1, GotoLeaves
    <2>4. PrefixesUnique' /\ ListedByPrefix'
      BY <2>1, <2>2 DEF AloneInv, PrefixesUnique, ListedByPrefix, TypeOK
    <2>5. VmsAccounted'
      <3>1. ASSUME NEW x \in Prefixes, made[x] # NoVms
            PROVE  x \in gone \/ \E d \in stored' : x \in listed'[d] /\ made[x].class = d
        <4>1. PICK d \in stored : x \in listed[d] /\ made[x].class = d
          BY <2>1, <3>1 DEF AloneInv, VmsAccounted, Accounted
        <4>2. QED
          BY <2>1, <2>2, <4>1 DEF TypeOK
      <3>2. QED
        BY <1>0, <2>1, <2>3, <3>1 DEF VmsAccounted, Accounted, Left
    <2>6. gone \cap Used' = {}
      <3>1. \A x \in gone : x = prefix[c] /\ x \in Prefixes
        BY <2>1 DEF AloneInv, ListedByPrefix, TypeOK
      <3>2. \A d \in stored' : prefix'[d] = prefix[d] /\ d \in stored /\ d # c
        BY <2>1, <2>2 DEF TypeOK
      <3>3. QED
        BY <2>1, <3>1, <3>2, PrefixAssumption DEF Used, AloneInv, PrefixesUnique
    <2>7. AloneFit(task[q])'
      BY <2>3, <2>6 DEF Left, AloneFit
    <2>8. QED
      BY <2>4, <2>5, <2>7 DEF AloneInv
  <1>3. ASSUME NEW x \in Prefixes, Destroy(q, x)
        PROVE  AloneInv'
    <2>1. /\ task[q].pc = "destroy" /\ made' = [made EXCEPT ![x] = NoVms]
          /\ UNCHANGED <<stored, prefix, listed>> /\ x \in gone
      BY <1>3 DEF Destroy, At
    <2>2. task'[q] = [task[q] EXCEPT !.ranges = @ \ {x}]
      BY <1>0, <1>3, BecomeIs DEF Destroy
    <2>3. task'[q].pc = "destroy" /\ task'[q].ranges = gone \ {x}
      BY <1>0, <2>1, <2>2 DEF Fields
    <2>4. made'[x] = NoVms /\ \A y \in Prefixes \ {x} : made'[y] = made[y]
      BY <2>1 DEF TypeOK
    <2>5. VmsAccounted'
      <3>1. ASSUME NEW y \in Prefixes, made'[y] # NoVms
            PROVE  Accounted(y)'
        <4>1. y # x /\ made'[y] = made[y] /\ Accounted(y)
          BY <2>4, <3>1 DEF AloneInv, VmsAccounted
        <4>2. \/ y \in gone
              \/ \E d \in stored : y \in listed[d] /\ made[y].class = d
          BY <2>1, <4>1 DEF Accounted
        <4>3. QED
          BY <1>0, <2>1, <2>3, <4>1, <4>2 DEF Accounted
      <3>2. QED
        BY <3>1 DEF VmsAccounted
    <2>6. AloneFit(task[q])'
      BY <1>0, <2>1, <2>3 DEF AloneFit, Used
    <2>7. PrefixesUnique' /\ ListedByPrefix'
      BY <2>1 DEF AloneInv, PrefixesUnique, ListedByPrefix
    <2>8. QED
      BY <2>5, <2>6, <2>7 DEF AloneInv
  <1>4. \A x \in Prefixes : ~DestroyFails(q, x)
    BY DEF DestroyFails, OneByOneOps
  <1>5. CASE DeleteReply(q)
    <2>1. /\ task[q].pc = "destroy" /\ gone = {} /\ UNCHANGED <<stored, prefix, listed, made>>
          /\ Left(q, "idle", NoClass, NoPrefix, {}, FALSE)
      BY <1>0, <1>5, FinishLeaves DEF DeleteReply, At
    <2>2. VmsAccounted'
      BY <2>1 DEF AloneInv, VmsAccounted, Accounted
    <2>3. AloneFit(task[q])' /\ PrefixesUnique' /\ ListedByPrefix'
      BY <2>1 DEF Left, AloneFit, AloneInv, PrefixesUnique, ListedByPrefix
    <2>4. QED
      BY <2>2, <2>3 DEF AloneInv
  <1>6. QED
    BY <1>1, <1>2, <1>3, <1>4, <1>5 DEF Delete

LEMMA AloneStep ==
    ASSUME TypeOK, TypeOK', AllocInv, OneByOneOps, AloneInv, NEW q, Requests = {q}, [Next]_vars
    PROVE  AloneInv'
  <1>1. CASE UNCHANGED vars
    BY <1>1 DEF vars, AloneInv, PrefixesUnique, ListedByPrefix, VmsAccounted, Accounted,
                AloneFit, Used
  <1>2. ~LockTimeout(q)
    BY AloneLockFree DEF LockTimeout, Flushing, Locked
  <1>3. QED
    BY <1>1, <1>2, CreateAlone, DeployAlone, DeleteAlone DEF Next

(* Which steps end in the reply of create_class.                             *)
LEMMA OnlyCommitReplies ==
    ASSUME TypeOK, NEW q, Requests = {q}, [Next]_vars, task[q].pc # "create_reply",
           task'[q].pc = "create_reply"
    PROVE  CreateCommit(q) \/ CreateLocked(q)
  <1>0. q \in Requests /\ task[q] \in Fields
    BY DEF TypeOK, Task
  <1>1. ASSUME NEW new, Become(q, new)
        PROVE  new.pc = "create_reply"
    BY <1>0, <1>1, BecomeIs
  <1>2. ~Finish(q)
    BY <1>0, FinishType, IdleType
  <1>3. ASSUME NEW pc, Goto(q, pc)
        PROVE  pc = "create_reply"
    BY <1>0, <1>3, GotoIs
  <1>4. ~ToRows(q)
    BY <1>0, ToRowsIs
  <1>5. \A c \in Classes : ~CreateFlush(q, c)
    <2>1. \A c : ([task[q] EXCEPT !.pc = "create_pick", !.class = c]).pc = "create_pick"
      BY <1>0 DEF Fields
    <2>2. QED
      BY <1>1, <2>1 DEF CreateFlush
  <1>6. \A p : ~CreatePick(q, p)
    <2>1. \A p : ([task[q] EXCEPT !.pc = "create_commit", !.prefix = p]).pc
                     = "create_commit"
      BY <1>0 DEF Fields
    <2>2. QED
      BY <1>1, <2>1 DEF CreatePick
  <1>7. \A c, p : ~DeployWithoutPrefix(q, c, p) /\ ~FormWithoutPrefix(q, c, p)
    <2>1. \A c, p : ([Idle EXCEPT !.pc = "late", !.class = c, !.prefix = p]).pc = "late"
      BY DEF Idle
    <2>2. \A c, p : ([Idle EXCEPT !.pc = "form", !.class = c, !.prefix = p]).pc = "form"
      BY DEF Idle
    <2>3. \A c, p : ~DeployWithoutPrefix(q, c, p)
      BY <1>1, <2>1 DEF DeployWithoutPrefix
    <2>4. QED
      BY <1>1, <2>2, <2>3 DEF FormWithoutPrefix
  <1>8. \A c : ~DeployStart(q, c)
    <2>1. \A c, p : ([Idle EXCEPT !.pc = "deploy", !.class = c, !.prefix = p]).pc = "deploy"
      BY DEF Idle
    <2>2. QED
      BY <1>1, <2>1 DEF DeployStart
  <1>9. ~DeployReread(q)
    <2>1. \A p : ([task[q] EXCEPT !.pc = "deploy", !.prefix = p]).pc = "deploy"
      BY <1>0 DEF Fields
    <2>2. QED
      BY <1>1, <1>2, <2>1 DEF DeployReread
  <1>10. \A c, force : ~DeleteRead(q, c, force)
    <2>1. \A c, p, f : ([Idle EXCEPT !.pc = "delete", !.class = c, !.ranges = p,
                                     !.force = f]).pc = "delete"
      BY DEF Idle
    <2>2. QED
      BY <1>1, <2>1 DEF DeleteRead
  <1>11. \A p : ~Destroy(q, p) /\ ~DestroyFails(q, p)
    <2>1. \A s : ([task[q] EXCEPT !.ranges = s]).pc = task[q].pc
      BY <1>0 DEF Fields
    <2>2. QED
      BY <1>1, <2>1 DEF Destroy, DestroyFails
  <1>12. CASE UNCHANGED vars
    BY <1>12 DEF vars
  <1>13. QED
    BY <1>2, <1>3, <1>4, <1>5, <1>6, <1>7, <1>8, <1>9, <1>10, <1>11, <1>12
       DEF Next, Create, CreateStart, CreateReply, Rollback, Deploy, PrefixCommit,
           DeployNew, DeployFails, DeployAdd, RowsCommit, Delete, DeleteCommit,
           DeleteReply, LockTimeout

LEMMA AloneAlways ==
    ASSUME OneByOneOps, NEW q, Requests = {q}
    PROVE  Spec => []AloneInv
  <1>1. TypeOK /\ TypeOK' /\ AllocInv /\ AloneInv /\ [Next]_vars => AloneInv'
    BY AloneStep
  <1>2. Init => AloneInv
    BY IdleType DEF Init, AloneInv, PrefixesUnique, ListedByPrefix, VmsAccounted, AloneFit
  <1>3. QED
    BY <1>1, <1>2, TypeCorrect, ChosenStaysUnused, PTL DEF Spec

(* While requests come one at a time: no two classes share a prefix, the rows
   of a class name VMs made for it, and VMs that no class lists are being
   listed or destroyed.  (class_service.py, create_class; class_api.py,
   delete_class_route)                                                       *)
THEOREM RangesAreKept ==
    ASSUME OneByOneOps, NEW q, Requests = {q}
    PROVE  Spec => []OneByOneInv
  <1>1. AloneInv => PrefixesUnique /\ NoLeakedVms
    BY DEF AloneInv, VmsAccounted, Accounted, NoLeakedVms
  <1>2. TypeOK /\ AloneInv => ListedAreOwn
    <2> SUFFICES ASSUME TypeOK, AloneInv, NEW c \in stored, NEW p \in listed[c]
                 PROVE  made[p].class \in {c, NoClass}
      BY DEF ListedAreOwn
    <2>1. c \in Classes /\ p \in Prefixes /\ p = prefix[c] /\ p \in Used
      BY PrefixAssumption DEF TypeOK, AloneInv, ListedByPrefix, Used
    <2>2. CASE made[p] = NoVms
      BY <2>2 DEF NoVms
    <2>3. CASE Accounted(p)
      <3>1. CASE \E d \in stored : p \in listed[d] /\ made[p].class = d
        BY <2>1, <3>1, PrefixAssumption
           DEF TypeOK, AloneInv, ListedByPrefix, PrefixesUnique
      <3>2. ASSUME NEW r \in Requests, task[r].pc = "rows", p \in task[r].ranges,
                   made[p].class = task[r].class
            PROVE  made[p].class = c
        <4>1. task[r].class \in stored /\ p = prefix[task[r].class]
          BY <3>2 DEF AloneInv, AloneFit
        <4>2. QED
          BY <2>1, <3>2, <4>1, PrefixAssumption DEF AloneInv, PrefixesUnique
      <3>3. ~\E r \in Requests : task[r].pc = "destroy" /\ p \in task[r].ranges
        BY <2>1 DEF AloneInv, AloneFit
      <3>4. QED
        BY <2>3, <3>1, <3>2, <3>3 DEF Accounted
    <2>4. QED
      BY <2>1, <2>2, <2>3 DEF AloneInv, VmsAccounted
  <1>3. TypeOK /\ AloneInv => OneByOneInv
    BY <1>1, <1>2 DEF OneByOneInv
  <1>4. QED
    BY <1>3, AloneAlways, TypeCorrect, PTL

(* While requests come one at a time: a new class starts without VMs even if it
   gets the id of a deleted one, a deletion destroys nothing a class lists,
   and a class reported as created is stored.  (class_service.py, create_class;
   class_api.py, delete_class_route)                                         *)
THEOREM RangesPassOn ==
    ASSUME OneByOneOps, NEW q, Requests = {q}
    PROVE  Spec => OneByOneSteps
  <1>1. ASSUME TypeOK, AllocInv, AloneInv, [Next]_vars, NEW c \in stored' \ stored
        PROVE  listed'[c] = {}
    <2>1. CreateCommit(q)
      BY <1>1 DEF Next, Create, CreateStart, CreateFlush, CreatePick, CreateLocked,
         CreateReply, Rollback, Deploy, DeployWithoutPrefix, FormWithoutPrefix, DeployStart,
         PrefixCommit, DeployReread, DeployNew, DeployFails, DeployAdd, RowsCommit, Delete,
         DeleteRead, DeleteCommit, Destroy, DestroyFails, DeleteReply, LockTimeout, vars
    <2>2. c = task[q].class /\ c \in Classes /\ listed' = listed
      BY <1>1, <2>1, TaskClass DEF CreateCommit, At
    <2>3. QED
      BY <1>1, <2>2 DEF AloneInv, ListedByPrefix
  <1>2. ASSUME TypeOK, AloneInv, [Next]_vars, NEW r \in Requests, NEW p \in Prefixes,
               At(r, "destroy"), made[p] # NoVms, made'[p] = NoVms, NEW c \in stored
        PROVE  p \notin listed[c]
    <2>1. \E x \in Prefixes : Destroy(q, x)
      BY <1>2 DEF At, Next, Create, CreateStart, CreateFlush, CreatePick, CreateCommit,
         CreateLocked, CreateReply, Rollback, Deploy, DeployWithoutPrefix,
         FormWithoutPrefix, DeployStart, Start, PrefixCommit, DeployReread, DeployNew,
         DeployFails, DeployAdd, RowsCommit, Delete, DeleteRead, DeleteCommit,
         DestroyFails, DeleteReply, LockTimeout, vars
    <2>2. p \in task[q].ranges
      BY <1>2, <2>1 DEF Destroy, TypeOK
    <2>3. task[q].ranges \cap Used = {}
      BY <1>2 DEF AloneInv, AloneFit, At
    <2>4. QED
      BY <1>2, <2>2, <2>3, PrefixAssumption DEF AloneInv, ListedByPrefix, TypeOK, Used
  <1>3. ASSUME TypeOK, AllocInv, [Next]_vars, NEW r \in Requests,
               ~At(r, "create_reply"), task'[r].pc = "create_reply"
        PROVE  task'[r].class \in stored'
    <2>0. r = q /\ Requests = {r}
      OBVIOUS
    <2>1. task[r].pc # "create_reply"
      BY <1>3 DEF At
    <2>2. CreateCommit(r) \/ CreateLocked(r)
      BY <1>3, <2>0, <2>1, OnlyCommitReplies
    <2>3. ~CreateLocked(r)
      BY <1>3, <2>0, AloneLockFree DEF CreateLocked, At, Locked
    <2>4. stored' = stored \cup {task[r].class} /\ Goto(r, "create_reply")
      BY <2>2, <2>3 DEF CreateCommit
    <2>5. task'[r].class = task[r].class
      BY <1>3, <2>4, GotoLeaves DEF Left
    <2>6. QED
      BY <2>4, <2>5
  <1>4. TypeOK /\ AllocInv /\ AloneInv /\ [Next]_vars =>
           /\ [\A c \in stored' \ stored : listed'[c] = {}]_vars
           /\ [\A r \in Requests, p \in Prefixes :
                 At(r, "destroy") /\ made[p] # NoVms /\ made'[p] = NoVms
                    /\ task'[r] # task[r] => \A c \in stored : p \notin listed[c]]_vars
           /\ [\A r \in Requests : ~At(r, "create_reply") /\ task'[r].pc = "create_reply"
                 => task'[r].class \in stored']_vars
    BY <1>1, <1>2, <1>3
  <1>5. QED
    BY <1>4, AloneAlways, TypeCorrect, ChosenStaysUnused, PTL
       DEF Spec, OneByOneSteps, NewClassListsNothing, DestroysOnlyOwn, CreatedMeansStored

=============================================================================
