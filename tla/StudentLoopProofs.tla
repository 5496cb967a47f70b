-------------------------- MODULE StudentLoopProofs --------------------------
(***************************************************************************)
(* Proofs about StudentLoop for every number of slots, pool sizes, requests *)
(* and failures: types, the bounds of the loop (LoopInv) and the safety of  *)
(* the base VM (BaseStays).  For deployments one at a time: no listed slot  *)
(* is touched and no VM gets two rows.  Without failing commits: every VM   *)
(* made is listed.                                                          *)
(***************************************************************************)
EXTENDS StudentLoop, FiniteSetTheorems, TLAPS

(* What one deployment keeps true of itself; types depend on it, because a slot
   may be left for the next only while there is one.                         *)
TaskInv(t) ==
    /\ Cardinality(t.made) <= t.pool
    /\ t.pc \in Working => Cardinality(t.made) < t.pool /\ t.index < Base
    /\ \A i \in t.made \cup t.pending : i < t.index
    /\ t.pc = "begin" => t.made = {} /\ t.pending = {}
Good == {t \in Task : TaskInv(t)}

IInv ==
    /\ vms \subseteq VmIds
    /\ disks \subseteq VmIds
    /\ rows \in [Slots -> Nat]
    /\ task \in [Requests -> Good]

-----------------------------------------------------------------------------
(* Constants, finite sets of slots, the update of a task.                    *)

LEMMA Bounds == /\ MaxIndex \in Nat \ {0} /\ Base \in Nat
                /\ 1 \in VmIds /\ Base \in VmIds
                /\ BatchSize \in Nat \ {0} /\ MaxTries \in Nat
                /\ Pools \subseteq Nat
                /\ \A i \in VmIds : i < Base => i \in Slots /\ i + 1 \in VmIds
                /\ \A i \in Slots : i \in VmIds /\ i # Base /\ i < Base
                /\ Slots \subseteq Nat /\ VmIds \subseteq Nat
  BY LoopAssumption DEF Base, VmIds, Slots

LEMMA PoolsAreNat == \A n \in Pools \cup {0} : n \in Nat
  BY LoopAssumption

LEMMA SlotSets ==
    ASSUME NEW S \in SUBSET Slots
    PROVE  /\ IsFiniteSet(S) /\ Cardinality(S) \in Nat
           /\ \A i : i \notin S => Cardinality(S \cup {i}) = Cardinality(S) + 1
  <1>1. IsFiniteSet(Slots)
    BY Bounds, FS_Interval DEF Slots
  <1>2. IsFiniteSet(S)
    BY <1>1, FS_Subset
  <1>3. QED
    BY <1>2, FS_CardinalityType, FS_AddElement

LEMMA Fields ==
    ASSUME IInv, NEW r \in Requests
    PROVE  /\ task[r] \in Task /\ TaskInv(task[r])
           /\ task[r].made \in SUBSET Slots /\ task[r].pending \in SUBSET Slots
           /\ Index(r) \in VmIds /\ task[r].pool \in Nat
           /\ task[r].tries \in Nat /\ task[r].batch \in Nat
           /\ Created(r) \in Nat
  <1>1. task[r] \in Task /\ TaskInv(task[r])
    BY DEF IInv, Good
  <1>2. /\ task[r].made \in SUBSET Slots /\ task[r].pending \in SUBSET Slots
        /\ task[r].index \in VmIds /\ task[r].pool \in Pools \cup {0}
        /\ task[r].tries \in Nat /\ task[r].batch \in Nat
    BY <1>1 DEF Task
  <1>3. task[r].pool \in Nat
    BY <1>2, PoolsAreNat
  <1>4. Cardinality(task[r].made) \in Nat
    BY <1>2, SlotSets
  <1>5. QED
    BY <1>1, <1>2, <1>3, <1>4 DEF Created, Index

LEMMA BecomeGood ==
    ASSUME IInv, NEW r \in Requests, NEW new \in Good, Become(r, new)
    PROVE  /\ task' \in [Requests -> Good]
           /\ task'[r] = new
           /\ \A q \in Requests : q # r => task'[q] = task[q]
  BY DEF IInv, Become

LEMMA IdleGood == Idle \in Good
  <1>1. Idle \in Task
    BY Bounds DEF Idle, Task, PC
  <1>2. Cardinality({}) = 0
    BY FS_EmptySet
  <1>3. TaskInv(Idle)
    BY <1>2 DEF TaskInv, Idle, Working
  <1>4. QED
    BY <1>1, <1>3 DEF Good

(* Moves that change the program counter only.                               *)
LEMMA GotoGood ==
    ASSUME IInv, NEW r \in Requests, NEW pc \in PC \ {"begin"},
           pc \in Working => Created(r) < task[r].pool /\ Index(r) < Base
    PROVE  [task[r] EXCEPT !.pc = pc] \in Good
  <1> DEFINE new == [task[r] EXCEPT !.pc = pc]
  <1>1. task[r] \in Task /\ TaskInv(task[r])
    BY Fields
  <1>2. new \in Task
    BY <1>1 DEF Task
  <1>3. /\ new.pc = pc /\ new.made = task[r].made /\ new.pending = task[r].pending
        /\ new.pool = task[r].pool /\ new.index = task[r].index
    BY <1>1 DEF Task
  <1>4. TaskInv(new)
    BY <1>1, <1>3 DEF TaskInv, Created, Index
  <1>5. QED
    BY <1>2, <1>4 DEF Good

(* On to the next slot, with rows and VMs of the slots passed.               *)
LEMMA NextSlotGood ==
    ASSUME IInv, NEW r \in Requests, Index(r) < Base,
           NEW new \in Task, new.pc \in {"loop", "finish"},
           new.index = Index(r) + 1, new.pool = task[r].pool,
           new.pending \subseteq task[r].pending \cup {Index(r)},
           \/ new.made = task[r].made
           \/ new.made = task[r].made \cup {Index(r)} /\ Created(r) < task[r].pool
    PROVE  new \in Good
  <1>1. /\ TaskInv(task[r]) /\ Index(r) \in Nat
        /\ task[r].made \in SUBSET Slots /\ task[r].pending \in SUBSET Slots
        /\ task[r].pool \in Nat /\ Created(r) \in Nat
    BY Fields, Bounds
  <1>2. \A i \in new.made \cup new.pending : i < new.index
    <2> SUFFICES ASSUME NEW i \in new.made \cup new.pending
                 PROVE  i < new.index
      OBVIOUS
    <2>1. i \in task[r].made \cup task[r].pending \/ i = Index(r)
      OBVIOUS
    <2>2. i \in Nat
      BY <1>1, <2>1, Bounds
    <2>3. i \in task[r].made \cup task[r].pending => i < Index(r)
      BY <1>1 DEF TaskInv, Index
    <2>4. QED
      BY <1>1, <2>1, <2>2, <2>3
  <1>3. Cardinality(new.made) <= new.pool
    <2>1. Cardinality(task[r].made) <= task[r].pool
      BY <1>1 DEF TaskInv
    <2>2. Index(r) \notin task[r].made
      BY <1>1 DEF TaskInv, Index
    <2>3. Cardinality(task[r].made \cup {Index(r)}) = Created(r) + 1
      BY <1>1, <2>2, SlotSets DEF Created
    <2>4. CASE new.made = task[r].made
      BY <2>1, <2>4
    <2>5. CASE new.made = task[r].made \cup {Index(r)} /\ Created(r) < task[r].pool
      BY <1>1, <2>3, <2>5
    <2>6. QED
      BY <2>4, <2>5
  <1>4. QED
    BY <1>2, <1>3 DEF Good, TaskInv, Working

LEMMA SkipGood ==
    ASSUME IInv, NEW r \in Requests, Index(r) < Base
    PROVE  NextSlot(r) \in Good
  <1> DEFINE new == NextSlot(r)
  <1>1. task[r] \in Task /\ Index(r) \in VmIds
    BY Fields
  <1>2. Index(r) + 1 \in VmIds
    BY <1>1, Bounds
  <1>3. new \in Task
    BY <1>1, <1>2 DEF NextSlot, Task, PC, Index
  <1>4. /\ new.pc = "loop" /\ new.index = Index(r) + 1 /\ new.pool = task[r].pool
        /\ new.pending = task[r].pending /\ new.made = task[r].made
    BY <1>1 DEF NextSlot, Task, Index
  <1> HIDE DEF new
  <1>5. new \in Good
    BY <1>3, <1>4, NextSlotGood
  <1>6. QED
    BY <1>5 DEF new

LEMMA MissedGood ==
    ASSUME IInv, NEW r \in Requests, Index(r) < Base,
           NEW pending \in SUBSET Slots,
           pending \subseteq task[r].pending \cup {Index(r)}
    PROVE  [Missed(r) EXCEPT !.pending = pending] \in Good
  <1> DEFINE new == [Missed(r) EXCEPT !.pending = pending]
  <1>1. task[r] \in Task /\ Index(r) \in VmIds /\ task[r].tries \in Nat
    BY Fields
  <1>2. Index(r) + 1 \in VmIds
    BY <1>1, Bounds
  <1>2a. task[r].tries + 1 \in Nat
    BY <1>1
  <1>3. Missed(r) \in Task
    BY <1>1, <1>2, <1>2a DEF Missed, Task, PC, Index
  <1>4. new \in Task
    BY <1>3 DEF Task
  <1>5. /\ new.pc \in {"loop", "finish"}
        /\ new.index = Index(r) + 1 /\ new.pool = task[r].pool
        /\ new.pending = pending /\ new.made = task[r].made
    BY <1>1 DEF Missed, Task, Index
  <1> HIDE DEF new
  <1>6. new \in Good
    BY <1>4, <1>5, NextSlotGood
  <1>7. QED
    BY <1>6 DEF new

LEMMA MadeFields ==
    ASSUME IInv, NEW r \in Requests, Index(r) < Base
    PROVE  /\ OneMore(r) \in Task
           /\ OneMore(r).pc = "loop" /\ OneMore(r).index = Index(r) + 1
           /\ OneMore(r).pool = task[r].pool
           /\ OneMore(r).pending = task[r].pending \cup {Index(r)}
           /\ OneMore(r).made = task[r].made \cup {Index(r)}
  <1>1. task[r] \in Task /\ Index(r) \in VmIds /\ task[r].batch \in Nat
    BY Fields
  <1>2. Index(r) + 1 \in VmIds /\ Index(r) \in Slots
    BY <1>1, Bounds
  <1>2a. task[r].batch + 1 \in Nat /\ 0 \in Nat
    BY <1>1
  <1>3. NextSlot(r) \in Task
    BY <1>1, <1>2 DEF NextSlot, Task, PC, Index
  <1>4. NextSlot(r).made = task[r].made /\ NextSlot(r).pending = task[r].pending
        /\ NextSlot(r).batch = task[r].batch /\ NextSlot(r).pool = task[r].pool
        /\ NextSlot(r).pc = "loop" /\ NextSlot(r).index = Index(r) + 1
    BY <1>1 DEF NextSlot, Task, Index
  <1>5. OneMore(r) \in Task
    BY <1>2, <1>2a, <1>3, <1>4 DEF OneMore, Task
  <1>6. QED
    BY <1>3, <1>4, <1>5 DEF OneMore, Task

LEMMA MadeGood ==
    ASSUME IInv, NEW r \in Requests, Index(r) < Base, Created(r) < task[r].pool
    PROVE  OneMore(r) \in Good
  BY MadeFields, NextSlotGood

-----------------------------------------------------------------------------
(* The invariant, one lemma per part of the loop.                            *)

LEMMA InitIInv == Init => IInv
  BY IdleGood DEF Init, IInv

LEMMA WorkingSlot ==
    ASSUME IInv, NEW r \in Requests, task[r].pc \in Working
    PROVE  /\ Index(r) < Base /\ Created(r) < task[r].pool
           /\ Index(r) \in Slots /\ Index(r) # Base /\ Index(r) \in VmIds
  <1>1. TaskInv(task[r]) /\ Index(r) \in VmIds
    BY Fields
  <1>2. Index(r) < Base /\ Created(r) < task[r].pool
    BY <1>1 DEF TaskInv, Index, Created
  <1>3. QED
    BY <1>1, <1>2, Bounds

LEMMA StoredType ==
    ASSUME IInv, NEW r \in Requests
    PROVE  Stored(r) \in [Slots -> Nat]
  BY DEF Stored, IInv

LEMMA HeadStep ==
    ASSUME IInv, NEW r \in Requests, Head(r)
    PROVE  IInv'
  <1>0. task[r] \in Task /\ TaskInv(task[r])
    BY Fields
  <1>1. CASE Begin(r)
    <2>1. PICK i \in VmIds : /\ NextIndex(i)
                            /\ Become(r, [task[r] EXCEPT !.pc = "loop", !.index = i])
      BY <1>1, Zenon DEF Begin
    <2> DEFINE new == [task[r] EXCEPT !.pc = "loop", !.index = i]
    <2>2. new \in Task
      BY <1>0 DEF Task, PC
    <2>3. new.made = {} /\ new.pending = {} /\ new.pool = task[r].pool /\ new.pc = "loop"
          /\ task[r].made = {}
      BY <1>0, <1>1 DEF Task, TaskInv, Begin, At
    <2>4. new \in Good
      BY <1>0, <2>2, <2>3 DEF Good, TaskInv, Working
    <2> HIDE DEF new
    <2>5. task' \in [Requests -> Good]
      BY <2>1, <2>4, BecomeGood DEF new
    <2>6. vms' \subseteq VmIds /\ disks' \subseteq VmIds
      BY <1>1, Bounds DEF Begin, IInv
    <2>7. QED
      BY <1>1, <2>5, <2>6 DEF Begin, IInv
  <1>2. CASE BatchCommit(r) \/ BatchCommitFails(r)
    <2> DEFINE new == [task[r] EXCEPT !.pending = {}, !.batch = 0]
    <2>1. new \in Task
      BY <1>0 DEF Task
    <2>2. new.pending = {} /\ new.made = task[r].made /\ new.pool = task[r].pool
          /\ new.pc = "loop" /\ new.index = task[r].index
      BY <1>0, <1>2 DEF Task, BatchCommit, BatchCommitFails, BatchFull, MoreToMake, At
    <2>3. new \in Good
      BY <1>0, <2>1, <2>2 DEF Good, TaskInv, Working
    <2>4. Become(r, new)
      BY <1>2 DEF BatchCommit, BatchCommitFails
    <2> HIDE DEF new
    <2>5. task' \in [Requests -> Good]
      BY <2>3, <2>4, BecomeGood
    <2>6. QED
      BY <1>2, <2>5, StoredType DEF BatchCommit, BatchCommitFails, IInv
  <1>3. CASE PoolMade(r) \/ LimitReached(r)
    <2>1. Become(r, [task[r] EXCEPT !.pc = "finish"])
      BY <1>3 DEF PoolMade, LimitReached, Goto
    <2>2. [task[r] EXCEPT !.pc = "finish"] \in Good
      BY GotoGood DEF PC, Working
    <2>3. QED
      BY <1>3, <2>1, <2>2, BecomeGood DEF PoolMade, LimitReached, IInv
  <1>4. CASE ProbeFinds(r)
    <2> DEFINE pending == IF Listed(Index(r)) THEN task[r].pending
                                              ELSE task[r].pending \cup {Index(r)}
    <2>1. Index(r) < Base /\ Index(r) \in Slots
      BY <1>4, Fields, Bounds DEF ProbeFinds, SlotsLeft
    <2>2. pending \in SUBSET Slots /\ pending \subseteq task[r].pending \cup {Index(r)}
      BY <2>1, Fields
    <2>3. Missed(r).pending = task[r].pending
      BY <1>0 DEF Missed, Task
    <2>4. Become(r, [Missed(r) EXCEPT !.pending = pending])
      BY <1>4, <2>3 DEF ProbeFinds
    <2> HIDE DEF pending
    <2>5. [Missed(r) EXCEPT !.pending = pending] \in Good
      BY <2>1, <2>2, MissedGood
    <2>6. QED
      BY <1>4, <2>4, <2>5, BecomeGood DEF ProbeFinds, IInv
  <1>5. CASE ProbeFindsNone(r)
    <2> DEFINE pc == IF task[r].add THEN "disk" ELSE "shell"
    <2>1. Created(r) < task[r].pool /\ Index(r) < Base
      BY <1>5 DEF ProbeFindsNone, Looping, MoreToMake, SlotsLeft
    <2>2. pc \in PC \ {"begin"}
      BY DEF PC
    <2>3. Become(r, [task[r] EXCEPT !.pc = pc])
      BY <1>5 DEF ProbeFindsNone, Goto
    <2> HIDE DEF pc
    <2>4. [task[r] EXCEPT !.pc = pc] \in Good
      BY <2>1, <2>2, GotoGood
    <2>5. QED
      BY <1>5, <2>3, <2>4, BecomeGood DEF ProbeFindsNone, IInv
  <1>6. CASE Abort(r)
    BY <1>6, IdleGood, BecomeGood DEF Abort, IInv
  <1>7. QED
    BY <1>1, <1>2, <1>3, <1>4, <1>5, <1>6 DEF Head

LEMMA OverlayStep ==
    ASSUME IInv, NEW r \in Requests, Overlay(r)
    PROVE  IInv'
  <1>1. task[r].pc \in {"disk", "conf"}
    BY DEF Overlay, OverlayDisk, OverlayDiskFails, OverlayConf, OverlayConfFails,
           OverlayRaises, At
  <1>2. /\ Index(r) < Base /\ Created(r) < task[r].pool
        /\ Index(r) \in VmIds
    BY <1>1, WorkingSlot DEF Working
  <1>3. NextSlot(r) \in Good
    BY <1>2, SkipGood
  <1>4. CASE OverlayDisk(r)
    <2>1. [task[r] EXCEPT !.pc = "conf"] \in Good
      BY <1>2, GotoGood DEF PC
    <2>2. QED
      BY <1>2, <1>4, <2>1, BecomeGood DEF OverlayDisk, Goto, IInv
  <1>5. CASE OverlayDiskFails(r)
    BY <1>3, <1>5, BecomeGood DEF OverlayDiskFails, Skip, IInv
  <1>6. CASE OverlayConf(r)
    <2>1. OneMore(r) \in Good /\ Become(r, OneMore(r))
      BY <1>2, <1>6, MadeGood DEF OverlayConf, Made
    <2>2. QED
      BY <1>2, <1>6, <2>1, BecomeGood DEF OverlayConf, IInv
  <1>7. CASE OverlayConfFails(r)
    BY <1>2, <1>3, <1>7, BecomeGood DEF OverlayConfFails, Skip, IInv
  <1>8. CASE OverlayRaises(r)
    BY <1>3, <1>8, BecomeGood DEF OverlayRaises, Skip, IInv
  <1>9. QED
    BY <1>4, <1>5, <1>6, <1>7, <1>8 DEF Overlay

LEMMA ShellStep ==
    ASSUME IInv, NEW r \in Requests, Shell(r)
    PROVE  IInv'
  <1>1. task[r].pc \in {"shell", "attach"}
    BY DEF Shell, ShellCreate, ShellFails, AttachDisk, AttachFails, ShellRaises, At
  <1>2. /\ Index(r) < Base /\ Created(r) < task[r].pool
        /\ Index(r) \in VmIds
    BY <1>1, WorkingSlot DEF Working
  <1>3. /\ [task[r] EXCEPT !.pc = "loop"] \in Good
        /\ [task[r] EXCEPT !.pc = "attach"] \in Good
    BY <1>2, GotoGood DEF PC
  <1>4. CASE ShellCreate(r)
    BY <1>2, <1>3, <1>4, BecomeGood DEF ShellCreate, Goto, IInv
  <1>5. CASE ShellFails(r)
    BY <1>2, <1>3, <1>5, BecomeGood DEF ShellFails, Goto, IInv
  <1>6. CASE AttachDisk(r)
    <2>1. OneMore(r) \in Good /\ Become(r, OneMore(r))
      BY <1>2, <1>6, MadeGood DEF AttachDisk, Made
    <2>2. QED
      BY <1>2, <1>6, <2>1, BecomeGood DEF AttachDisk, IInv
  <1>7. CASE AttachFails(r)
    BY <1>3, <1>7, BecomeGood DEF AttachFails, Goto, IInv
  <1>8. CASE ShellRaises(r)
    <2>1. task[r].pending \in SUBSET Slots /\ task[r] \in Task
      BY Fields
    <2>2. [Missed(r) EXCEPT !.pending = task[r].pending] \in Good
      BY <1>2, <2>1, MissedGood
    <2>3. Missed(r) = [Missed(r) EXCEPT !.pending = task[r].pending]
      BY <2>1 DEF Missed, Task
    <2>4. QED
      BY <1>8, <2>2, <2>3, BecomeGood DEF ShellRaises, IInv
  <1>9. QED
    BY <1>4, <1>5, <1>6, <1>7, <1>8 DEF Shell

LEMMA StartGood ==
    ASSUME IInv, NEW r \in Requests, NEW n \in Pools, Start(r, n)
    PROVE  IInv'
  <1> DEFINE add == Base \in vms \/ \E i \in Slots : Listed(i)
  <1> DEFINE new == [Idle EXCEPT !.pc = "begin", !.pool = n, !.add = add]
  <1>0. add \in BOOLEAN /\ 1 \in VmIds /\ n \in Pools \cup {0}
    BY Bounds
  <1>4. Become(r, new)
    BY DEF Start
  <1> HIDE DEF add
  <1>1. new \in Task
    BY <1>0 DEF Idle, Task, PC
  <1>2. new.made = {} /\ new.pending = {} /\ new.pool = n /\ new.pc = "begin"
    BY DEF Idle
  <1>3. Cardinality({}) = 0 /\ n \in Nat
    BY FS_EmptySet, PoolsAreNat
  <1> HIDE DEF new
  <1>5. new \in Good
    BY <1>1, <1>2, <1>3 DEF Good, TaskInv, Working
  <1>6. QED
    BY <1>4, <1>5, BecomeGood DEF Start, IInv

LEMMA NextIInv == IInv /\ [Next]_vars => IInv'
  <1> SUFFICES ASSUME IInv, [Next]_vars
               PROVE  IInv'
    OBVIOUS
  <1>1. ASSUME NEW r \in Requests, Step(r)
        PROVE  IInv'
    <2>1. CASE FinalCommit(r) \/ FinalCommitFails(r)
      BY <2>1, IdleGood, BecomeGood, StoredType DEF FinalCommit, FinalCommitFails, IInv
    <2>2. QED
      BY <1>1, <2>1, HeadStep, OverlayStep, ShellStep DEF Step
  <1>2. CASE UNCHANGED vars
    BY <1>2 DEF vars, IInv
  <1>3. QED
    BY <1>1, <1>2, StartGood DEF Next

LEMMA Invariant == Spec => []IInv
  BY InitIInv, NextIInv, PTL DEF Spec

(* The cluster, the table and every deployment keep their types: no slot beyond
   the base VM's is ever reached.  (class_vm_service.py, create_class_vms)    *)
THEOREM TypeCorrect == Spec => []TypeOK
  <1>1. IInv => TypeOK
    BY DEF IInv, TypeOK, Good
  <1>2. QED
    BY <1>1, Invariant, PTL

(* However its commands fail, a deployment makes no more VMs than it was asked
   for and stays off the base VM's slot.  (class_vm_service.py,
   create_class_vms)                                                         *)
THEOREM LoopBounded == Spec => []LoopInv
  <1>1. IInv => LoopInv
    BY Fields DEF LoopInv, TaskInv, Created, Index, SlotsLeft
  <1>2. QED
    BY <1>1, Invariant, PTL

(* No step of any deployment takes the base VM or its disk away.
   (vm_template.py, create_overlay_vm)                                       *)
THEOREM BaseIsSafe == Spec => BaseStays
  <1> DEFINE Stays == /\ Base \in vms => Base \in vms'
                      /\ Base \in disks => Base \in disks'
  <1>1. ASSUME IInv, [Next]_vars
        PROVE  Stays
    <2>1. ASSUME NEW r \in Requests, Overlay(r) \/ Shell(r)
          PROVE  Stays
      <3>1. task[r].pc \in Working
        BY <2>1 DEF Overlay, OverlayDisk, OverlayDiskFails, OverlayConf,
               OverlayConfFails, OverlayRaises, Shell, ShellCreate, ShellFails,
               AttachDisk, AttachFails, ShellRaises, At, Working
      <3>2. Index(r) # Base
        BY <1>1, <3>1, WorkingSlot
      <3>3. CASE Overlay(r)
        BY <3>2, <3>3 DEF Overlay, OverlayDisk, OverlayDiskFails, OverlayConf,
               OverlayConfFails, OverlayRaises
      <3>4. CASE Shell(r)
        BY <3>2, <3>4 DEF Shell, ShellCreate, ShellFails, AttachDisk, AttachFails,
               ShellRaises
      <3>5. QED
        BY <2>1, <3>3, <3>4
    <2>2. ASSUME NEW r \in Requests, Head(r) \/ FinalCommit(r) \/ FinalCommitFails(r)
          PROVE  Stays
      <3>1. CASE Begin(r)
        BY <3>1 DEF Begin
      <3>2. CASE ~Begin(r)
        <4>1. UNCHANGED <<vms, disks>>
          BY <2>2, <3>2 DEF Head, BatchCommit, BatchCommitFails, PoolMade,
                 LimitReached, ProbeFinds, ProbeFindsNone, Abort, FinalCommit,
                 FinalCommitFails
        <4>2. QED
          BY <4>1
      <3>3. QED
        BY <3>1, <3>2
    <2>3. ASSUME NEW r \in Requests, NEW n \in Pools, Start(r, n)
          PROVE  Stays
      BY <2>3 DEF Start
    <2>4. CASE UNCHANGED vars
      BY <2>4 DEF vars
    <2>5. QED
      BY <1>1, <2>1, <2>2, <2>3, <2>4 DEF Next, Step
  <1>2. QED
    BY <1>1, Invariant, PTL DEF Spec, BaseStays

-----------------------------------------------------------------------------
(* Rows.  What a step may do with them: store those of the session, keep them,
   or read where to begin.                                                   *)

Stores(r) ==
    /\ task[r].pc \in {"loop", "finish"}
    /\ rows' = Stored(r)
    /\ task'[r].pending = {}
    /\ \/ task'[r] = Idle
       \/ task'[r].index = Index(r) /\ task'[r].made = task[r].made

Keeps(r) ==
    /\ task[r].pc \notin {"idle", "begin"}
    /\ rows' = rows
    /\ \/ task'[r] = Idle
       \/ /\ task'[r].index \in {Index(r), Index(r) + 1}
          /\ task'[r].pending \subseteq task[r].pending \cup {Index(r)}
          /\ task'[r].made \subseteq task[r].made \cup task'[r].pending
          /\ task[r].pending \subseteq task'[r].pending \/ "commit" \in Failing

Begins(r) ==
    /\ rows' = rows
    /\ NextIndex(task'[r].index)
    /\ task'[r].pending = {} /\ task'[r].made = {}

LEMMA BecomeIs ==
    ASSUME IInv, NEW r \in Requests, NEW new, Become(r, new)
    PROVE  /\ task'[r] = new
           /\ \A q \in Requests : q # r => task'[q] = task[q]
  BY DEF IInv, Become

LEMMA NextSlotFields ==
    ASSUME IInv, NEW r \in Requests
    PROVE  /\ NextSlot(r).index = Index(r) + 1
           /\ NextSlot(r).pending = task[r].pending /\ NextSlot(r).made = task[r].made
           /\ Missed(r).index = Index(r) + 1
           /\ Missed(r).pending = task[r].pending /\ Missed(r).made = task[r].made
  <1>1. task[r] \in Task
    BY Fields
  <1>2. QED
    BY <1>1 DEF NextSlot, Missed, Task, Index

LEMMA GotoKeeps ==
    ASSUME IInv, NEW r \in Requests, NEW pc, Goto(r, pc),
           task[r].pc \notin {"idle", "begin"}, rows' = rows
    PROVE  Keeps(r)
  <1>1. task[r] \in Task
    BY Fields
  <1>2. task'[r] = [task[r] EXCEPT !.pc = pc]
    BY BecomeIs DEF Goto
  <1>3. /\ task'[r].index = Index(r) /\ task'[r].pending = task[r].pending
        /\ task'[r].made = task[r].made
    BY <1>1, <1>2 DEF Task, Index
  <1>4. QED
    BY <1>3 DEF Keeps

LEMMA HeadShape ==
    ASSUME IInv, NEW r \in Requests, Head(r)
    PROVE  Stores(r) \/ Keeps(r) \/ Begins(r)
  <1>0. task[r] \in Task /\ TaskInv(task[r])
    BY Fields
  <1>1. CASE Begin(r)
    <2>1. PICK i \in VmIds : /\ NextIndex(i)
                            /\ Become(r, [task[r] EXCEPT !.pc = "loop", !.index = i])
      BY <1>1, Zenon DEF Begin
    <2> DEFINE new == [task[r] EXCEPT !.pc = "loop", !.index = i]
    <2>2. new.index = i /\ new.pending = {} /\ new.made = {}
      BY <1>0, <1>1 DEF Task, TaskInv, Begin, At
    <2> HIDE DEF new
    <2>3. task'[r] = new
      BY <2>1, BecomeIs DEF new
    <2>4. QED
      BY <1>1, <2>1, <2>2, <2>3 DEF Begins, Begin
  <1>2. CASE BatchCommit(r) \/ BatchCommitFails(r)
    <2> DEFINE new == [task[r] EXCEPT !.pending = {}, !.batch = 0]
    <2>1. new.pending = {} /\ new.made = task[r].made /\ new.index = Index(r)
      BY <1>0 DEF Task, Index
    <2>2. Become(r, new)
      BY <1>2 DEF BatchCommit, BatchCommitFails
    <2> HIDE DEF new
    <2>3. task'[r] = new /\ task[r].pc = "loop"
      BY <1>2, <2>2, BecomeIs DEF BatchCommit, BatchCommitFails, BatchFull, MoreToMake, At
    <2>4. QED
      BY <1>2, <2>1, <2>3 DEF BatchCommit, BatchCommitFails, Stores, Keeps
  <1>3. CASE PoolMade(r) \/ LimitReached(r) \/ ProbeFindsNone(r)
    <2>1. task[r].pc = "loop" /\ rows' = rows
      BY <1>3 DEF PoolMade, LimitReached, ProbeFindsNone, Looping, MoreToMake, At
    <2>2. \E pc \in PC : Goto(r, pc)
      BY <1>3 DEF PoolMade, LimitReached, ProbeFindsNone, PC
    <2>3. QED
      BY <2>1, <2>2, GotoKeeps
  <1>4. CASE ProbeFinds(r)
    <2> DEFINE pending == IF Listed(Index(r)) THEN task[r].pending
                                              ELSE task[r].pending \cup {Index(r)}
    <2>1. Missed(r).pending = task[r].pending
      BY NextSlotFields
    <2>2. Become(r, [Missed(r) EXCEPT !.pending = pending])
      BY <1>4, <2>1 DEF ProbeFinds
    <2>3. pending \subseteq task[r].pending \cup {Index(r)} /\ task[r].pending \subseteq pending
      OBVIOUS
    <2> HIDE DEF pending
    <2>4. task'[r] = [Missed(r) EXCEPT !.pending = pending]
      BY <2>2, BecomeIs
    <2>5. task'[r].pending = pending
      BY <1>0, <2>4 DEF Missed, Task
    <2>6. task'[r].index = Index(r) + 1 /\ task'[r].made = task[r].made
      BY <2>4, NextSlotFields
    <2>7. task[r].pc = "loop" /\ rows' = rows
      BY <1>4 DEF ProbeFinds, Looping, MoreToMake, At
    <2>8. QED
      BY <2>3, <2>5, <2>6, <2>7 DEF Keeps
  <1>5. CASE Abort(r)
    BY <1>5, BecomeIs DEF Abort, MoreToMake, At, Keeps
  <1>6. QED
    BY <1>1, <1>2, <1>3, <1>4, <1>5 DEF Head

LEMMA WorkShape ==
    ASSUME IInv, NEW r \in Requests, Overlay(r) \/ Shell(r)
    PROVE  Keeps(r)
  <1>1. task[r].pc \in Working /\ rows' = rows
    BY DEF Overlay, OverlayDisk, OverlayDiskFails, OverlayConf, OverlayConfFails,
           OverlayRaises, Shell, ShellCreate, ShellFails, AttachDisk, AttachFails,
           ShellRaises, At, Working
  <1>2. \/ \E pc \in PC : Goto(r, pc)
        \/ Become(r, NextSlot(r)) \/ Become(r, Missed(r)) \/ Become(r, OneMore(r))
    BY DEF Overlay, OverlayDisk, OverlayDiskFails, OverlayConf, OverlayConfFails,
           OverlayRaises, Shell, ShellCreate, ShellFails, AttachDisk, AttachFails,
           ShellRaises, Skip, Made, PC
  <1>3. task[r].pc \notin {"idle", "begin"}
    BY <1>1 DEF Working
  <1>4. ASSUME NEW pc \in PC, Goto(r, pc)
        PROVE  Keeps(r)
    BY <1>1, <1>3, <1>4, GotoKeeps
  <1>5. CASE Become(r, NextSlot(r)) \/ Become(r, Missed(r))
    BY <1>1, <1>3, <1>5, BecomeIs, NextSlotFields DEF Keeps
  <1>6. CASE Become(r, OneMore(r))
    <2>1. Index(r) < Base
      BY <1>1, WorkingSlot
    <2>2. QED
      BY <1>1, <1>3, <1>6, <2>1, BecomeIs, MadeFields DEF Keeps
  <1>7. QED
    BY <1>2, <1>4, <1>5, <1>6

LEMMA StepShape ==
    ASSUME IInv, NEW r \in Requests, Step(r)
    PROVE  /\ Stores(r) \/ Keeps(r) \/ Begins(r)
           /\ \A q \in Requests : q # r => task'[q] = task[q]
  <1>1. CASE FinalCommit(r) \/ FinalCommitFails(r)
    <2>1. Idle.pending = {}
      BY DEF Idle
    <2>2. QED
      BY <1>1, <2>1, BecomeIs DEF FinalCommit, FinalCommitFails, Stores, Keeps, At
  <1>2. Stores(r) \/ Keeps(r) \/ Begins(r)
    BY <1>1, HeadShape, WorkShape DEF Step
  <1>3. \E new : Become(r, new)
    BY Zenon DEF Step, Head, Begin, BatchCommit, BatchCommitFails, PoolMade,
           LimitReached, ProbeFinds, ProbeFindsNone, Abort, Overlay, OverlayDisk,
           OverlayDiskFails, OverlayConf, OverlayConfFails, OverlayRaises, Shell,
           ShellCreate, ShellFails, AttachDisk, AttachFails, ShellRaises,
           FinalCommit, FinalCommitFails, Goto, Skip, Made
  <1>4. QED
    BY <1>2, <1>3, BecomeIs

LEMMA StartShape ==
    ASSUME IInv, NEW r \in Requests, NEW n \in Pools, Start(r, n)
    PROVE  /\ rows' = rows
           /\ task'[r].pc = "begin" /\ task'[r].pending = {} /\ task'[r].made = {}
           /\ \A q \in Requests : q # r => task'[q] = task[q]
  <1> DEFINE add == Base \in vms \/ \E i \in Slots : Listed(i)
  <1> DEFINE new == [Idle EXCEPT !.pc = "begin", !.pool = n, !.add = add]
  <1>1. Become(r, new) /\ rows' = rows
    BY DEF Start
  <1>2. new.pc = "begin" /\ new.pending = {} /\ new.made = {}
    BY DEF Idle
  <1> HIDE DEF new
  <1>3. QED
    BY <1>1, <1>2, BecomeIs

LEMMA StoredRows ==
    ASSUME IInv, NEW r \in Requests, NEW i \in Slots
    PROVE  /\ rows[i] \in Nat
           /\ Stored(r)[i] = IF i \in task[r].pending THEN rows[i] + 1 ELSE rows[i]
  BY DEF IInv, Stored

-----------------------------------------------------------------------------
(* One deployment at a time.                                                 *)

(* The slots from the current one on have no row, nor have those whose rows are
   still in the session.                                                     *)
AloneInv ==
    /\ RowsUnique
    /\ \A r \in Requests :
          /\ task[r].pc \notin {"idle", "begin"} =>
                 \A i \in Slots : i >= Index(r) => ~Listed(i)
          /\ \A i \in task[r].pending : ~Listed(i)

LEMMA AloneInit == Init => AloneInv
  BY DEF Init, AloneInv, RowsUnique, Listed, Idle

LEMMA AloneNext ==
    ASSUME NEW q, Requests = {q}, IInv, AloneInv, [Next]_vars
    PROVE  AloneInv'
  <1>0. q \in Requests
    OBVIOUS
  <1>1. /\ task[q].pending \in SUBSET Slots /\ Index(q) \in Nat
        /\ TaskInv(task[q])
    BY <1>0, Fields, Bounds
  <1>2. CASE Stores(q)
    <2>1. \A i \in task[q].pending : ~Listed(i) /\ i < Index(q)
      BY <1>0, <1>1 DEF AloneInv, TaskInv, Index
    <2>2. \A i \in Slots : i >= Index(q) => ~Listed(i)
      BY <1>0, <1>2 DEF AloneInv, Stores
    <2>3. RowsUnique'
      <3> SUFFICES ASSUME NEW i \in Slots
                   PROVE  rows'[i] <= 1
        BY DEF RowsUnique
      <3>1. rows[i] \in Nat /\ rows[i] <= 1
        BY <1>0, StoredRows DEF AloneInv, RowsUnique
      <3>2. rows'[i] = IF i \in task[q].pending THEN rows[i] + 1 ELSE rows[i]
        BY <1>0, <1>2, StoredRows DEF Stores
      <3>3. QED
        BY <2>1, <3>1, <3>2 DEF Listed
    <2>4. ASSUME NEW i \in Slots, i >= Index(q)
          PROVE  ~(rows'[i] > 0)
      <3>1. i \notin task[q].pending
        BY <1>1, <2>1, <2>4, Bounds
      <3>2. rows'[i] = rows[i]
        BY <1>0, <1>2, <3>1, StoredRows DEF Stores
      <3>3. QED
        BY <2>2, <2>4, <3>2 DEF Listed
    <2>5. QED
      BY <1>2, <2>3, <2>4 DEF AloneInv, Stores, Listed, Index, Idle
  <1>3. CASE Keeps(q)
    <2>1. \A i \in Slots : i >= Index(q) => ~Listed(i)
      BY <1>0, <1>3 DEF AloneInv, Keeps
    <2>2. \A i \in task[q].pending \cup ({Index(q)} \cap Slots) : ~Listed(i)
      BY <1>0, <1>1, <2>1 DEF AloneInv
    <2>3. CASE task'[q] = Idle
      BY <1>3, <2>3 DEF AloneInv, Keeps, RowsUnique, Listed, Idle
    <2>4. CASE task'[q] # Idle
      <3>1. task'[q].index \in {Index(q), Index(q) + 1}
        BY <1>3, <2>4 DEF Keeps
      <3>2. \A i \in Slots : i >= task'[q].index => ~Listed(i)
        BY <1>1, <2>1, <3>1, Bounds
      <3>3. task'[q].pending \subseteq task[q].pending \cup {Index(q)}
        BY <1>3, <2>4 DEF Keeps
      <3>4. task'[q].pending \subseteq Slots
        BY <1>0, NextIInv DEF IInv, Good, Task
      <3>5. \A i \in task'[q].pending : ~Listed(i)
        BY <2>2, <3>3, <3>4
      <3>6. QED
        BY <1>3, <3>2, <3>5 DEF AloneInv, Keeps, RowsUnique, Listed, Index
    <2>5. QED
      BY <2>3, <2>4
  <1>4. CASE Begins(q)
    BY <1>4 DEF AloneInv, Begins, NextIndex, RowsUnique, Listed, Index
  <1>5. ASSUME NEW n \in Pools, Start(q, n)
        PROVE  AloneInv'
    BY <1>0, <1>5, StartShape DEF AloneInv, RowsUnique, Listed
  <1>6. CASE UNCHANGED vars
    BY <1>6 DEF vars, AloneInv, RowsUnique, Listed, Index
  <1>7. QED
    BY <1>0, <1>2, <1>3, <1>4, <1>5, <1>6, StepShape DEF Next

(* While deployments of a class come one after the other, however many and however
   they fail, no VM gets two rows.  (class_vm_service.py, create_class_vms)   *)
THEOREM AloneRowsUnique ==
    ASSUME NEW q, Requests = {q}
    PROVE  Spec => []RowsUnique
  <1>1. IInv /\ AloneInv /\ [Next]_vars => AloneInv'
    BY AloneNext
  <1>2. AloneInv => RowsUnique
    BY DEF AloneInv
  <1>3. QED
    BY <1>1, <1>2, AloneInit, Invariant, PTL DEF Spec

(* ... and no command is given for a slot that has a row, although "qm status" may
   not see its VM.  (class_vm_service.py, create_class_vms)                  *)
THEOREM AloneListedUntouched ==
    ASSUME NEW q, Requests = {q}
    PROVE  Spec => []ListedUntouched
  <1>1. IInv /\ AloneInv /\ [Next]_vars => AloneInv'
    BY AloneNext
  <1>2. IInv /\ AloneInv => ListedUntouched
    <2> SUFFICES ASSUME IInv, AloneInv, NEW r \in Requests, task[r].pc \in Working
                 PROVE  ~Listed(Index(r)) /\ Index(r) \notin task[r].pending
      BY DEF ListedUntouched
    <2>1. Index(r) \in Slots /\ TaskInv(task[r])
      BY WorkingSlot, Fields
    <2>2. Index(r) \in Nat
      BY <2>1 DEF Slots
    <2>3. \A i \in Slots : i >= Index(r) => ~Listed(i)
      BY DEF AloneInv, Working
    <2>4. ~Listed(Index(r))
      BY <2>1, <2>2, <2>3
    <2>5. Index(r) \notin task[r].pending
      BY <2>1, <2>2 DEF TaskInv, Index
    <2>6. QED
      BY <2>4, <2>5
  <1>3. QED
    BY <1>1, <1>2, AloneInit, Invariant, PTL DEF Spec

-----------------------------------------------------------------------------
(* Every VM is listed, if no commit fails.                                   *)

LEMMA ListedStays ==
    ASSUME IInv, NEW r \in Requests, NEW i \in Slots,
           rows' = rows \/ rows' = Stored(r)
    PROVE  /\ Listed(i) => Listed(i)'
           /\ rows' = Stored(r) /\ i \in task[r].pending => Listed(i)'
  BY StoredRows DEF Listed

LEMMA MadeNext ==
    ASSUME "commit" \notin Failing, IInv, MadeAreListed, [Next]_vars
    PROVE  MadeAreListed'
  <1>1. ASSUME NEW r \in Requests, Step(r), NEW q \in Requests, NEW i \in task'[q].made
        PROVE  Listed(i)' \/ i \in task'[q].pending
    <2>1. /\ Stores(r) \/ Keeps(r) \/ Begins(r)
          /\ q # r => task'[q] = task[q]
      BY <1>1, StepShape
    <2>2. task[q].made \subseteq Slots /\ task[q].pending \subseteq Slots
      BY Fields
    <2>3. rows' = rows \/ rows' = Stored(r)
      BY <2>1 DEF Stores, Keeps, Begins
    <2>4. \A j \in task[q].made : Listed(j) \/ j \in task[q].pending
      BY DEF MadeAreListed
    <2>5. CASE q # r
      BY <1>1, <2>1, <2>2, <2>3, <2>4, <2>5, ListedStays
    <2>6. CASE q = r /\ Stores(r)
      <3>1. i \in task[r].made
        BY <1>1, <2>6 DEF Stores, Idle
      <3>2. QED
        BY <2>2, <2>4, <2>6, <3>1, ListedStays DEF Stores
    <2>7. CASE q = r /\ Keeps(r)
      BY <1>1, <2>2, <2>3, <2>4, <2>7, ListedStays DEF Keeps, Idle
    <2>8. CASE q = r /\ Begins(r)
      BY <1>1, <2>8 DEF Begins
    <2>9. QED
      BY <2>1, <2>5, <2>6, <2>7, <2>8
  <1>2. ASSUME NEW r \in Requests, NEW n \in Pools, Start(r, n)
        PROVE  MadeAreListed'
    BY <1>2, StartShape DEF MadeAreListed, Listed
  <1>3. CASE UNCHANGED vars
    BY <1>3 DEF vars, MadeAreListed, Listed
  <1>4. QED
    BY <1>1, <1>2, <1>3 DEF Next, MadeAreListed

(* If no commit fails, every VM a deployment has made is listed or about to be,
   whatever its commands do and however many deployments run at once.
   (class_vm_service.py, create_class_vms)                                   *)
THEOREM VmsGetRows ==
    ASSUME "commit" \notin Failing
    PROVE  Spec => []MadeAreListed
  <1>1. Init => MadeAreListed
    BY DEF Init, MadeAreListed, Idle
  <1>2. IInv /\ MadeAreListed /\ [Next]_vars => MadeAreListed'
    BY MadeNext
  <1>3. QED
    BY <1>1, <1>2, Invariant, PTL DEF Spec

(* Deployments of a class that run one at a time and whose commits succeed leave
   what they should, whatever commands and probes fail: one row for each VM, no
   command for a slot that has a row.  (class_vm_service.py, create_class_vms) *)
THEOREM AloneKeepsAll ==
    ASSUME NEW q, Requests = {q}, "commit" \notin Failing
    PROVE  Spec => []LoneInv
  <1>1. Spec => []TypeOK
    BY TypeCorrect
  <1>2. Spec => []RowsUnique
    BY AloneRowsUnique
  <1>3. Spec => []ListedUntouched
    BY AloneListedUntouched
  <1>4. Spec => []MadeAreListed
    BY VmsGetRows
  <1>5. TypeOK /\ RowsUnique /\ ListedUntouched /\ MadeAreListed => LoneInv
    BY DEF LoneInv
  <1>6. QED
    BY <1>1, <1>2, <1>3, <1>4, <1>5, PTL

=============================================================================
