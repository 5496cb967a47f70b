-------------------------- MODULE DeploymentProofs --------------------------
(***************************************************************************)
(* Proofs about the two ways a class gets its first VMs.                    *)
(*                                                                          *)
(* ClassSetup: whatever fails, is moved or is deleted, and however often    *)
(* the deployment of a class is repeated, its teacher's VM has one row at   *)
(* most and no deployment touches the disks of a class that has been set    *)
(* up.                                                                      *)
(*                                                                          *)
(* LinkedClones: for every set of classes, every range of VMIDs and every   *)
(* number of students, failures and strangers, a class lists only VMs that  *)
(* were cloned for it.                                                      *)
(***************************************************************************)
EXTENDS ClassSetup, LinkedClones, TLAPS

-----------------------------------------------------------------------------
(* ClassSetup.                                                               *)

USE SetupAssumption

(* The places of a deployment that sets a class up from the beginning. *)
NewPC == SetupPC \ {"idle", "begin", "students"}

(* How many rows wait in the session: none before the teacher's VM is there, one
   for the teacher's VM, one for the base VM and a second one only if that VM was
   made twice. *)
PendingOK(r) ==
    /\ r.pc \in {"idle", "begin", "export", "teacher", "teacher_make"} =>
          r.pending["teacher"] = 0 /\ r.pending["base"] = 0
    /\ r.pending["teacher"] <= 1
    /\ r.pc \in {"base", "base_make"} => r.pending["base"] = 0
    /\ r.pc # "store" => r.pending["base"] <= 1

(* A class is set up only while it has no row of the two VMs, and students get
   VMs only when there is the teacher's. *)
RowsOK(r) ==
    /\ r.pc \in NewPC \/ (r.pc = "begin" /\ ~r.add) =>
          rows["teacher"] = 0 /\ rows["base"] = 0
    /\ r.pc = "students" => rows["teacher"] > 0

SetupIInv ==
    /\ SetupTypeOK
    /\ rows["teacher"] <= 1
    /\ \A d \in Deployments : PendingOK(deploy[d]) /\ RowsOK(deploy[d])

-----------------------------------------------------------------------------
(* The record of a deployment that is at pc, and of one that added a row. *)
At(d, pc) == [pc |-> pc, add |-> deploy[d].add, pending |-> deploy[d].pending]
Plus(d, v) == [deploy[d].pending EXCEPT ![v] = deploy[d].pending[v] + 1]
AtPlus(d, v, pc) == [pc |-> pc, add |-> deploy[d].add, pending |-> Plus(d, v)]

LEMMA SetupFacts ==
    ASSUME SetupIInv, NEW d \in Deployments
    PROVE  /\ deploy[d] \in Deployment
           /\ deploy[d].pc \in SetupPC /\ deploy[d].add \in BOOLEAN
           /\ deploy[d].pending \in [Infra -> 0..2]
           /\ deploy[d].pending["teacher"] \in 0..2 /\ deploy[d].pending["base"] \in 0..2
           /\ rows["teacher"] \in 0..2 /\ rows["base"] \in 0..2
           /\ PendingOK(deploy[d]) /\ RowsOK(deploy[d])
           /\ NoDeploy \in Deployment /\ PendingOK(NoDeploy) /\ RowsOK(NoDeploy)
  <1>1. deploy[d] \in Deployment /\ rows \in [Infra -> 0..2]
    BY DEF SetupIInv, SetupTypeOK
  <1>2. deploy[d].pending \in [Infra -> 0..2] /\ deploy[d].add \in BOOLEAN
    BY <1>1 DEF Deployment
  <1>3. NoDeploy \in Deployment
    BY DEF NoDeploy, Deployment, Infra, SetupPC
  <1>4. PendingOK(NoDeploy) /\ RowsOK(NoDeploy)
    BY DEF NoDeploy, PendingOK, RowsOK, NewPC
  <1>5. deploy[d].pc \in SetupPC
    BY <1>1 DEF Deployment
  <1>6. QED
    BY <1>1, <1>2, <1>3, <1>4, <1>5 DEF SetupIInv, Infra

LEMMA ToIs ==
    ASSUME SetupIInv, NEW d \in Deployments, NEW pc \in SetupPC, To(d, pc)
    PROVE  At(d, pc) \in Deployment /\ deploy' = [deploy EXCEPT ![d] = At(d, pc)]
  <1>1. At(d, pc) \in Deployment
    BY SetupFacts DEF At, Deployment
  <1>2. [deploy[d] EXCEPT !.pc = pc] = At(d, pc)
    BY SetupFacts DEF At, Deployment
  <1>3. deploy' = [deploy EXCEPT ![d] = [deploy[d] EXCEPT !.pc = pc]]
    BY Zenon DEF To
  <1>4. QED
    BY <1>1, <1>2, <1>3

LEMMA RowToIs ==
    ASSUME SetupIInv, NEW d \in Deployments, NEW v \in Infra, NEW pc \in SetupPC,
           RowTo(d, v, pc), deploy[d].pending[v] <= 1
    PROVE  /\ AtPlus(d, v, pc) \in Deployment
           /\ deploy' = [deploy EXCEPT ![d] = AtPlus(d, v, pc)]
           /\ AtPlus(d, v, pc).pc = pc /\ AtPlus(d, v, pc).add = deploy[d].add
           /\ AtPlus(d, v, pc).pending = Plus(d, v)
           /\ Plus(d, v)[v] = deploy[d].pending[v] + 1
           /\ \A w \in Infra : w # v => Plus(d, v)[w] = deploy[d].pending[w]
  <1>1. Plus(d, v) \in [Infra -> 0..2]
    BY SetupFacts DEF Plus
  <1>2. AtPlus(d, v, pc) \in Deployment
    BY <1>1, SetupFacts DEF AtPlus, Deployment
  <1>3. deploy' = [deploy EXCEPT ![d] = AtPlus(d, v, pc)]
    BY DEF RowTo, AtPlus, Plus
  <1>4. QED
    BY <1>1, <1>2, <1>3, SetupFacts DEF AtPlus, Plus

(* A step of the one deployment, told by its record and by what it does to the
   two VMs. *)
LEMMA Steps ==
    ASSUME SetupIInv, NEW d, Deployments = {d}, NEW r \in Deployment,
           deploy' = [deploy EXCEPT ![d] = r], PendingOK(r), RowsOK(r),
           UNCHANGED <<templated, rows>>,
           disk' \in [Infra -> {"none", "bare", "empty", "overlay"}],
           away' \subseteq {v \in Infra : disk'[v] # "none"},
           pupils' \subseteq {"empty", "overlay", "manual"}
    PROVE  SetupIInv'
  <1>1. deploy' \in [Deployments -> Deployment] /\ deploy'[d] = r
    BY DEF SetupIInv, SetupTypeOK
  <1>2. SetupTypeOK'
    BY <1>1 DEF SetupIInv, SetupTypeOK
  <1>3. PendingOK(deploy[d])' /\ RowsOK(deploy[d])'
    BY <1>1 DEF PendingOK, RowsOK
  <1>4. QED
    BY <1>1, <1>2, <1>3 DEF SetupIInv

LEMMA DisksSame ==
    ASSUME SetupIInv, UNCHANGED <<disk, away>>
    PROVE  /\ disk' \in [Infra -> {"none", "bare", "empty", "overlay"}]
           /\ away' \subseteq {v \in Infra : disk'[v] # "none"}
  BY DEF SetupIInv, SetupTypeOK

LEMMA DiskBecomes ==
    ASSUME SetupIInv, NEW v \in Infra, NEW k \in {"none", "bare", "empty", "overlay"},
           disk' = [disk EXCEPT ![v] = k], away' = away \ {v} \/ (k # "none" /\ UNCHANGED away)
    PROVE  /\ disk' \in [Infra -> {"none", "bare", "empty", "overlay"}]
           /\ (k # "none" /\ UNCHANGED away /\ disk[v] = "none" => v \notin away)
           /\ away' \subseteq {w \in Infra : disk'[w] # "none"}
  BY DEF SetupIInv, SetupTypeOK

LEMMA GivesUp ==
    ASSUME SetupIInv, NEW d, Deployments = {d}, GiveUp(d), UNCHANGED <<templated, rows>>,
           disk' \in [Infra -> {"none", "bare", "empty", "overlay"}],
           away' \subseteq {v \in Infra : disk'[v] # "none"},
           pupils' \subseteq {"empty", "overlay", "manual"}
    PROVE  SetupIInv'
  BY SetupFacts, Steps DEF GiveUp

LEMMA GoesTo ==
    ASSUME SetupIInv, NEW d, Deployments = {d}, NEW pc \in SetupPC, To(d, pc),
           PendingOK(At(d, pc)), RowsOK(At(d, pc)), UNCHANGED <<templated, rows>>,
           disk' \in [Infra -> {"none", "bare", "empty", "overlay"}],
           away' \subseteq {v \in Infra : disk'[v] # "none"},
           pupils' \subseteq {"empty", "overlay", "manual"}
    PROVE  SetupIInv'
  BY ToIs, Steps

(* A row is added where there is room for one. *)
LEMMA AddsRow ==
    ASSUME SetupIInv, NEW d, Deployments = {d}, NEW v \in Infra, NEW pc \in SetupPC,
           RowTo(d, v, pc), UNCHANGED <<templated, rows>>,
           deploy[d].pc \in NewPC, pc \in NewPC,
           pc \notin {"export", "teacher", "teacher_make"},
           v = "teacher" => deploy[d].pending["teacher"] = 0,
           v = "base" => pc \notin {"base", "base_make"}
                           /\ (deploy[d].pending["base"] = 0 \/ pc = "store"),
           deploy[d].pending["base"] <= 1,
           v = "teacher" /\ pc \in {"base", "base_make"} => deploy[d].pending["base"] = 0,
           disk' \in [Infra -> {"none", "bare", "empty", "overlay"}],
           away' \subseteq {w \in Infra : disk'[w] # "none"},
           pupils' \subseteq {"empty", "overlay", "manual"}
    PROVE  SetupIInv'
  <1>1. deploy[d].pending[v] <= 1
    BY SetupFacts DEF Infra
  <1>2. d \in Deployments
    OBVIOUS
  <1>3. PendingOK(AtPlus(d, v, pc))
    <2>1. /\ AtPlus(d, v, pc).pc = pc
          /\ AtPlus(d, v, pc).pending["teacher"] =
                deploy[d].pending["teacher"] + (IF v = "teacher" THEN 1 ELSE 0)
          /\ AtPlus(d, v, pc).pending["base"] =
                deploy[d].pending["base"] + (IF v = "base" THEN 1 ELSE 0)
      BY <1>1, <1>2, RowToIs, SetupFacts DEF Infra
    <2>2. deploy[d].pending["teacher"] \in 0..1 /\ deploy[d].pending["base"] \in 0..1
      BY <1>2, SetupFacts DEF PendingOK
    <2> DEFINE r == AtPlus(d, v, pc)
    <2>3. pc \notin {"idle", "begin", "export", "teacher", "teacher_make"}
      BY DEF NewPC
    <2>4. r.pending["teacher"] <= 1
      BY <2>1, <2>2
    <2>5. pc \in {"base", "base_make"} => r.pending["base"] = 0
      BY <2>1, <2>2 DEF Infra
    <2>6. pc # "store" => r.pending["base"] <= 1
      BY <2>1, <2>2 DEF Infra
    <2>7. r.pc = pc
      BY <2>1
    <2> HIDE DEF r
    <2>8. PendingOK(r)
      BY <2>3, <2>4, <2>5, <2>6, <2>7 DEF PendingOK
    <2>9. QED
      BY <2>8 DEF r
  <1>4. RowsOK(AtPlus(d, v, pc))
    BY <1>1, <1>2, RowToIs, SetupFacts DEF RowsOK, NewPC
  <1>5. QED
    BY <1>1, <1>2, <1>3, <1>4, RowToIs, Steps

-----------------------------------------------------------------------------
(* The places in their order, and how many rows of each VM wait there. *)
LEMMA Looks ==
    ASSUME SetupIInv, NEW d, Deployments = {d}, NEW v \in Infra,
           NEW found \in NewPC, NEW absent \in NewPC, Look(d, v, found, absent),
           deploy[d].pc \in NewPC \ {"store"},
           found \notin {"export", "teacher", "teacher_make"},
           absent \in {"teacher_make"} => deploy[d].pc = "teacher",
           absent \notin {"export", "teacher"},
           {found, absent} \cap {"base", "base_make"} # {} => deploy[d].pending["base"] = 0,
           v = "base" => found \notin {"base", "base_make"}
    PROVE  SetupIInv'
  <1>1. /\ UNCHANGED <<templated, rows, disk, away, pupils>>
        /\ disk' \in [Infra -> {"none", "bare", "empty", "overlay"}]
        /\ away' \subseteq {w \in Infra : disk'[w] # "none"}
        /\ pupils' \subseteq {"empty", "overlay", "manual"}
    BY DisksSame DEF Look, SetupIInv, SetupTypeOK
  <1>2. d \in Deployments /\ found \in SetupPC /\ absent \in SetupPC
    BY DEF NewPC
  <1>3. ASSUME NEW pc \in {found, absent}, To(d, pc) , pc = "teacher_make" => deploy[d].pc = "teacher"
        PROVE  SetupIInv'
    <2> DEFINE r == At(d, pc)
    <2>0. r.pc = pc /\ r.add = deploy[d].add /\ r.pending = deploy[d].pending
      BY DEF At
    <2> HIDE DEF r
    <2>1. PendingOK(r)
      <3>1. pc \in {"base", "base_make"} => deploy[d].pending["base"] = 0
        BY <1>3
      <3>2. deploy[d].pending["teacher"] <= 1 /\ deploy[d].pending["base"] <= 1
        BY <1>2, SetupFacts DEF PendingOK
      <3>3. pc \in {"idle", "begin", "export", "teacher", "teacher_make"} =>
               deploy[d].pending["teacher"] = 0 /\ deploy[d].pending["base"] = 0
        BY <1>2, <1>3, SetupFacts DEF PendingOK, NewPC
      <3>4. QED
        BY <2>0, <3>1, <3>2, <3>3 DEF PendingOK
    <2>2. RowsOK(r)
      BY <1>2, <1>3, <2>0, SetupFacts DEF RowsOK, NewPC
    <2>3. QED
      BY <1>1, <1>2, <1>3, <2>1, <2>2, GoesTo DEF r
  <1>4. CASE Seen(v) /\ Known(d, v)
    BY <1>3, <1>4 DEF Look, NeededRow
  <1>5. CASE Seen(v) /\ ~Known(d, v)
    <2>1. RowTo(d, v, found)
      BY <1>5 DEF Look, NeededRow
    <2>2. deploy[d].pending[v] = 0 /\ deploy[d].pending["base"] <= 1
      BY <1>2, <1>5, SetupFacts DEF Known, PendingOK, Infra
    <2>3. QED
      BY <1>1, <1>2, <2>1, <2>2, AddsRow
  <1>6. CASE ~Seen(v)
    BY <1>3, <1>6 DEF Look
  <1>7. QED
    BY <1>4, <1>5, <1>6

(* An overlay is made for v, or the deployment gives up. *)
LEMMA Overlays ==
    ASSUME SetupIInv, NEW d, Deployments = {d}, NEW v \in Infra, NEW next \in NewPC,
           Overlay(d, v, next), deploy[d].pc \in NewPC \ {"store"},
           next \notin {"export", "teacher", "teacher_make"},
           v = "teacher" => deploy[d].pending["teacher"] = 0,
           deploy[d].pending["base"] = 0,
           v = "base" => next \notin {"base", "base_make"}
    PROVE  SetupIInv'
  <1>1. UNCHANGED <<templated, rows, pupils>> /\ pupils' \subseteq {"empty", "overlay", "manual"}
    BY DEF Overlay, SetupIInv, SetupTypeOK
  <1>2. next \in SetupPC
    BY DEF NewPC
  <1>3. CASE Becomes(v, "overlay") /\ RowTo(d, v, next)
    <2>1. /\ disk' \in [Infra -> {"none", "bare", "empty", "overlay"}]
          /\ away' \subseteq {w \in Infra : disk'[w] # "none"}
      BY <1>3, DiskBecomes DEF Becomes
    <2>2. QED
      BY <1>1, <1>2, <1>3, <2>1, AddsRow
  <1>4. CASE /\ OnDisk(v) /\ GiveUp(d) /\ UNCHANGED away
             /\ disk' \in {disk, [disk EXCEPT ![v] = "bare"]}
    <2>1. /\ disk' \in [Infra -> {"none", "bare", "empty", "overlay"}]
          /\ away' \subseteq {w \in Infra : disk'[w] # "none"}
      BY <1>4, DisksSame, DiskBecomes
    <2>2. QED
      BY <1>1, <1>4, <2>1, GivesUp
  <1>5. CASE GiveUp(d) /\ \E k \in {"none", "bare"} : Becomes(v, k)
    <2>1. /\ disk' \in [Infra -> {"none", "bare", "empty", "overlay"}]
          /\ away' \subseteq {w \in Infra : disk'[w] # "none"}
      BY <1>5, DiskBecomes DEF Becomes
    <2>2. QED
      BY <1>1, <1>5, <2>1, GivesUp
  <1>6. CASE GiveUp(d) /\ UNCHANGED <<disk, away>>
    BY <1>1, <1>6, DisksSame, GivesUp
  <1>7. QED
    BY <1>3, <1>4, <1>5, <1>6 DEF Overlay

(* The same two VMs as shells. *)
LEMMA Shells ==
    ASSUME SetupIInv, NEW d, Deployments = {d}, NEW v \in Infra,
           NEW next \in {"shell_disk", "base2_disk"}, Shell(d, v, next),
           deploy[d].pc \in NewPC \ {"store"}
    PROVE  SetupIInv'
  <1>1. UNCHANGED <<templated, rows, pupils>> /\ pupils' \subseteq {"empty", "overlay", "manual"}
    BY DEF Shell, SetupIInv, SetupTypeOK
  <1>2. /\ disk' \in [Infra -> {"none", "bare", "empty", "overlay"}]
        /\ away' \subseteq {w \in Infra : disk'[w] # "none"}
    BY DisksSame, DiskBecomes DEF Shell, Becomes
  <1>3. CASE To(d, next)
    <2> DEFINE r == At(d, next)
    <2>1. r.pc = next /\ r.add = deploy[d].add /\ r.pending = deploy[d].pending
      BY DEF At
    <2> HIDE DEF r
    <2>2. PendingOK(r) /\ RowsOK(r) /\ next \in SetupPC
      BY <2>1, SetupFacts DEF PendingOK, RowsOK, NewPC, SetupPC
    <2>3. QED
      BY <1>1, <1>2, <1>3, <2>2, GoesTo DEF r
  <1>4. CASE GiveUp(d)
    BY <1>1, <1>2, <1>4, GivesUp
  <1>5. QED
    BY <1>3, <1>4 DEF Shell

LEMMA Attaches ==
    ASSUME SetupIInv, NEW d, Deployments = {d}, NEW v \in Infra, NEW next \in {"base2", "store"},
           Attach(d, v, next), deploy[d].pc \in NewPC \ {"store"},
           v = "base" => next = "store"
    PROVE  SetupIInv'
  <1>1. UNCHANGED <<templated, rows, pupils>> /\ pupils' \subseteq {"empty", "overlay", "manual"}
    BY DEF Attach, SetupIInv, SetupTypeOK
  <1>2. next \in SetupPC /\ next \in NewPC
    BY DEF NewPC, SetupPC
  <1>3. CASE /\ OnDisk(v) /\ disk' = [disk EXCEPT ![v] = "empty"] /\ UNCHANGED away
             /\ IF v = "base" THEN RowTo(d, v, next) ELSE To(d, next)
    <2>1. /\ disk' \in [Infra -> {"none", "bare", "empty", "overlay"}]
          /\ away' \subseteq {w \in Infra : disk'[w] # "none"}
      BY <1>3, DiskBecomes
    <2>2. CASE v = "base"
      <3>1. deploy[d].pending["base"] <= 1
        BY SetupFacts DEF PendingOK
      <3>2. QED
        BY <1>1, <1>2, <1>3, <2>1, <2>2, <3>1, AddsRow
    <2>3. CASE v # "base"
      <3> DEFINE r == At(d, next)
      <3>1. r.pc = next /\ r.add = deploy[d].add /\ r.pending = deploy[d].pending
        BY DEF At
      <3> HIDE DEF r
      <3>2. PendingOK(r) /\ RowsOK(r)
        BY <3>1, SetupFacts DEF PendingOK, RowsOK, NewPC, SetupPC
      <3>3. QED
        BY <1>1, <1>2, <1>3, <2>1, <2>3, <3>2, GoesTo DEF r
    <2>4. QED
      BY <2>2, <2>3
  <1>4. CASE /\ GiveUp(d)
             /\ IF Seen(v) THEN Becomes(v, "none") ELSE UNCHANGED <<disk, away>>
    <2>1. /\ disk' \in [Infra -> {"none", "bare", "empty", "overlay"}]
          /\ away' \subseteq {w \in Infra : disk'[w] # "none"}
      BY <1>4, DisksSame, DiskBecomes DEF Becomes
    <2>2. QED
      BY <1>1, <1>4, <2>1, GivesUp
  <1>5. QED
    BY <1>3, <1>4 DEF Attach

-----------------------------------------------------------------------------
(* Steps that leave the deployment where it is. *)
LEMMA StaysPut ==
    ASSUME SetupIInv, UNCHANGED <<templated, rows, deploy>>,
           disk' \in [Infra -> {"none", "bare", "empty", "overlay"}],
           away' \subseteq {v \in Infra : disk'[v] # "none"},
           pupils' \subseteq {"empty", "overlay", "manual"}
    PROVE  SetupIInv'
  <1>1. SetupTypeOK'
    BY DEF SetupIInv, SetupTypeOK
  <1>2. QED
    BY <1>1 DEF SetupIInv, PendingOK, RowsOK

LEMMA Outsiders ==
    ASSUME SetupIInv,
           AddByHand \/ (\E v \in Infra : Move(v) \/ DeleteVm(v))
              \/ (\E d \in Deployments : MigrateTeacher(d))
    PROVE  SetupIInv'
  <1>1. CASE AddByHand
    BY <1>1, DisksSame, StaysPut DEF AddByHand, SetupIInv, SetupTypeOK
  <1>2. ASSUME NEW v \in Infra, Move(v) PROVE SetupIInv'
    BY <1>2, StaysPut DEF Move, Seen, OnDisk, SetupIInv, SetupTypeOK
  <1>3. ASSUME NEW v \in Infra, DeleteVm(v) PROVE SetupIInv'
    BY <1>3, DiskBecomes, StaysPut DEF DeleteVm, Becomes, SetupIInv, SetupTypeOK
  <1>4. ASSUME NEW d \in Deployments, MigrateTeacher(d) PROVE SetupIInv'
    BY <1>4, StaysPut DEF MigrateTeacher, Seen, OnDisk, Infra, SetupIInv, SetupTypeOK
  <1>5. QED
    BY <1>1, <1>2, <1>3, <1>4

(* The beginning: a class with rows is added to. *)
LEMMA Begins ==
    ASSUME SetupIInv, NEW d, Deployments = {d}, SetupBegin(d) PROVE SetupIInv'
  <1> DEFINE r == [pc |-> "begin", add |-> AddsTo, pending |-> NoDeploy.pending]
  <1>1. deploy' = [deploy EXCEPT ![d] = r] /\ UNCHANGED <<templated, disk, away, rows, pupils>>
    BY DEF SetupBegin
  <1>2. /\ r.pc = "begin" /\ r.add = AddsTo
        /\ r.pending["teacher"] = 0 /\ r.pending["base"] = 0
    BY DEF NoDeploy
  <1>3. r \in Deployment
    BY DEF Deployment, NoDeploy, SetupPC, Infra, AddsTo, Anyone, Seen, OnDisk
  <1> HIDE DEF r
  <1>4. ~AddsTo => rows["teacher"] = 0 /\ rows["base"] = 0
    BY SetupFacts DEF AddsTo, Anyone, Infra
  <1>5. PendingOK(r) /\ RowsOK(r)
    BY <1>2, <1>4 DEF PendingOK, RowsOK, NewPC
  <1>6. QED
    BY <1>1, <1>3, <1>5, DisksSame, Steps DEF SetupIInv, SetupTypeOK

LEMMA Prepares ==
    ASSUME SetupIInv, NEW d, Deployments = {d}, AddStudents(d) \/ New(d) \/ Export(d) \/ Breaks(d)
    PROVE  SetupIInv'
  <1>1. /\ UNCHANGED <<templated, rows>>
        /\ disk' \in [Infra -> {"none", "bare", "empty", "overlay"}]
        /\ away' \subseteq {v \in Infra : disk'[v] # "none"}
        /\ pupils' \subseteq {"empty", "overlay", "manual"}
    BY DisksSame DEF AddStudents, New, Export, Breaks, SetupIInv, SetupTypeOK
  <1>2. CASE GiveUp(d)
    BY <1>1, <1>2, GivesUp
  <1>3. ASSUME NEW pc \in {"students", "export", "teacher"}, To(d, pc),
               pc = "students" => rows["teacher"] > 0,
               pc # "students" => deploy[d].pc = "export" \/ (deploy[d].pc = "begin" /\ ~deploy[d].add),
               deploy[d].pc \in {"begin", "export"}
        PROVE  SetupIInv'
    <2> DEFINE r == At(d, pc)
    <2>1. r.pc = pc /\ r.add = deploy[d].add /\ r.pending = deploy[d].pending
      BY DEF At
    <2> HIDE DEF r
    <2>2. deploy[d].pending["teacher"] = 0 /\ deploy[d].pending["base"] = 0
      BY <1>3, SetupFacts DEF PendingOK
    <2>3. PendingOK(r)
      BY <2>1, <2>2 DEF PendingOK
    <2>4. RowsOK(r)
      BY <1>3, <2>1, SetupFacts DEF RowsOK, NewPC, SetupPC
    <2>5. pc \in SetupPC
      BY DEF SetupPC
    <2>6. QED
      BY <1>1, <1>3, <2>3, <2>4, <2>5, GoesTo DEF r
  <1>4. QED
    BY <1>2, <1>3 DEF AddStudents, New, Export, Breaks, In

(* Both VMs exist: the rows are committed. *)
LEMMA Stores ==
    ASSUME SetupIInv, NEW d, Deployments = {d}, Store(d) PROVE SetupIInv'
  <1>1. UNCHANGED <<templated, disk, away, pupils>> /\ deploy[d].pc = "store"
    BY DEF Store, In
  <1>2. CASE rows' = Stored(d) /\ deploy' = [deploy EXCEPT ![d] =
                 [pc |-> "students", add |-> deploy[d].add, pending |-> NoDeploy.pending]]
    <2> DEFINE r == [pc |-> "students", add |-> deploy[d].add, pending |-> NoDeploy.pending]
    <2>1. /\ r.pc = "students" /\ r \in Deployment
          /\ r.pending["teacher"] = 0 /\ r.pending["base"] = 0
      BY SetupFacts DEF Deployment, NoDeploy, SetupPC, Infra
    <2>2. deploy' = [deploy EXCEPT ![d] = r]
      BY <1>2
    <2> HIDE DEF r
    <2>3. deploy' \in [Deployments -> Deployment] /\ deploy'[d] = r
      BY <2>1, <2>2 DEF SetupIInv, SetupTypeOK
    <2>4. /\ rows["teacher"] = 0 /\ rows["base"] = 0
          /\ deploy[d].pending["teacher"] \in 0..1 /\ deploy[d].pending["base"] \in 0..2
      BY <1>1, SetupFacts DEF RowsOK, PendingOK, NewPC, SetupPC
    <2>5. rows'["teacher"] = 1 /\ rows'["base"] \in 0..2 /\ rows' \in [Infra -> 0..2]
      <3>1. /\ rows'["base"] = deploy[d].pending["base"]
            /\ rows'["teacher"] = IF deploy[d].pending["teacher"] > 0
                                  THEN deploy[d].pending["teacher"] ELSE 1
            /\ rows' = [teacher |-> rows'["teacher"], base |-> rows'["base"]]
        BY <1>2, <2>4 DEF Stored, Known
      <3>2. QED
        BY <2>4, <3>1 DEF Infra
    <2>6. SetupTypeOK'
      BY <1>1, <2>3, <2>5 DEF SetupIInv, SetupTypeOK
    <2>7. PendingOK(deploy[d])' /\ RowsOK(deploy[d])'
      BY <2>1, <2>3, <2>5 DEF PendingOK, RowsOK, NewPC
    <2>8. QED
      BY <2>5, <2>6, <2>7 DEF SetupIInv
  <1>3. CASE GiveUp(d) /\ UNCHANGED rows
    BY <1>1, <1>3, DisksSame, GivesUp DEF SetupIInv, SetupTypeOK
  <1>4. QED
    BY <1>2, <1>3 DEF Store

LEMMA Enrols ==
    ASSUME SetupIInv, NEW d, Deployments = {d}, StudentRows(d) PROVE SetupIInv'
  <1>1. pupils' \subseteq {"empty", "overlay", "manual"}
    BY DEF StudentRows, StudentDisk, SetupIInv, SetupTypeOK
  <1>2. QED
    BY <1>1, DisksSame, GivesUp DEF StudentRows

LEMMA Machines ==
    ASSUME SetupIInv, NEW d, Deployments = {d},
           TeacherVm(d) \/ ClassBase(d) \/ TeacherShell(d) \/ BaseShell(d)
    PROVE  SetupIInv'
  <1> USE DEF In
  <1>1. d \in Deployments /\ "teacher" \in Infra /\ "base" \in Infra
    BY DEF Infra
  <1>2. /\ {"base", "teacher_make", "shell", "base_make", "base2", "shell_make", "store",
            "base2_make", "shell_disk", "base2_disk", "teacher"} \subseteq NewPC
    BY DEF NewPC, SetupPC
  <1>3. CASE TeacherVm(d)
    <2>1. /\ deploy[d].pc \in {"teacher", "teacher_make"}
          /\ deploy[d].pending["base"] = 0 /\ deploy[d].pending["teacher"] = 0
      BY <1>1, <1>3, SetupFacts DEF TeacherVm, PendingOK
    <2>2. CASE Look(d, "teacher", "base", "teacher_make") /\ deploy[d].pc = "teacher"
      BY <1>1, <1>2, <2>1, <2>2, Looks
    <2>3. CASE Overlay(d, "teacher", "base")
      BY <1>1, <1>2, <2>1, <2>3, Overlays
    <2>4. QED
      BY <1>3, <2>2, <2>3 DEF TeacherVm
  <1>4. CASE ClassBase(d)
    <2>1. /\ deploy[d].pc \in {"base", "base_make"} /\ deploy[d].pending["base"] = 0
      BY <1>1, <1>4, SetupFacts DEF ClassBase, PendingOK
    <2>2. CASE Look(d, "base", "shell", "base_make")
      BY <1>1, <1>2, <2>1, <2>2, Looks
    <2>3. CASE Overlay(d, "base", "shell")
      BY <1>1, <1>2, <2>1, <2>3, Overlays
    <2>4. QED
      BY <1>4, <2>2, <2>3 DEF ClassBase
  <1>5. CASE TeacherShell(d)
    <2>1. CASE MigrateTeacher(d)
      BY <1>1, <2>1, Outsiders
    <2>2. CASE Look(d, "teacher", "base2", "shell_make") /\ deploy[d].pc = "shell"
      BY <1>1, <1>2, <2>2, Looks
    <2>3. CASE Shell(d, "teacher", "shell_disk") /\ deploy[d].pc = "shell_make"
      BY <1>1, <1>2, <2>3, Shells
    <2>4. CASE Attach(d, "teacher", "base2") /\ deploy[d].pc = "shell_disk"
      BY <1>1, <1>2, <2>4, Attaches
    <2>5. QED
      BY <1>5, <2>1, <2>2, <2>3, <2>4 DEF TeacherShell
  <1>6. CASE BaseShell(d)
    <2>1. CASE Look(d, "base", "store", "base2_make") /\ deploy[d].pc = "base2"
      BY <1>1, <1>2, <2>1, Looks
    <2>2. CASE Shell(d, "base", "base2_disk") /\ deploy[d].pc = "base2_make"
      BY <1>1, <1>2, <2>2, Shells
    <2>3. CASE Attach(d, "base", "store") /\ deploy[d].pc = "base2_disk"
      BY <1>1, <1>2, <2>3, Attaches
    <2>4. QED
      BY <1>6, <2>1, <2>2, <2>3 DEF BaseShell
  <1>7. QED
    BY <1>3, <1>4, <1>5, <1>6

-----------------------------------------------------------------------------
LEMMA SetupKeeps ==
    ASSUME NEW d, Deployments = {d} PROVE SetupSpec => []SetupIInv
  <1>1. SetupInit => SetupIInv
    <2> SUFFICES ASSUME SetupInit PROVE SetupIInv
      OBVIOUS
    <2>1. SetupTypeOK
      BY DEF SetupInit, SetupTypeOK, Infra, Deployment, NoDeploy, SetupPC
    <2>2. PendingOK(NoDeploy) /\ RowsOK(NoDeploy)
      BY DEF NoDeploy, PendingOK, RowsOK, NewPC
    <2>3. QED
      BY <2>1, <2>2 DEF SetupInit, SetupIInv
  <1>2. SetupIInv /\ [SetupNext]_setupVars => SetupIInv'
    <2> SUFFICES ASSUME SetupIInv, [SetupNext]_setupVars PROVE SetupIInv'
      OBVIOUS
    <2>1. CASE UNCHANGED setupVars
      BY <2>1, DisksSame, StaysPut DEF setupVars, SetupIInv, SetupTypeOK
    <2>2. CASE SetupNext
      BY <2>2, Begins, Prepares, Machines, Stores, Enrols, Outsiders
         DEF SetupNext, SetupStep
    <2>3. QED
      BY <2>1, <2>2
  <1>3. QED
    BY <1>1, <1>2, PTL DEF SetupSpec

(* Whatever breaks off, is moved or is deleted, and however often the one
   deployment of the class is repeated: one row of the teacher's VM, and it before
   any student's (class_vm_service.py, create_class_vms). *)
THEOREM TeacherOnceAndFirst ==
    ASSUME NEW d, Deployments = {d}
    PROVE  SetupSpec => []SetupInv
  <1>1. SetupIInv => SetupInv
    BY DEF SetupIInv, SetupInv, TeacherListedOnce, TeacherFirst, RowsOK, In
  <1>2. QED
    BY <1>1, SetupKeeps, PTL

(* A class that has its teacher's row is only added to: its two disks stay
   (class_vm_service.py, create_class_vms). *)
THEOREM DisksStay ==
    ASSUME NEW d, Deployments = {d}
    PROVE  SetupSpec => InfraKept
  <1>1. SetupIInv /\ [SetupNext]_setupVars =>
           [\A v \in Infra :
               disk[v] \in {"empty", "overlay"} /\ rows["teacher"] > 0 /\ deploy' # deploy
                   => disk'[v] = disk[v]]_setupVars
    <2> SUFFICES ASSUME SetupIInv, SetupNext, rows["teacher"] > 0, deploy' # deploy,
                        NEW v \in Infra
                 PROVE  disk'[v] = disk[v]
      OBVIOUS
    <2>1. deploy[d].pc \notin NewPC
      BY SetupFacts DEF RowsOK
    <2>2. UNCHANGED disk
      BY <2>1 DEF SetupNext, SetupStep, SetupBegin, AddStudents, New, Export, TeacherVm, ClassBase,
             TeacherShell, BaseShell, MigrateTeacher, Store, StudentRows, Breaks, Move,
             DeleteVm, AddByHand, In, NewPC, SetupPC
    <2>3. QED
      BY <2>2
  <1>2. QED
    BY <1>1, SetupKeeps, PTL DEF SetupSpec, InfraKept

-----------------------------------------------------------------------------
(* LinkedClones.                                                             *)

USE CloneAssumption

(* What a deployment knows to be its own: the VMs it counts as made, and the
   one it is verifying.                                                      *)
MadeIsOwn ==
    \A c \in Labs :
        /\ \A id \in clone[c].made : owner[id] = c
        /\ clone[c].pc = "verify" => Vmid(c) \in Vmids /\ owner[Vmid(c)] = c
        /\ clone[c].pc \in {"clone", "verify"} => clone[c].next <= clone[c].size

CloneIInv == CloneTypeOK /\ ListedAreCloned /\ MadeIsOwn

LEMMA CloneFacts ==
    ASSUME CloneIInv, NEW c \in Labs
    PROVE  /\ clone[c] \in Clone
           /\ clone[c].start \in Nat /\ clone[c].size \in Nat /\ clone[c].next \in Nat
           /\ clone[c].made \in SUBSET Vmids
           /\ Vmids \subseteq Nat
  <1>1. clone[c] \in Clone
    BY DEF CloneIInv, CloneTypeOK
  <1>2. QED
    BY <1>1 DEF Clone, Vmids

(* A step of one deployment that says what becomes of its record, takes no
   VMID from anybody and lists only what is its own. *)
LEMMA OneSteps ==
    ASSUME CloneIInv, NEW c \in Labs, NEW r \in Clone, clone' = [clone EXCEPT ![c] = r],
           owner' \in [Vmids -> Labs \cup {"other", Nobody}],
           \A id \in Vmids : owner'[id] = owner[id] \/ owner[id] = Nobody,
           listedBy' \in [Vmids -> SUBSET Labs],
           \A id \in Vmids : listedBy'[id] \subseteq listedBy[id] \cup {x \in {c} : owner[id] = c},
           \A id \in r.made : owner'[id] = c,
           r.pc = "verify" => r.start + r.next \in Vmids /\ owner'[r.start + r.next] = c,
           r.pc \in {"clone", "verify"} => r.next <= r.size, r.next <= r.size + 1,
           troubles' \in 0..MaxTroubles, strangers' \in 0..MaxStrangers
    PROVE  CloneIInv'
  <1>1. /\ clone' \in [Labs -> Clone] /\ clone'[c] = r
        /\ \A d \in Labs \ {c} : clone'[d] = clone[d]
    BY DEF CloneIInv, CloneTypeOK
  <1>2. CloneTypeOK'
    BY <1>1 DEF CloneIInv, CloneTypeOK
  <1>3. \A d \in Labs, id \in Vmids : owner[id] = d => owner'[id] = d
    OBVIOUS
  <1>4. ListedAreCloned'
    <2> SUFFICES ASSUME NEW id \in Vmids, NEW d \in listedBy'[id] PROVE d = owner'[id]
      BY DEF ListedAreCloned
    <2>1. d \in Labs
      OBVIOUS
    <2>2. d \in listedBy[id] \/ (d = c /\ owner[id] = c)
      OBVIOUS
    <2>3. owner[id] = d
      BY <2>2 DEF CloneIInv, ListedAreCloned
    <2>4. QED
      BY <1>3, <2>1, <2>3
  <1>5. MadeIsOwn'
    <2> SUFFICES ASSUME NEW d \in Labs
                 PROVE  /\ \A id \in clone'[d].made : owner'[id] = d
                        /\ clone'[d].pc = "verify" => Vmid(d)' \in Vmids /\ owner'[Vmid(d)'] = d
                        /\ clone'[d].pc \in {"clone", "verify"} => clone'[d].next <= clone'[d].size
      BY DEF MadeIsOwn
    <2>1. CASE d = c
      BY <1>1, <2>1 DEF Vmid
    <2>2. CASE d # c
      BY <1>1, <1>3, <2>2, CloneFacts DEF CloneIInv, MadeIsOwn, Vmid
    <2>3. QED
      BY <2>1, <2>2
  <1>6. QED
    BY <1>2, <1>4, <1>5 DEF CloneIInv

LEMMA Counters ==
    ASSUME CloneIInv
    PROVE  /\ troubles \in 0..MaxTroubles /\ strangers \in 0..MaxStrangers
           /\ Trouble => troubles' \in 0..MaxTroubles
  BY DEF CloneIInv, CloneTypeOK, Trouble

(* The record of a deployment that goes on to its next VM. *)
Advanced(c, vms) ==
    [pc |-> IF clone[c].next = clone[c].size THEN "record" ELSE "clone",
     start |-> clone[c].start, size |-> clone[c].size,
     next |-> clone[c].next + 1, made |-> vms]

LEMMA OnwardIs ==
    ASSUME CloneIInv, NEW c \in Labs, NEW vms \in SUBSET Vmids, Onward(c, vms),
           clone[c].next <= clone[c].size
    PROVE  /\ Advanced(c, vms) \in Clone
           /\ clone' = [clone EXCEPT ![c] = Advanced(c, vms)]
           /\ Advanced(c, vms).made = vms
           /\ Advanced(c, vms).pc \in {"record", "clone"}
           /\ Advanced(c, vms).pc = "clone" => Advanced(c, vms).next <= Advanced(c, vms).size
           /\ Advanced(c, vms).next <= Advanced(c, vms).size + 1
  <1>1. Advanced(c, vms) \in Clone
    BY CloneFacts DEF Advanced, Clone
  <1>2. clone' = [clone EXCEPT ![c] = Advanced(c, vms)]
    BY CloneFacts DEF Onward, Advanced, Clone, CloneIInv, CloneTypeOK
  <1>3. QED
    BY <1>1, <1>2, CloneFacts DEF Advanced

(* The same record but for where the deployment is. *)
Turned(c, pc) == [pc |-> pc, start |-> clone[c].start, size |-> clone[c].size,
                  next |-> clone[c].next, made |-> clone[c].made]

LEMMA TurnIs ==
    ASSUME CloneIInv, NEW c \in Labs, NEW pc \in {"verify", "done"}, Turn(c, pc)
    PROVE  /\ Turned(c, pc) \in Clone
           /\ clone' = [clone EXCEPT ![c] = Turned(c, pc)]
  <1>1. Turned(c, pc) \in Clone
    BY CloneFacts DEF Turned, Clone
  <1>2. [clone[c] EXCEPT !.pc = pc] = Turned(c, pc)
    BY CloneFacts DEF Turned, Clone
  <1>3. clone' = [clone EXCEPT ![c] = [clone[c] EXCEPT !.pc = pc]]
    BY Zenon DEF Turn
  <1>4. QED
    BY <1>1, <1>2, <1>3

LEMMA CloneNextKeeps == ASSUME CloneIInv, CloneNext PROVE CloneIInv'
  <1>1. CASE Stranger
    <2>1. PICK id \in Vmids : owner[id] = Nobody /\ owner' = [owner EXCEPT ![id] = "other"]
      BY <1>1 DEF Stranger
    <2>2. UNCHANGED <<listedBy, clone, troubles>> /\ strangers' \in 0..MaxStrangers
      BY <1>1, Counters DEF Stranger
    <2>3. CloneTypeOK'
      BY <2>1, <2>2 DEF CloneIInv, CloneTypeOK
    <2>4. \A j \in Vmids, d \in Labs : owner[j] = d => owner'[j] = d
      BY <2>1 DEF CloneIInv, CloneTypeOK
    <2>5. ListedAreCloned'
      BY <2>2, <2>4 DEF CloneIInv, CloneTypeOK, ListedAreCloned
    <2>6. MadeIsOwn'
      BY <2>2, <2>4, CloneFacts DEF CloneIInv, MadeIsOwn, Vmid
    <2>7. QED
      BY <2>3, <2>5, <2>6 DEF CloneIInv
  <1>2. ASSUME NEW c \in Labs, NEW n \in PoolSizes, create_new_class(c, n) PROVE CloneIInv'
    <2>1. PICK used \in SUBSET Used :
             /\ IF used = Used THEN UNCHANGED troubles ELSE Trouble
             /\ \E start \in IF PrefixOf[c] > 0 THEN {PrefixOf[c] * Width}
                                                ELSE FirstFree(used) :
                   clone' = [clone EXCEPT ![c] =
                      [pc |-> "clone", start |-> start, size |-> n, next |-> 0, made |-> {}]]
      BY <1>2 DEF create_new_class
    <2>2. PICK start \in Nat :
             clone' = [clone EXCEPT ![c] =
                [pc |-> "clone", start |-> start, size |-> n, next |-> 0, made |-> {}]]
      <3>1. (IF PrefixOf[c] > 0 THEN {PrefixOf[c] * Width} ELSE FirstFree(used)) \subseteq Nat
        BY DEF FirstFree, Vmids
      <3>2. QED
        BY <2>1, <3>1
    <2> DEFINE r == [pc |-> "clone", start |-> start, size |-> n, next |-> 0, made |-> {}]
    <2>3. r \in Clone /\ r.made = {} /\ r.pc = "clone" /\ r.next <= r.size /\ r.next <= r.size + 1
      BY <2>2 DEF Clone
    <2>4. clone' = [clone EXCEPT ![c] = r]
      BY <2>2
    <2>5. troubles' \in 0..MaxTroubles /\ UNCHANGED <<owner, listedBy, strangers>>
      BY <1>2, <2>1, Counters DEF create_new_class
    <2> HIDE DEF r
    <2>6. QED
      BY <2>3, <2>4, <2>5, Counters, OneSteps DEF CloneIInv, CloneTypeOK
  <1>3. ASSUME NEW c \in Labs, NotFound(c) \/ RecordFails(c) PROVE CloneIInv'
    <2>1. Turn(c, "done") /\ Trouble /\ UNCHANGED <<owner, listedBy, strangers>>
      BY <1>3 DEF NotFound, RecordFails
    <2>2. /\ Turned(c, "done").pc = "done" /\ Turned(c, "done").made = clone[c].made
          /\ Turned(c, "done").next <= Turned(c, "done").size + 1
      BY DEF Turned, CloneIInv, CloneTypeOK
    <2>3. QED
      BY <2>1, <2>2, TurnIs, Counters, OneSteps DEF CloneIInv, CloneTypeOK, MadeIsOwn
  <1>4. ASSUME NEW c \in Labs, Cloned(c) PROVE CloneIInv'
    <2>1. /\ Vmid(c) \in Vmids /\ owner[Vmid(c)] = Nobody /\ clone[c].pc = "clone"
          /\ owner' = [owner EXCEPT ![Vmid(c)] = c]
          /\ UNCHANGED <<listedBy, troubles, strangers>>
      BY <1>4 DEF Cloned
    <2>2. /\ owner' \in [Vmids -> Labs \cup {"other", Nobody}] /\ owner'[Vmid(c)] = c
          /\ \A id \in Vmids : owner'[id] = owner[id] \/ owner[id] = Nobody
          /\ \A id \in clone[c].made : owner'[id] = c
          /\ clone[c].next <= clone[c].size
      BY <2>1 DEF CloneIInv, CloneTypeOK, MadeIsOwn
    <2>3. CASE clone[c].next = 0
      <3>1. Onward(c, {Vmid(c)})
        BY <1>4, <2>3 DEF Cloned
      <3>2. QED
        BY <2>1, <2>2, <3>1, OnwardIs, Counters, OneSteps DEF CloneIInv, CloneTypeOK
    <2>4. CASE clone[c].next # 0
      <3>1. Turn(c, "verify")
        BY <1>4, <2>4 DEF Cloned
      <3>2. /\ Turned(c, "verify").start + Turned(c, "verify").next = Vmid(c)
            /\ Turned(c, "verify").made = clone[c].made
            /\ Turned(c, "verify").next <= Turned(c, "verify").size
            /\ Turned(c, "verify").next <= Turned(c, "verify").size + 1
        BY <2>2, CloneFacts DEF Turned, Vmid
      <3>3. QED
        BY <2>1, <2>2, <3>1, <3>2, TurnIs, Counters, OneSteps DEF CloneIInv, CloneTypeOK
    <2>5. QED
      BY <2>3, <2>4
  <1>5. ASSUME NEW c \in Labs, CloneFails(c) \/ Verify(c) \/ VerifyFails(c) PROVE CloneIInv'
    <2>1. PICK vms \in {clone[c].made, clone[c].made \cup {Vmid(c)}} :
             /\ Onward(c, vms)
             /\ clone[c].pc \in {"clone", "verify"}
             /\ vms # clone[c].made => clone[c].pc = "verify"
      BY <1>5 DEF CloneFails, Verify, VerifyFails
    <2>2. UNCHANGED <<listedBy, strangers>> /\ troubles' \in 0..MaxTroubles
      BY <1>5, Counters DEF CloneFails, Verify, VerifyFails
    <2>3. \/ owner' = owner
          \/ /\ Vmid(c) \in Vmids /\ owner[Vmid(c)] = Nobody
             /\ owner' = [owner EXCEPT ![Vmid(c)] = c]
      BY <1>5 DEF CloneFails, Verify, VerifyFails, Used
    <2>4. /\ owner' \in [Vmids -> Labs \cup {"other", Nobody}]
          /\ \A id \in Vmids : owner'[id] = owner[id] \/ owner[id] = Nobody
      BY <2>3 DEF CloneIInv, CloneTypeOK
    <2>5. /\ vms \in SUBSET Vmids /\ clone[c].next <= clone[c].size
          /\ \A id \in vms : owner[id] = c
      BY <2>1, CloneFacts DEF CloneIInv, MadeIsOwn
    <2>6. \A id \in vms : owner'[id] = c
      BY <2>4, <2>5, CloneAssumption
    <2>7. QED
      BY <2>1, <2>2, <2>4, <2>5, <2>6, OnwardIs, Counters, OneSteps DEF CloneIInv, CloneTypeOK
  <1>6. ASSUME NEW c \in Labs, Record(c) PROVE CloneIInv'
    <2>1. /\ listedBy' = [id \in Vmids |->
                  IF id \in clone[c].made THEN listedBy[id] \cup {c} ELSE listedBy[id]]
          /\ Turn(c, "done") /\ UNCHANGED <<owner, troubles, strangers>>
      BY <1>6 DEF Record
    <2>2. /\ listedBy' \in [Vmids -> SUBSET Labs]
          /\ \A id \in Vmids :
                listedBy'[id] \subseteq listedBy[id] \cup {x \in {c} : owner[id] = c}
      BY <2>1 DEF CloneIInv, CloneTypeOK, MadeIsOwn
    <2>3. /\ Turned(c, "done").pc = "done" /\ Turned(c, "done").made = clone[c].made
          /\ Turned(c, "done").next <= Turned(c, "done").size + 1
      BY DEF Turned, CloneIInv, CloneTypeOK
    <2>4. QED
      BY <2>1, <2>2, <2>3, TurnIs, Counters, OneSteps DEF CloneIInv, CloneTypeOK, MadeIsOwn
  <1>7. QED
    BY <1>1, <1>2, <1>3, <1>4, <1>5, <1>6 DEF CloneNext, CloneStep

(* For every set of deployments that find the same VMIDs free, however their
   steps mix: no VM is listed by a class it was not cloned for
   (linked_clone_service.py, deploy_linked_clones). *)
THEOREM ListedAreOwn == CloneSpec => []CloneInv
  <1>1. CloneInit => CloneIInv
    BY DEF CloneInit, CloneIInv, CloneTypeOK, ListedAreCloned, MadeIsOwn, NoClone, Clone
  <1>2. CloneIInv /\ [CloneNext]_cloneVars => CloneIInv'
    <2>1. CASE UNCHANGED cloneVars
      BY <2>1 DEF cloneVars, CloneIInv, CloneTypeOK, ListedAreCloned, MadeIsOwn, Vmid
    <2>2. QED
      BY <2>1, CloneNextKeeps
  <1>3. CloneIInv => CloneInv
    BY DEF CloneIInv, CloneInv
  <1>4. QED
    BY <1>1, <1>2, <1>3, PTL DEF CloneSpec
=============================================================================
