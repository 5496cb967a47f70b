------------------------- MODULE ClassImagesProofs --------------------------
(***************************************************************************)
(* Proofs about ClassImages: for every set of students, whatever operations *)
(* one owner runs and whatever commands fail, a class made from a template  *)
(* keeps a whole copy of its image; with several owners and no failure only *)
(* two pushes lose it; and with one owner and no failure the VMs of teacher *)
(* and students keep their disks.                                           *)
(***************************************************************************)
EXTENDS ClassImages, TLAPS

USE ImageAssumption DEF Files, Image, Kinds

(* No file is half-written, and the base is whole when a push has replaced it
   and not yet removed the old one.                                          *)
Unbroken == \A f \in Files : image[f] # "part"
Pushed   == \A e \in Editors : job[e].pc \in {"push_rebase", "push_clean"} =>
                                  image["base"] = "whole"

ImgIInv ==
    /\ template \in BOOLEAN
    /\ image \in [Files -> Image]
    /\ faults \in [Kinds -> Nat]
    /\ job \in [Editors -> Job]
    /\ template /\ faults["convert"] = 0 => Unbroken /\ HasImage /\ Pushed

-----------------------------------------------------------------------------
LEMMA JobMoves ==
    ASSUME job \in [Editors -> Job], NEW e \in Editors
    PROVE  /\ \A pc \in JobPC : Proceed(e, pc) =>
                 job' \in [Editors -> Job] /\ job'[e].pc = pc
           /\ Answer(e) => job' \in [Editors -> Job] /\ job'[e].pc = "idle"
           /\ \A s \in Students : Handled(e, s) =>
                 job' \in [Editors -> Job] /\ job'[e].pc = job[e].pc
  <1>1. job[e] \in Job
    OBVIOUS
  <1>2. ASSUME NEW pc \in JobPC, Proceed(e, pc)
        PROVE  job' \in [Editors -> Job] /\ job'[e].pc = pc
    BY <1>1, <1>2 DEF Proceed, Job
  <1>3. ASSUME Answer(e)
        PROVE  job' \in [Editors -> Job] /\ job'[e].pc = "idle"
    BY <1>3 DEF Answer, Rest, Job, JobPC
  <1>4. ASSUME NEW s \in Students, Handled(e, s)
        PROVE  job' \in [Editors -> Job] /\ job'[e].pc = job[e].pc
    BY <1>1, <1>4 DEF Handled, Job
  <1>5. QED
    BY <1>2, <1>3, <1>4

LEMMA FaultsMove ==
    ASSUME faults \in [Kinds -> Nat]
    PROVE  /\ \A k \in Kinds : Failing(k) =>
                 /\ faults' \in [Kinds -> Nat]
                 /\ faults'["convert"] = 0 => faults["convert"] = 0
           /\ Failing("convert") => faults'["convert"] # 0
  BY DEF Failing

(* A rename keeps every file whole and keeps one of the three. *)
LEMMA MoveKeeps ==
    ASSUME image \in [Files -> Image], NEW a \in Files, NEW b \in {"base", "old", "backup"},
           image' = Moved(a, b), a # b
    PROVE  /\ image' \in [Files -> Image]
           /\ Unbroken => Unbroken'
           /\ Unbroken /\ HasImage => HasImage'
           /\ Unbroken /\ image[a] # "none" => image'[b] = "whole"
  <1>1. CASE image[a] = "none"
    BY <1>1 DEF Moved, Unbroken, HasImage
  <1>2. CASE image[a] # "none"
    <2>1. /\ image' \in [Files -> Image]
          /\ image'[b] = image[a] /\ image'[a] = "none"
          /\ \A f \in Files \ {a, b} : image'[f] = image[f]
      BY <1>2 DEF Moved
    <2>2. Unbroken => Unbroken'
      BY <2>1 DEF Unbroken
    <2>3. Unbroken => image'[b] = "whole"
      BY <1>2, <2>1 DEF Unbroken
    <2>4. QED
      BY <2>1, <2>2, <2>3 DEF HasImage
  <1>3. QED
    BY <1>1, <1>2

LEMMA RemoveKeeps ==
    ASSUME image \in [Files -> Image], NEW f \in {"staging", "old"}, image' = Removed(f)
    PROVE  /\ image' \in [Files -> Image]
           /\ Unbroken => Unbroken'
           /\ image'["base"] = image["base"]
           /\ f = "staging" /\ HasImage => HasImage'
           /\ image["base"] = "whole" => HasImage'
  BY DEF Removed, Unbroken, HasImage

-----------------------------------------------------------------------------
(* Steps that touch no file, and neither replace the base nor leave a push's
   rebase but for its end. *)
LEMMA NoFile ==
    ASSUME ImgIInv, NEW e, Editors = {e}, UNCHANGED <<template, image>>,
           faults' = faults \/ (\E k \in Kinds : Failing(k)),
           \/ job' = job
           \/ \E pc \in JobPC \ {"push_rebase", "push_clean"} : Proceed(e, pc)
           \/ Answer(e)
           \/ \E s \in Students : Handled(e, s)
           \/ Proceed(e, "push_clean") /\ job[e].pc = "push_rebase"
    PROVE  ImgIInv'
  <1>1. e \in Editors /\ "push_clean" \in JobPC
    BY DEF JobPC
  <1>2. /\ job' \in [Editors -> Job]
        /\ \/ job'[e].pc \notin {"push_rebase", "push_clean"}
           \/ job[e].pc \in {"push_rebase", "push_clean"}
    BY <1>1, JobMoves DEF ImgIInv
  <1>3. /\ faults' \in [Kinds -> Nat]
        /\ faults'["convert"] = 0 => faults["convert"] = 0
    BY FaultsMove DEF ImgIInv
  <1>4. QED
    BY <1>1, <1>2, <1>3 DEF ImgIInv, Unbroken, HasImage, Pushed

(* Steps that rename or remove a file and go on outside the rebase. *)
LEMMA FileMoves ==
    ASSUME ImgIInv, NEW e, Editors = {e}, UNCHANGED template,
           faults' = faults \/ (\E k \in Kinds : Failing(k)),
           NEW pc \in JobPC \ {"push_rebase", "push_clean"},
           Proceed(e, pc) \/ (pc = "idle" /\ Answer(e)),
           image' \in [Files -> Image],
           template /\ faults["convert"] = 0 => Unbroken' /\ HasImage'
    PROVE  ImgIInv'
  <1>1. e \in Editors
    OBVIOUS
  <1>2. job' \in [Editors -> Job] /\ job'[e].pc = pc
    BY <1>1, JobMoves DEF ImgIInv
  <1>3. /\ faults' \in [Kinds -> Nat]
        /\ faults'["convert"] = 0 => faults["convert"] = 0
    BY FaultsMove DEF ImgIInv
  <1>4. QED
    BY <1>1, <1>2, <1>3 DEF ImgIInv, Pushed

(* A rename run without looking at its exit code. *)
LEMMA LenientMove ==
    ASSUME ImgIInv, NEW e, Editors = {e}, UNCHANGED template,
           NEW a \in Files, NEW b \in {"base", "old", "backup"}, a # b,
           NEW next \in JobPC \ {"push_rebase", "push_clean"},
           NEW handler \in JobPC \ {"push_rebase", "push_clean"},
           Lenient(e, Moved(a, b), next, handler)
    PROVE  ImgIInv'
  <1>1. CASE image' = Moved(a, b) /\ Proceed(e, next) /\ UNCHANGED faults
    <2>1. /\ image' \in [Files -> Image]
          /\ template /\ faults["convert"] = 0 => Unbroken' /\ HasImage'
      BY <1>1, MoveKeeps DEF ImgIInv
    <2>2. QED
      BY <1>1, <2>1, FileMoves
  <1>2. CASE /\ UNCHANGED image /\ Failing("other")
             /\ Proceed(e, next) \/ Proceed(e, handler)
    BY <1>2, NoFile
  <1>3. QED
    BY <1>1, <1>2 DEF Lenient

LEMMA Starts ==
    ASSUME ImgIInv, NEW e, Editors = {e}, ImgStart(e) PROVE ImgIInv'
  <1>1. PICK op \in ImageOps, pc \in JobPC \ {"push_rebase", "push_clean"} : Begin(e, op, pc)
    BY DEF ImgStart, SaveStart, PushStart, DeployBegin, PublishStart, ReimageStart,
           RecreateStart, Begin, JobPC
  <1> DEFINE t == CASE op \in {"push", "publish"} -> Students
                    [] op = "recreate" -> Assigned
                    [] OTHER -> {}
  <1>2. t \subseteq Students
    OBVIOUS
  <1>3. job' = [job EXCEPT ![e] = [pc |-> pc, todo |-> t]]
    BY <1>1 DEF Begin
  <1> HIDE DEF t
  <1>4. job' \in [Editors -> Job] /\ job'[e].pc = pc
    BY <1>2, <1>3 DEF ImgIInv, Job
  <1>5. /\ UNCHANGED <<template, image>>
        /\ (faults' = faults \/ Failing("other"))
    BY DEF ImgStart, SaveStart, PushStart, DeployBegin, PublishStart, ReimageStart, RecreateStart
  <1>6. faults' \in [Kinds -> Nat] /\ (faults'["convert"] = 0 => faults["convert"] = 0)
    BY <1>5, FaultsMove DEF ImgIInv
  <1>7. QED
    BY <1>4, <1>5, <1>6 DEF ImgIInv, Unbroken, HasImage, Pushed

-----------------------------------------------------------------------------
LEMMA Saves ==
    ASSUME ImgIInv, NEW e, Editors = {e}, SaveRemove(e) \/ SaveConvert(e) PROVE ImgIInv'
  <1>1. {"save_remove", "save_convert", "idle"} \subseteq JobPC \ {"push_rebase", "push_clean"}
    BY DEF JobPC
  <1>2. CASE SaveRemove(e)
    <2>1. UNCHANGED template
      BY <1>2 DEF SaveRemove
    <2>2. CASE image' = Removed("staging") /\ Proceed(e, "save_convert") /\ UNCHANGED faults
      <3>1. /\ image' \in [Files -> Image]
            /\ template /\ faults["convert"] = 0 => Unbroken' /\ HasImage'
        BY <2>2, RemoveKeeps DEF ImgIInv
      <3>2. QED
        BY <1>1, <2>1, <2>2, <3>1, FileMoves
    <2>3. CASE /\ UNCHANGED image /\ (faults' = faults \/ Failing("other"))
               /\ Proceed(e, "save_convert") \/ Answer(e)
      BY <1>1, <2>1, <2>3, NoFile
    <2>4. QED
      BY <1>2, <2>2, <2>3 DEF SaveRemove, Lenient
  <1>3. CASE SaveConvert(e)
    <2>1. UNCHANGED template /\ Answer(e)
      BY <1>3 DEF SaveConvert
    <2>2. CASE image' = [image EXCEPT !["staging"] = "whole"] /\ UNCHANGED faults
      <3>1. /\ image' \in [Files -> Image]
            /\ template /\ faults["convert"] = 0 => Unbroken' /\ HasImage'
        BY <2>2 DEF ImgIInv, Unbroken, HasImage
      <3>2. QED
        BY <1>1, <2>1, <2>2, <3>1, FileMoves
    <2>3. CASE image' = [image EXCEPT !["staging"] = "part"] /\ Failing("convert")
      <3>1. image' \in [Files -> Image]
        BY <2>3 DEF ImgIInv
      <3>2. job' \in [Editors -> Job] /\ faults' \in [Kinds -> Nat] /\ faults'["convert"] # 0
        BY <2>1, <2>3, JobMoves, FaultsMove DEF ImgIInv
      <3>3. QED
        BY <2>1, <3>1, <3>2 DEF ImgIInv
    <2>4. CASE UNCHANGED <<image, faults>>
      BY <2>1, <2>4, NoFile
    <2>5. QED
      BY <1>3, <2>2, <2>3, <2>4 DEF SaveConvert
  <1>4. QED
    BY <1>2, <1>3

LEMMA Pushes ==
    ASSUME ImgIInv, NEW e, Editors = {e},
           \/ PushTest(e) \/ PushStop(e) \/ PushBackup(e) \/ PushSwap(e)
           \/ (\E s \in Students : PushRebase(e, s))
           \/ PushRebased(e) \/ PushClean(e) \/ PushRestore(e)
    PROVE  ImgIInv'
  <1>1. /\ {"push_stop", "push_backup", "push_swap", "push_restore", "idle"}
              \subseteq JobPC \ {"push_rebase", "push_clean"}
        /\ "push_rebase" \in JobPC /\ "push_clean" \in JobPC
    BY DEF JobPC
  <1>2. CASE PushTest(e) \/ PushStop(e)
    <2>1. /\ UNCHANGED <<template, image>> /\ (faults' = faults \/ Failing("other"))
          /\ \/ Proceed(e, "push_stop") \/ Proceed(e, "push_backup")
             \/ Proceed(e, "push_restore") \/ Answer(e)
      BY <1>2 DEF PushTest, PushStop
    <2>2. QED
      BY <1>1, <2>1, NoFile
  <1>3. CASE PushBackup(e)
    BY <1>1, <1>3, LenientMove DEF PushBackup
  <1>4. CASE PushSwap(e)
    <2>1. UNCHANGED template
      BY <1>4 DEF PushSwap
    <2>2. CASE /\ image["staging"] # "none" /\ image' = Moved("staging", "base")
               /\ Proceed(e, "push_rebase") /\ UNCHANGED faults
      <3>1. /\ image' \in [Files -> Image]
            /\ Unbroken => Unbroken' /\ image'["base"] = "whole"
            /\ Unbroken /\ HasImage => HasImage'
        BY <2>2, MoveKeeps DEF ImgIInv
      <3>2. job' \in [Editors -> Job]
        BY <1>1, <2>2, JobMoves DEF ImgIInv
      <3>3. QED
        BY <2>1, <2>2, <3>1, <3>2 DEF ImgIInv, Pushed
    <2>3. CASE UNCHANGED image /\ Proceed(e, "push_restore") /\ (faults' = faults \/ Failing("other"))
      BY <1>1, <2>1, <2>3, NoFile
    <2>4. QED
      BY <1>4, <2>2, <2>3 DEF PushSwap
  <1>5. CASE (\E s \in Students : PushRebase(e, s)) \/ PushRebased(e)
    <2>1. /\ UNCHANGED <<template, image>> /\ (faults' = faults \/ Failing("other"))
          /\ \/ \E s \in Students : Handled(e, s)
             \/ Proceed(e, "push_clean") /\ job[e].pc = "push_rebase"
      BY <1>5 DEF PushRebase, PushRebased, Doing
    <2>2. QED
      BY <2>1, NoFile
  <1>6. CASE PushClean(e)
    <2>1. UNCHANGED template /\ job[e].pc = "push_clean"
      BY <1>6 DEF PushClean, Doing
    <2>2. CASE image' = Removed("old") /\ Answer(e) /\ UNCHANGED faults
      <3>1. /\ image' \in [Files -> Image]
            /\ template /\ faults["convert"] = 0 => Unbroken' /\ HasImage'
        BY <2>1, <2>2, RemoveKeeps DEF ImgIInv, Pushed
      <3>2. QED
        BY <1>1, <2>1, <2>2, <3>1, FileMoves
    <2>3. CASE UNCHANGED image /\ Failing("other") /\ (Answer(e) \/ Proceed(e, "push_restore"))
      BY <1>1, <2>1, <2>3, NoFile
    <2>4. QED
      BY <1>6, <2>2, <2>3 DEF PushClean
  <1>7. CASE PushRestore(e)
    <2>1. UNCHANGED template /\ Answer(e)
      BY <1>7 DEF PushRestore
    <2>2. CASE image' = Moved("old", "base") /\ UNCHANGED faults
      <3>1. /\ image' \in [Files -> Image]
            /\ template /\ faults["convert"] = 0 => Unbroken' /\ HasImage'
        BY <2>2, MoveKeeps DEF ImgIInv
      <3>2. QED
        BY <1>1, <2>1, <2>2, <3>1, FileMoves
    <2>3. CASE UNCHANGED image /\ Failing("other")
      BY <2>1, <2>3, NoFile
    <2>4. QED
      BY <1>7, <2>2, <2>3 DEF PushRestore
  <1>8. QED
    BY <1>2, <1>3, <1>4, <1>5, <1>6, <1>7

LEMMA Deploys ==
    ASSUME ImgIInv, NEW e, Editors = {e},
           DeployStop(e) \/ DeployBackup(e) \/ DeployExport(e) \/ DeployRestore(e)
    PROVE  ImgIInv'
  <1>1. {"deploy_backup", "deploy_export", "deploy_restore", "idle"}
              \subseteq JobPC \ {"push_rebase", "push_clean"}
    BY DEF JobPC
  <1>2. CASE DeployStop(e)
    <2>1. /\ UNCHANGED <<template, image>> /\ (faults' = faults \/ Failing("other"))
          /\ Proceed(e, "deploy_backup") \/ Answer(e)
      BY <1>2 DEF DeployStop
    <2>2. QED
      BY <1>1, <2>1, NoFile
  <1>3. CASE DeployBackup(e)
    <2>1. UNCHANGED template
      BY <1>3 DEF DeployBackup
    <2>2. CASE Failing("other") /\ Answer(e) /\ UNCHANGED image
      BY <2>1, <2>2, NoFile
    <2>3. CASE Lenient(e, Moved("base", "backup"), "deploy_export", "deploy_export")
      BY <1>1, <2>1, <2>3, LenientMove
    <2>4. QED
      BY <1>3, <2>2, <2>3 DEF DeployBackup
  <1>4. CASE DeployExport(e)
    <2>1. UNCHANGED template
      BY <1>4 DEF DeployExport
    <2>2. CASE image' = [image EXCEPT !["base"] = "whole"] /\ Answer(e) /\ UNCHANGED faults
      <3>1. /\ image' \in [Files -> Image]
            /\ template /\ faults["convert"] = 0 => Unbroken' /\ HasImage'
        BY <2>2 DEF ImgIInv, Unbroken, HasImage
      <3>2. QED
        BY <1>1, <2>1, <2>2, <3>1, FileMoves
    <2>3. CASE image' = [image EXCEPT !["base"] = "part"] /\ Answer(e) /\ Failing("convert")
      <3>1. image' \in [Files -> Image]
        BY <2>3 DEF ImgIInv
      <3>2. job' \in [Editors -> Job] /\ faults' \in [Kinds -> Nat] /\ faults'["convert"] # 0
        BY <2>3, JobMoves, FaultsMove DEF ImgIInv
      <3>3. QED
        BY <2>1, <3>1, <3>2 DEF ImgIInv
    <2>4. CASE /\ UNCHANGED image /\ (faults' = faults \/ Failing("other"))
               /\ Proceed(e, "deploy_restore") \/ Answer(e)
      BY <1>1, <2>1, <2>4, NoFile
    <2>5. QED
      BY <1>4, <2>2, <2>3, <2>4 DEF DeployExport
  <1>5. CASE DeployRestore(e)
    <2>1. UNCHANGED template /\ Answer(e)
      BY <1>5 DEF DeployRestore
    <2>2. CASE image' = Moved("backup", "base") /\ UNCHANGED faults
      <3>1. /\ image' \in [Files -> Image]
            /\ template /\ faults["convert"] = 0 => Unbroken' /\ HasImage'
        BY <2>2, MoveKeeps DEF ImgIInv
      <3>2. QED
        BY <1>1, <2>1, <2>2, <3>1, FileMoves
    <2>3. CASE UNCHANGED image /\ Failing("other")
      BY <2>1, <2>3, NoFile
    <2>4. QED
      BY <1>5, <2>2, <2>3 DEF DeployRestore
  <1>6. QED
    BY <1>2, <1>3, <1>4, <1>5

(* Publish, reimage and recreate work on VMs only. *)
LEMMA OthersLeaveFiles ==
    ASSUME ImgIInv, NEW e, Editors = {e},
           \/ PublishRemove(e) \/ PublishCopy(e) \/ PublishEnd(e)
           \/ (\E s \in Students : PublishStudent(e, s) \/ PublishSkip(e, s))
           \/ ReimageDelete(e) \/ ReimageMake(e)
           \/ RecreateTest(e) \/ RecreateEnd(e)
           \/ (\E s \in Students : Recreate(e, s) \/ RecreateRefused(e, s))
    PROVE  ImgIInv'
  <1>1. {"publish_copy", "publish_students", "reimage_make", "recreate", "idle"}
              \subseteq JobPC \ {"push_rebase", "push_clean"}
    BY DEF JobPC
  <1>2. /\ UNCHANGED <<template, image>> /\ (faults' = faults \/ Failing("other"))
        /\ \/ \E pc \in {"publish_copy", "publish_students", "reimage_make", "recreate"} :
                  Proceed(e, pc)
           \/ Answer(e)
           \/ \E s \in Students : Handled(e, s)
    BY DEF PublishRemove, PublishCopy, PublishEnd, PublishStudent, PublishSkip, ReimageDelete,
           ReimageMake, RecreateTest, RecreateEnd, Recreate, RecreateRefused
  <1>3. QED
    BY <1>1, <1>2, NoFile

LEMMA ImgInvAlways ==
    ASSUME NEW e, Editors = {e} PROVE ImgSpec => []ImgIInv
  <1>1. ImgInit => ImgIInv
    BY DEF ImgInit, ImgIInv, Rest, Job, JobPC, Unbroken, HasImage, Pushed
  <1>2. ImgIInv /\ [ImgNext]_imgVars => ImgIInv'
    <2> SUFFICES ASSUME ImgIInv, [ImgNext]_imgVars PROVE ImgIInv'
      OBVIOUS
    <2>1. CASE UNCHANGED imgVars
      BY <2>1, NoFile DEF imgVars
    <2>2. CASE \E v \in Students \cup {Teacher} : Power(v)
      BY <2>2, NoFile DEF Power
    <2>3. CASE ImgStart(e)
      BY <2>3, Starts
    <2>4. CASE ImgStep(e)
      BY <2>4, Saves, Pushes, Deploys, OthersLeaveFiles DEF ImgStep
    <2>5. QED
      BY <2>1, <2>2, <2>3, <2>4 DEF ImgNext
  <1>3. QED
    BY <1>1, <1>2, PTL DEF ImgSpec

(* While one owner works at a time, no order of saves, pushes and deploys, no
   rename that failed and no lost connection leaves the class without a whole
   image (class_vm_service.py, push_staging_to_students). *)
THEOREM ImageStays ==
    ASSUME NEW e, Editors = {e}
    PROVE  ImgSpec => []ImageKept
  <1>1. ImgIInv => ImageKept
    BY DEF ImgIInv, ImageKept, HasImage
  <1>2. QED
    BY <1>1, ImgInvAlways, PTL

-----------------------------------------------------------------------------
(* Any number of owners at once: what a step may leave.                      *)

Fleet == /\ machine \in [Vms -> Machine]
         /\ \A v \in Vms : machine[v].made \/ machine[v] = Gone
         /\ machine[BaseVm].made

LEMMA FleetChange ==
    ASSUME Fleet, NEW v \in Vms, NEW new \in Machine, machine' = [machine EXCEPT ![v] = new],
           new.made \/ (new = Gone /\ v # BaseVm)
    PROVE  Fleet'
  BY DEF Fleet, Vms

(* What the steps make of a VM's record. *)
LEMMA Made ==
    ASSUME Fleet, NEW v \in Vms
    PROVE  /\ machine[v] \in Machine
           /\ Gone \in Machine /\ [Gone EXCEPT !.made = TRUE] \in Machine
           /\ [Gone EXCEPT !.made = TRUE].made
           /\ \A on \in BOOLEAN :
                 /\ [machine[v] EXCEPT !.runs = on] \in Machine
                 /\ machine[v].made => [machine[v] EXCEPT !.runs = on].made
                 /\ ~machine[v].made /\ on = FALSE => [machine[v] EXCEPT !.runs = on] = Gone
           /\ \A d \in Disk :
                 /\ [machine[v] EXCEPT !.disk = d] \in Machine
                 /\ machine[v].made => [machine[v] EXCEPT !.disk = d].made
                 /\ ~machine[v].made /\ d = "none" => [machine[v] EXCEPT !.disk = d] = Gone
                 /\ [machine[v] EXCEPT !.disk = d, !.path = FALSE] \in Machine
                 /\ machine[v].made => [machine[v] EXCEPT !.disk = d, !.path = FALSE].made
           /\ \A path \in BOOLEAN :
                 /\ [made |-> TRUE, disk |-> "base", path |-> path, runs |-> FALSE] \in Machine
                 /\ [made |-> TRUE, disk |-> "base", path |-> path, runs |-> FALSE].made
  <1>1. machine[v] \in Machine /\ (machine[v].made \/ machine[v] = Gone)
    BY DEF Fleet
  <1>2. Gone \in Machine /\ [Gone EXCEPT !.made = TRUE] \in Machine /\ [Gone EXCEPT !.made = TRUE].made
    BY DEF Machine, Disk, Gone
  <1>3. ASSUME NEW on \in BOOLEAN
        PROVE  /\ [machine[v] EXCEPT !.runs = on] \in Machine
               /\ machine[v].made => [machine[v] EXCEPT !.runs = on].made
               /\ ~machine[v].made /\ on = FALSE => [machine[v] EXCEPT !.runs = on] = Gone
    BY <1>1 DEF Machine, Gone
  <1>4. ASSUME NEW d \in Disk
        PROVE  /\ [machine[v] EXCEPT !.disk = d] \in Machine
               /\ machine[v].made => [machine[v] EXCEPT !.disk = d].made
               /\ ~machine[v].made /\ d = "none" => [machine[v] EXCEPT !.disk = d] = Gone
               /\ [machine[v] EXCEPT !.disk = d, !.path = FALSE] \in Machine
               /\ machine[v].made => [machine[v] EXCEPT !.disk = d, !.path = FALSE].made
    <2>1. /\ [machine[v] EXCEPT !.disk = d] \in Machine
          /\ machine[v].made => [machine[v] EXCEPT !.disk = d].made
      BY <1>1 DEF Machine
    <2>2. ~machine[v].made /\ d = "none" => [machine[v] EXCEPT !.disk = d] = Gone
      BY <1>1 DEF Gone
    <2>3. /\ [machine[v] EXCEPT !.disk = d, !.path = FALSE] \in Machine
          /\ machine[v].made => [machine[v] EXCEPT !.disk = d, !.path = FALSE].made
      BY <1>1 DEF Machine
    <2>4. QED
      BY <2>1, <2>2, <2>3
  <1>5. ASSUME NEW path \in BOOLEAN
        PROVE  /\ [made |-> TRUE, disk |-> "base", path |-> path, runs |-> FALSE] \in Machine
               /\ [made |-> TRUE, disk |-> "base", path |-> path, runs |-> FALSE].made
    BY DEF Machine, Disk
  <1>6. QED
    BY <1>1, <1>2, <1>3, <1>4, <1>5

(* The VMs of students, teacher and base in one step of an owner. *)
LEMMA FleetSteps ==
    ASSUME Fleet, NEW e, ImgStart(e) \/ ImgStep(e) PROVE Fleet'
  <1>0. {Teacher, BaseVm} \cup Students \subseteq Vms /\ BaseVm \notin {Teacher} \cup Students
        /\ {"none", "own", "base"} \subseteq Disk
    BY DEF Vms, Disk
  <1>1. CASE UNCHANGED machine
    BY <1>1 DEF Fleet
  <1>2. CASE machine' = [machine EXCEPT ![Teacher].runs = FALSE]
    <2>1. machine' = [machine EXCEPT ![Teacher] = [machine[Teacher] EXCEPT !.runs = FALSE]]
      BY <1>2
    <2>2. QED
      BY <1>0, <2>1, Made, FleetChange DEF Fleet
  <1>3. CASE PushStop(e) /\ ~UNCHANGED machine
    <2>1. machine' = [v \in Vms |->
                 IF v \in Students THEN [machine[v] EXCEPT !.runs = FALSE] ELSE machine[v]]
      BY <1>3 DEF PushStop
    <2>2. \A v \in Vms : machine'[v] \in Machine /\ (machine'[v].made \/ machine'[v] = Gone)
      BY <2>1, Made DEF Fleet
    <2>3. machine'[BaseVm] = machine[BaseVm]
      BY <1>0, <2>1
    <2>4. QED
      BY <2>1, <2>2, <2>3 DEF Fleet
  <1>4. ASSUME NEW v \in Vms, NEW d \in Disk, machine[v].made \/ d = "none", v # BaseVm \/ machine[v].made,
               machine' = [machine EXCEPT ![v].disk = d]
        PROVE  Fleet'
    <2>1. machine' = [machine EXCEPT ![v] = [machine[v] EXCEPT !.disk = d]]
      BY <1>4
    <2>2. QED
      BY <1>4, <2>1, Made, FleetChange DEF Fleet
  <1>5. ASSUME NEW v \in Students, NEW d \in Disk, machine[v].made,
               machine' = [machine EXCEPT ![v].disk = d, ![v].path = FALSE]
        PROVE  Fleet'
    <2>1. machine' = [machine EXCEPT ![v] = [machine[v] EXCEPT !.disk = d, !.path = FALSE]]
      BY <1>5
    <2>2. QED
      BY <1>0, <1>5, <2>1, Made, FleetChange DEF Fleet
  <1>6. CASE ReimageDelete(e) /\ ~UNCHANGED machine
    BY <1>0, <1>6, Made, FleetChange DEF ReimageDelete, Fleet
  <1>7. CASE ReimageMake(e)
    <2>1. CASE machine' = [machine EXCEPT ![Teacher] =
                     [made |-> TRUE, disk |-> "base", path |-> FALSE, runs |-> FALSE]]
      BY <1>0, <2>1, Made, FleetChange
    <2>2. QED
      BY <1>0, <1>1, <1>4, <1>7, <2>1 DEF ReimageMake, Overlaid
  <1>8. ASSUME NEW s \in Students, Recreate(e, s)
        PROVE  Fleet'
    <2>1. machine[s].made /\ s \in Vms /\ s # BaseVm
      BY <1>0, <1>8 DEF Recreate
    <2>2. PICK new : /\ machine' = [machine EXCEPT ![s] = new]
                     /\ new \in {[made |-> TRUE, disk |-> "base", path |-> TRUE, runs |-> FALSE],
                                 machine[s], Gone, [Gone EXCEPT !.made = TRUE]}
      BY <1>8 DEF Recreate
    <2>3. QED
      BY <2>1, <2>2, Made, FleetChange
  <1>9. ASSUME NEW s \in Students, RecreateRefused(e, s)
        PROVE  Fleet'
    <2>1. CASE machine' = [machine EXCEPT ![s].runs = FALSE]
      <3>1. machine' = [machine EXCEPT ![s] = [machine[s] EXCEPT !.runs = FALSE]]
        BY <2>1
      <3>2. QED
        BY <1>0, <3>1, Made, FleetChange DEF Fleet
    <2>2. QED
      BY <1>1, <1>9, <2>1 DEF RecreateRefused
  <1>10. ASSUME NEW s \in Students, PushRebase(e, s)
         PROVE  Fleet'
    BY <1>0, <1>1, <1>4, <1>10 DEF PushRebase, Found
  <1>11. CASE PublishRemove(e) \/ PublishCopy(e)
    BY <1>0, <1>1, <1>4, <1>11 DEF PublishRemove, PublishCopy, Fleet
  <1>12. ASSUME NEW s \in Students, PublishStudent(e, s)
         PROVE  Fleet'
    BY <1>0, <1>1, <1>5, <1>12 DEF PublishStudent
  <1>13. QED
    BY <1>1, <1>2, <1>3, <1>6, <1>7, <1>8, <1>9, <1>10, <1>11, <1>12
       DEF ImgStart, SaveStart, PushStart, DeployBegin, PublishStart, ReimageStart,
           RecreateStart, ImgStep, SaveRemove, SaveConvert, PushTest, PushBackup, PushSwap,
           PushRebased, PushClean, PushRestore, DeployStop, DeployBackup, DeployExport,
           DeployRestore, PublishSkip, PublishEnd, RecreateTest, RecreateEnd

(* An owner's step changes the owner's own job and no other; failures are
   never forgotten.                                                          *)
LEMMA JobSteps ==
    ASSUME job \in [Editors -> Job], faults \in [Kinds -> Nat], NEW e \in Editors,
           ImgStart(e) \/ ImgStep(e)
    PROVE  /\ job' \in [Editors -> Job]
           /\ \A d \in Editors \ {e} : job'[d] = job[d]
           /\ faults' \in [Kinds -> Nat]
           /\ Sound' => Sound /\ UNCHANGED faults
           /\ faults'["convert"] = 0 => faults["convert"] = 0
           /\ UNCHANGED template
  <1>1. /\ \/ \E pc \in JobPC : Proceed(e, pc)
           \/ Answer(e)
           \/ \E s \in Students : Handled(e, s)
           \/ \E op \in ImageOps : \E pc \in JobPC : Begin(e, op, pc)
        /\ faults' = faults \/ \E k \in Kinds : Failing(k)
        /\ UNCHANGED template
    <2>1. CASE ImgStart(e)
      BY <2>1 DEF ImgStart, SaveStart, PushStart, DeployBegin, PublishStart, ReimageStart,
           RecreateStart, Begin, JobPC
    <2>2. CASE ImgStep(e)
      BY <2>2
         DEF ImgStep, SaveRemove, SaveConvert, PushTest, PushStop, PushBackup, PushSwap,
             PushRebase, PushRebased, PushClean, PushRestore, DeployStop, DeployBackup,
             DeployExport, DeployRestore, PublishRemove, PublishCopy, PublishStudent,
             PublishSkip, PublishEnd, ReimageDelete, ReimageMake, RecreateTest, Recreate,
             RecreateRefused, RecreateEnd, Lenient, JobPC
    <2>3. QED
      BY <2>1, <2>2
  <1>2. /\ faults' \in [Kinds -> Nat]
        /\ Sound' => Sound /\ UNCHANGED faults
        /\ faults'["convert"] = 0 => faults["convert"] = 0
    BY <1>1 DEF Failing, Sound
  <1>3. \A d \in Editors \ {e} : job'[d] = job[d]
    BY <1>1 DEF Proceed, Answer, Handled, Begin
  <1>4. ASSUME NEW op \in ImageOps, NEW pc \in JobPC, Begin(e, op, pc)
        PROVE  job' \in [Editors -> Job]
    <2> DEFINE t == CASE op \in {"push", "publish"} -> Students
                      [] op = "recreate" -> Assigned
                      [] OTHER -> {}
    <2>1. t \subseteq Students
      OBVIOUS
    <2>2. job' = [job EXCEPT ![e] = [pc |-> pc, todo |-> t]]
      BY <1>4 DEF Begin
    <2> HIDE DEF t
    <2>3. QED
      BY <2>1, <2>2 DEF Job
  <1>5. job' \in [Editors -> Job]
    BY <1>1, <1>4, JobMoves
  <1>6. QED
    BY <1>1, <1>2, <1>3, <1>5

LEMMA FileType ==
    ASSUME image \in [Files -> Image], NEW e, ImgStart(e) \/ ImgStep(e)
    PROVE  image' \in [Files -> Image]
  BY DEF ImgStart, SaveStart, PushStart, DeployBegin, PublishStart, ReimageStart,
         RecreateStart, ImgStep, SaveRemove, SaveConvert, PushTest, PushStop, PushBackup,
         PushSwap, PushRebase, PushRebased, PushClean, PushRestore, DeployStop, DeployBackup,
         DeployExport, DeployRestore, PublishRemove, PublishCopy, PublishStudent,
         PublishSkip, PublishEnd, ReimageDelete, ReimageMake, RecreateTest, Recreate,
         RecreateRefused, RecreateEnd, Lenient, Moved, Removed

LEMMA PowerLeaves ==
    ASSUME Fleet, NEW v \in Students \cup {Teacher}, Power(v)
    PROVE  /\ Fleet' /\ UNCHANGED <<template, image, teacherListed, faults, job>>
           /\ \A u \in Vms : /\ machine'[u].made = machine[u].made
                             /\ machine'[u].disk = machine[u].disk
           /\ \A u \in Vms : ~machine[u].made => machine'[u] = machine[u]
  <1>1. v \in Vms /\ v # BaseVm /\ machine[v] \in Machine
    BY DEF Vms, Fleet
  <1>2. (~machine[v].runs) \in BOOLEAN /\ machine[v].made
    <2>1. machine[v].runs => machine[v] # Gone
      BY DEF Gone
    <2>2. machine[v].runs => machine[v].made
      BY <1>1, <2>1 DEF Fleet
    <2>3. ~machine[v].runs => machine[v].made
      BY DEF Power, Whole
    <2>4. machine[v].made
      BY <2>2, <2>3
    <2>5. (~machine[v].runs) \in BOOLEAN
      OBVIOUS
    <2>6. QED
      BY <2>4, <2>5
  <1>3. machine' = [machine EXCEPT ![v] = [machine[v] EXCEPT !.runs = ~machine[v].runs]]
    BY DEF Power
  <1>4. Fleet'
    BY <1>1, <1>2, <1>3, Made, FleetChange
  <1>5. /\ [machine[v] EXCEPT !.runs = ~machine[v].runs].made = machine[v].made
        /\ [machine[v] EXCEPT !.runs = ~machine[v].runs].disk = machine[v].disk
    BY <1>1 DEF Machine
  <1>6. \A u \in Vms : machine'[u] = IF u = v THEN [machine[v] EXCEPT !.runs = ~machine[v].runs]
                                               ELSE machine[u]
    BY <1>1, <1>3 DEF Fleet
  <1>7. QED
    BY <1>2, <1>4, <1>5, <1>6 DEF Power

(* What is true of the state whoever works, whatever fails.                  *)
ImgTypeIInv == ImgTypeOK /\ machine[BaseVm].made

LEMMA ImgTypeAlways == ImgSpec => []ImgTypeIInv
  <1>1. ImgInit => ImgTypeIInv
    BY DEF ImgInit, ImgTypeIInv, ImgTypeOK, Rest, Job, JobPC, Vms, Machine, Disk
  <1>2. ASSUME ImgTypeIInv, [ImgNext]_imgVars PROVE ImgTypeIInv'
    <2>1. Fleet
      BY <1>2 DEF ImgTypeIInv, ImgTypeOK, Fleet
    <2>2. CASE UNCHANGED imgVars
      BY <1>2, <2>2 DEF imgVars, ImgTypeIInv, ImgTypeOK
    <2>3. CASE \E v \in Students \cup {Teacher} : Power(v)
      BY <1>2, <2>1, <2>3, PowerLeaves DEF ImgTypeIInv, ImgTypeOK, Fleet
    <2>4. ASSUME NEW e \in Editors, ImgStart(e) \/ ImgStep(e)
          PROVE  ImgTypeIInv'
      <3>1. Fleet' /\ image' \in [Files -> Image]
        BY <1>2, <2>1, <2>4, FleetSteps, FileType DEF ImgTypeIInv, ImgTypeOK
      <3>2. job' \in [Editors -> Job] /\ faults' \in [Kinds -> Nat] /\ UNCHANGED template
        BY <1>2, <2>4, JobSteps DEF ImgTypeIInv, ImgTypeOK
      <3>3. teacherListed' \in BOOLEAN
        BY <1>2, <2>4
           DEF ImgTypeIInv, ImgTypeOK, ImgStart, SaveStart, PushStart, DeployBegin,
               PublishStart, ReimageStart,
               RecreateStart, ImgStep, SaveRemove, SaveConvert, PushTest, PushStop,
               PushBackup, PushSwap, PushRebase, PushRebased, PushClean, PushRestore,
               DeployStop, DeployBackup, DeployExport, DeployRestore, PublishRemove,
               PublishCopy, PublishStudent, PublishSkip, PublishEnd, ReimageDelete,
               ReimageMake, RecreateTest, Recreate, RecreateRefused, RecreateEnd
      <3>4. QED
        BY <1>2, <3>1, <3>2, <3>3 DEF ImgTypeIInv, ImgTypeOK, Fleet
    <2>5. QED
      BY <1>2, <2>2, <2>3, <2>4 DEF ImgNext
  <1>3. QED
    BY <1>1, <1>2, PTL DEF ImgSpec

-----------------------------------------------------------------------------
(* Two pushes at once.                                                       *)

Ending(e) == job[e].pc \in {"push_rebase", "push_clean"}
Moving(e) == Ending(e) \/ job[e].pc \in {"push_swap", "push_restore"}
Copied    == image["base"] = "whole" \/ image["backup"] = "whole"
Copies    == {"base", "old", "backup"}

(* A push that is about to remove the old base has put its own in its place;
   where that has gone since, a copy stands in or another push has moved it. *)
LoseIInv == /\ faults["convert"] = 0 => Unbroken
            /\ Sound /\ HasImage => \A e \in Editors : Ending(e) =>
                   Copied \/ \E d \in Editors \ {e} : Moving(d)

(* A step without failures leaves the copies and the push alone; or leaves a
   base or a backup; or renames the base away in a push; or removes the old
   base at the end of one.                                                   *)
LEMMA LoseOutcome ==
    ASSUME ImgTypeIInv, Unbroken, NEW e \in Editors, ImgStart(e) \/ ImgStep(e), Sound'
    PROVE  \/ /\ \A f \in Copies : image'[f] = image[f]
              /\ Moving(e) => Moving(e)'
              /\ Ending(e)' => Ending(e)
           \/ Copied'
           \/ HasImage' = HasImage /\ Moving(e)' /\ ~Ending(e)'
           \/ (\A f \in Copies : image'[f] = image[f]) /\ (HasImage => Copied)
           \/ image' = Removed("old") /\ Ending(e)
  <1>0. /\ job \in [Editors -> Job] /\ image \in [Files -> Image] /\ faults \in [Kinds -> Nat]
    BY DEF ImgTypeIInv, ImgTypeOK
  <1>1. \A k \in Kinds : ~Failing(k)
    BY <1>0 DEF Sound, Failing
  <1>2. \A pc \in JobPC : Proceed(e, pc) => job'[e].pc = pc
    BY <1>0, JobMoves
  <1>3. Answer(e) => job'[e].pc = "idle"
    BY <1>0, JobMoves
  <1>4. \A s \in Students : Handled(e, s) => job'[e].pc = job[e].pc
    BY <1>0, JobMoves
  <1>5. {"push_stop", "push_backup", "push_swap", "push_rebase", "push_clean",
          "push_restore", "save_convert", "deploy_backup", "deploy_export", "deploy_restore",
          "publish_copy", "publish_students", "reimage_make", "recreate"} \subseteq JobPC
    BY DEF JobPC
  <1>6. CASE /\ UNCHANGED image
             /\ job'[e].pc \notin {"push_swap", "push_restore", "push_rebase", "push_clean"}
             /\ job[e].pc \notin {"push_swap", "push_restore", "push_rebase", "push_clean"}
    BY <1>6 DEF Moving, Ending
  <1>7. CASE ImgStart(e)
    <2>1. PICK op \in AllImageOps, pc \in {"save_remove", "push_test", "deploy_stop",
                     "publish_remove", "reimage_delete", "recreate_test"} :
              Begin(e, op, pc) /\ UNCHANGED image
      BY <1>7 DEF ImgStart, SaveStart, PushStart, DeployBegin, PublishStart, ReimageStart,
         RecreateStart, AllImageOps
    <2>2. job'[e].pc = pc /\ job[e].pc = "idle"
      BY <1>0, <2>1 DEF Begin, Doing
    <2>3. QED
      BY <1>6, <2>1, <2>2
  <1>8. CASE SaveRemove(e) \/ SaveConvert(e)
    <2>1. /\ \A f \in Copies : image'[f] = image[f]
          /\ job'[e].pc \in {"save_convert", "idle"}
      BY <1>0, <1>1, <1>2, <1>3, <1>5, <1>8
         DEF SaveRemove, SaveConvert, Lenient, Removed, Copies
    <2>2. QED
      BY <1>8, <2>1 DEF SaveRemove, SaveConvert, Doing, Moving, Ending
  <1>9. CASE PushTest(e) \/ PushStop(e)
    BY <1>1, <1>2, <1>3, <1>5, <1>6, <1>9 DEF PushTest, PushStop, Doing
  <1>10. CASE PushBackup(e)
    <2>1. image' = Moved("base", "old") /\ job'[e].pc = "push_swap"
      BY <1>1, <1>2, <1>5, <1>10 DEF PushBackup, Lenient
    <2>2. HasImage' <=> HasImage
      BY <1>0, <2>1 DEF Moved, HasImage, Unbroken
    <2>3. QED
      BY <2>1, <2>2 DEF HasImage, Moving, Ending
  <1>11. CASE PushSwap(e)
    <2>1. CASE image["staging"] # "none" /\ image' = Moved("staging", "base")
      BY <1>0, <2>1 DEF Moved, Copied, Unbroken
    <2>2. CASE UNCHANGED image /\ job'[e].pc = "push_restore"
      BY <2>2 DEF Moving, Ending
    <2>3. QED
      BY <1>1, <1>2, <1>5, <1>11, <2>1, <2>2 DEF PushSwap
  <1>12. CASE (\E s \in Students : PushRebase(e, s)) \/ PushRebased(e)
    <2>1. UNCHANGED image /\ Ending(e) /\ Ending(e)'
      BY <1>1, <1>2, <1>4, <1>5, <1>12 DEF PushRebase, PushRebased, Doing, Ending
    <2>2. QED
      BY <2>1 DEF Moving
  <1>13. CASE PushClean(e)
    BY <1>1, <1>13 DEF PushClean, Doing, Ending
  <1>14. CASE PushRestore(e)
    <2>1. image' = Moved("old", "base")
      BY <1>1, <1>14 DEF PushRestore
    <2>2. CASE image["old"] = "none"
      BY <2>1, <2>2 DEF Moved, HasImage, Copied
    <2>3. CASE image["old"] # "none"
      BY <1>0, <2>1, <2>3 DEF Moved, Copied, Unbroken
    <2>4. QED
      BY <2>2, <2>3
  <1>15. CASE DeployBackup(e) \/ DeployRestore(e)
    <2>1. /\ \/ image' = Moved("base", "backup") \/ image' = Moved("backup", "base")
          /\ job'[e].pc \in {"deploy_export", "idle"}
          /\ job[e].pc \in {"deploy_backup", "deploy_restore"}
      BY <1>1, <1>2, <1>3, <1>5, <1>15 DEF DeployBackup, DeployRestore, Lenient, Doing
    <2>2. CASE UNCHANGED image
      BY <1>6, <2>1, <2>2
    <2>3. CASE ~UNCHANGED image
      BY <1>0, <2>1, <2>3 DEF Moved, Copied, Unbroken
    <2>4. QED
      BY <2>2, <2>3
  <1>16. CASE DeployStop(e) \/ DeployExport(e)
    <2>1. CASE UNCHANGED image
      <3>1. /\ job'[e].pc \in {"deploy_backup", "deploy_restore", "idle"}
            /\ job[e].pc \in {"deploy_stop", "deploy_export"}
        BY <1>1, <1>2, <1>3, <1>5, <1>16 DEF DeployStop, DeployExport, Doing
      <3>2. QED
        BY <1>6, <2>1, <3>1
    <2>2. CASE image' = [image EXCEPT !["base"] = "whole"]
      BY <1>0, <2>2 DEF Copied
    <2>3. QED
      BY <1>1, <1>16, <2>1, <2>2 DEF DeployStop, DeployExport
  <1>17. CASE \/ PublishRemove(e) \/ PublishCopy(e) \/ PublishEnd(e)
              \/ (\E s \in Students : PublishStudent(e, s) \/ PublishSkip(e, s))
              \/ ReimageDelete(e) \/ ReimageMake(e)
              \/ RecreateTest(e) \/ RecreateEnd(e)
              \/ (\E s \in Students : Recreate(e, s) \/ RecreateRefused(e, s))
    <2>1. /\ UNCHANGED image
          /\ job'[e].pc \in {"publish_copy", "publish_students", "reimage_make", "recreate", "idle"}
          /\ job[e].pc \in {"publish_remove", "publish_copy", "publish_students",
                            "reimage_delete", "reimage_make", "recreate_test", "recreate"}
      BY <1>2, <1>3, <1>4, <1>5, <1>17
         DEF PublishRemove, PublishCopy, PublishEnd, PublishStudent, PublishSkip,
             ReimageDelete, ReimageMake, RecreateTest, RecreateEnd, Recreate,
             RecreateRefused, Doing
    <2>2. QED
      BY <1>6, <2>1
  <1>18. QED
    BY <1>7, <1>8, <1>9, <1>10, <1>11, <1>12, <1>13, <1>14, <1>15, <1>16, <1>17 DEF ImgStep

LEMMA UnbrokenSteps ==
    ASSUME image \in [Files -> Image], faults \in [Kinds -> Nat], Unbroken, NEW e,
           ImgStart(e) \/ ImgStep(e), faults'["convert"] = 0
    PROVE  Unbroken'
  <1>1. ~Failing("convert")
    BY DEF Failing
  <1>2. \/ UNCHANGED image
        \/ \E a, b \in Files : a # b /\ image' = Moved(a, b)
        \/ \E f \in Files : image' = Removed(f) \/ image' = [image EXCEPT ![f] = "whole"]
    BY <1>1
       DEF ImgStart, SaveStart, PushStart, DeployBegin, PublishStart, ReimageStart,
           RecreateStart, ImgStep, SaveRemove, SaveConvert, PushTest, PushStop, PushBackup,
           PushSwap, PushRebase, PushRebased, PushClean, PushRestore, DeployStop, DeployBackup,
           DeployExport, DeployRestore, PublishRemove, PublishCopy, PublishStudent,
           PublishSkip, PublishEnd, ReimageDelete, ReimageMake, RecreateTest, Recreate,
           RecreateRefused, RecreateEnd, Lenient
  <1>3. QED
    BY <1>2 DEF Moved, Removed, Unbroken

(* What a step does to the other owners' pushes.                             *)
LEMMA LoseSteps ==
    ASSUME ImgTypeIInv, LoseIInv, NEW e \in Editors, ImgStart(e) \/ ImgStep(e), Sound'
    PROVE  /\ LoseIInv'
           /\ HasImage /\ ~HasImage' => Ending(e) /\ \E d \in Editors \ {e} : Moving(d)
  <1>0. /\ job \in [Editors -> Job] /\ image \in [Files -> Image] /\ faults \in [Kinds -> Nat]
    BY DEF ImgTypeIInv, ImgTypeOK
  <1>1. /\ Sound /\ Unbroken /\ \A d \in Editors \ {e} : job'[d] = job[d]
    BY <1>0, JobSteps DEF LoseIInv, Sound
  <1>2. Unbroken'
    BY <1>0, <1>1, UnbrokenSteps DEF Sound
  <1>3. \A d \in Editors \ {e} : (Ending(d)' <=> Ending(d)) /\ (Moving(d)' <=> Moving(d))
    BY <1>1 DEF Ending, Moving
  <1>4. Copied' => LoseIInv' /\ HasImage'
    BY <1>2 DEF LoseIInv, Copied, HasImage
  <1>5. CASE /\ \A f \in Copies : image'[f] = image[f]
             /\ Moving(e) => Moving(e)'
             /\ Ending(e)' => Ending(e)
    <2>1. (HasImage' <=> HasImage) /\ (Copied' <=> Copied)
      BY <1>5 DEF HasImage, Copied, Copies
    <2>2. ASSUME HasImage, ~Copied, NEW d \in Editors, Ending(d)'
          PROVE  \E x \in Editors \ {d} : Moving(x)'
      <3>1. Ending(d)
        BY <1>3, <1>5, <2>2
      <3>2. PICK x \in Editors \ {d} : Moving(x)
        BY <1>1, <2>2, <3>1 DEF LoseIInv
      <3>3. QED
        BY <1>3, <1>5, <3>2
    <2>3. QED
      BY <1>2, <2>1, <2>2 DEF LoseIInv
  <1>6. CASE HasImage' = HasImage /\ Moving(e)' /\ ~Ending(e)'
    BY <1>2, <1>6 DEF LoseIInv
  <1>7. CASE (\A f \in Copies : image'[f] = image[f]) /\ (HasImage => Copied)
    <2>1. (HasImage' <=> HasImage) /\ (Copied' <=> Copied)
      BY <1>7 DEF HasImage, Copied, Copies
    <2>2. QED
      BY <1>2, <1>7, <2>1 DEF LoseIInv
  <1>8. CASE image' = Removed("old") /\ Ending(e)
    <2>1. (HasImage' <=> Copied) /\ (Copied' <=> Copied)
      BY <1>0, <1>8 DEF Removed, HasImage, Copied
    <2>2. HasImage /\ ~Copied => \E d \in Editors \ {e} : Moving(d)
      BY <1>1, <1>8 DEF LoseIInv
    <2>3. QED
      BY <1>2, <1>8, <2>1, <2>2 DEF LoseIInv
  <1>9. QED
    BY <1>1, <1>4, <1>5, <1>6, <1>7, <1>8, LoseOutcome

LEMMA LoseAlways == ImgSpec => []LoseIInv
  <1>1. ImgInit => LoseIInv
    BY DEF ImgInit, LoseIInv, Unbroken, Ending, Rest
  <1>2. ASSUME ImgTypeIInv, LoseIInv, [ImgNext]_imgVars PROVE LoseIInv'
    <2>1. image \in [Files -> Image] /\ faults \in [Kinds -> Nat] /\ job \in [Editors -> Job]
      BY <1>2 DEF ImgTypeIInv, ImgTypeOK
    <2>2. CASE UNCHANGED <<image, faults, job>>
      BY <1>2, <2>2 DEF LoseIInv, Unbroken, Sound, HasImage, Ending, Moving, Copied
    <2>3. CASE \E v \in Students \cup {Teacher} : Power(v)
      BY <2>2, <2>3 DEF Power
    <2>4. ASSUME NEW e \in Editors, ImgStart(e) \/ ImgStep(e)
          PROVE  LoseIInv'
      <3>1. CASE Sound'
        BY <1>2, <2>4, <3>1, LoseSteps
      <3>2. CASE ~Sound'
        <4>1. faults'["convert"] = 0 => faults["convert"] = 0
          BY <2>1, <2>4, JobSteps
        <4>2. faults'["convert"] = 0 => Unbroken'
          BY <1>2, <2>1, <2>4, <4>1, UnbrokenSteps DEF LoseIInv
        <4>3. QED
          BY <3>2, <4>2 DEF LoseIInv
      <3>3. QED
        BY <3>1, <3>2
    <2>5. QED
      BY <1>2, <2>2, <2>3, <2>4 DEF ImgNext, imgVars
  <1>3. QED
    BY <1>1, <1>2, ImgTypeAlways, PTL DEF ImgSpec

(* However many owners work at once: without a failure, the last whole copy of
   a class's image is removed only while two pushes are under way
   (class_vm_service.py, push_staging_to_students).                          *)
THEOREM TwoPushesAtFault == ImgSpec => OnlyTwoPushesLose
  <1> DEFINE Lost == Sound' /\ HasImage /\ ~HasImage' =>
                        \E e, d \in Editors : e # d /\ Pushing(e) /\ Pushing(d)
  <1>1. ASSUME ImgTypeIInv, LoseIInv, ImgTypeIInv', [ImgNext]_imgVars PROVE [Lost]_imgVars
    <2>1. CASE UNCHANGED image
      BY <2>1 DEF HasImage
    <2>2. CASE \E v \in Students \cup {Teacher} : Power(v)
      BY <2>1, <2>2 DEF Power
    <2>3. ASSUME NEW e \in Editors, ImgStart(e) \/ ImgStep(e)
          PROVE  Lost
      BY <1>1, <2>3, LoseSteps DEF Pushing, Ending, Moving
    <2>4. QED
      BY <1>1, <2>1, <2>2, <2>3 DEF ImgNext, imgVars
  <1>2. QED
    BY <1>1, ImgTypeAlways, LoseAlways, PTL DEF ImgSpec, OnlyTwoPushesLose

-----------------------------------------------------------------------------
(* One owner at a time, and nothing has failed: the VMs.                     *)

(* A push and a publish that began find what they need, and nothing is put
   back.                                                                     *)
GoesOn(e) ==
    /\ job[e].pc \in {"push_stop", "push_backup", "push_swap"} => image["staging"] # "none"
    /\ job[e].pc \in {"push_rebase", "push_clean"} => image["base"] = "whole"
    /\ job[e].pc = "recreate" => image["base"] # "none"
    /\ job[e].pc = "publish_students" => machine[BaseVm].disk = "own"
    /\ job[e].pc \notin {"push_restore", "deploy_restore"}

(* The teacher's VM is there as long as it is listed, and gone with its row
   unless there is an image to make it of again.                             *)
OfTeacher == {"deploy_stop", "deploy_backup", "deploy_export", "publish_remove",
              "publish_copy", "reimage_delete"}
TeacherFits(e) ==
    /\ teacherListed => machine[Teacher].made /\ machine[Teacher].disk \in {"own", "base"}
    /\ job[e].pc \in OfTeacher => teacherListed
    /\ job[e].pc = "reimage_make" => ~teacherListed /\ machine[Teacher] = Gone
    /\ ~teacherListed /\ job[e].pc # "reimage_make" =>
          ~machine[Teacher].made /\ (~template \/ image["backup"] # "none")

(* Until a deploy moves it away, the base image is whole if the class or a disk
   rests on it, but for the moment between a push's two renames.             *)
ImageServes(e) ==
    image["backup"] = "none" /\ (template \/ \E v \in Vms : machine[v].disk = "base") =>
        image["base"] = "whole" \/ job[e].pc = "push_swap"

(* The students' VMs have disks, and so has the VM theirs may rest on, but while
   a publish replaces it.                                                    *)
StudentsServed(e) ==
    image["backup"] = "none" =>
        /\ \A s \in Students : machine[s].made /\ machine[s].disk # "none"
        /\ (\E s \in Students : machine[s].disk = "base_vm") =>
              machine[BaseVm].disk \in {"own", "base"} \/ job[e].pc = "publish_copy"

VmsFit(e) == GoesOn(e) /\ TeacherFits(e) /\ ImageServes(e) /\ StudentsServed(e)

LEMMA FitInit == ASSUME NEW e \in Editors, ImgInit PROVE VmsFit(e)
  <1>1. job[e].pc = "idle" /\ teacherListed /\ image["backup"] = "none"
        /\ image["base"] = IF template THEN "whole" ELSE "none"
    BY DEF ImgInit, Rest
  <1>2. \A v \in Vms : /\ machine[v].made
                       /\ machine[v].disk = IF ~template THEN "own"
                                            ELSE IF v \in Students THEN "base_vm" ELSE "base"
    BY DEF ImgInit
  <1>3. Teacher \in Vms /\ BaseVm \in Vms /\ Students \subseteq Vms
    BY DEF Vms
  <1>4. QED
    BY <1>1, <1>2, <1>3
       DEF VmsFit, GoesOn, TeacherFits, ImageServes, StudentsServed, OfTeacher

(* A step that makes, removes and replaces nothing.                          *)
LEMMA FitStill ==
    ASSUME NEW e, VmsFit(e), GoesOn(e)', UNCHANGED <<template, teacherListed>>,
           \A v \in Vms : machine'[v].made = machine[v].made
                          /\ machine'[v].disk = machine[v].disk,
           image'["base"] = image["base"], image'["backup"] = image["backup"],
           job[e].pc \notin {"reimage_make", "publish_copy", "push_swap"},
           job'[e].pc # "reimage_make", job'[e].pc \in OfTeacher => teacherListed
    PROVE  VmsFit(e)'
  <1>1. Teacher \in Vms /\ BaseVm \in Vms /\ Students \subseteq Vms
    BY DEF Vms
  <1>2. TeacherFits(e)'
    BY <1>1 DEF VmsFit, TeacherFits
  <1>3. ImageServes(e)'
    BY <1>1 DEF VmsFit, ImageServes
  <1>4. StudentsServed(e)'
    BY <1>1 DEF VmsFit, StudentsServed
  <1>5. QED
    BY <1>2, <1>3, <1>4 DEF VmsFit

(* What the facts about a job's point and a VM's record come to when nothing
   fails.                                                                    *)
LEMMA Faultless ==
    ASSUME ImgTypeIInv, NEW e \in Editors, Sound'
    PROVE  /\ job \in [Editors -> Job] /\ image \in [Files -> Image]
           /\ machine \in [Vms -> Machine] /\ Fleet
           /\ \A k \in Kinds : ~Failing(k)
           /\ \A pc \in JobPC : Proceed(e, pc) => job'[e].pc = pc
           /\ Answer(e) => job'[e].pc = "idle"
           /\ \A s \in Students : Handled(e, s) => job'[e].pc = job[e].pc
           /\ \A op, pc : Begin(e, op, pc) => job'[e].pc = pc /\ job[e].pc = "idle"
           /\ Teacher \in Vms /\ BaseVm \in Vms /\ Students \subseteq Vms
  <1>1. /\ job \in [Editors -> Job] /\ image \in [Files -> Image] /\ faults \in [Kinds -> Nat]
        /\ machine \in [Vms -> Machine] /\ Fleet
    BY DEF ImgTypeIInv, ImgTypeOK, Fleet
  <1>2. \A k \in Kinds : ~Failing(k)
    BY <1>1 DEF Sound, Failing
  <1>3. /\ \A pc \in JobPC : Proceed(e, pc) => job'[e].pc = pc
        /\ Answer(e) => job'[e].pc = "idle"
        /\ \A s \in Students : Handled(e, s) => job'[e].pc = job[e].pc
    BY <1>1, JobMoves
  <1>4. ASSUME NEW op, NEW pc, Begin(e, op, pc)
        PROVE  job'[e].pc = pc /\ job[e].pc = "idle"
    BY <1>1, <1>4 DEF Begin, Doing
  <1>5. QED
    BY <1>1, <1>2, <1>3, <1>4 DEF Vms

LEMMA PCs ==
    {"push_stop", "push_backup", "push_swap", "push_rebase", "push_clean", "push_restore",
     "save_convert", "deploy_backup", "deploy_export", "deploy_restore", "publish_copy",
     "publish_students", "reimage_make", "recreate"} \subseteq JobPC
  BY DEF JobPC

LEMMA FitStarts ==
    ASSUME ImgTypeIInv, NEW e \in Editors, VmsFit(e), Sound', ImgStart(e)
    PROVE  VmsFit(e)'
  <1>1. /\ job[e].pc = "idle" /\ UNCHANGED <<template, image, teacherListed>>
        /\ job'[e].pc \in {"save_remove", "push_test", "recreate_test"}
              \/ (teacherListed /\ job'[e].pc \in {"deploy_stop", "publish_remove", "reimage_delete"})
    BY Faultless
       DEF ImgStart, SaveStart, PushStart, DeployBegin, PublishStart, ReimageStart, RecreateStart
  <1>2. machine' = machine \/ machine' = [machine EXCEPT ![Teacher].runs = FALSE]
    BY DEF ImgStart, SaveStart, PushStart, DeployBegin, PublishStart, ReimageStart, RecreateStart
  <1>3. \A v \in Vms : machine'[v].made = machine[v].made /\ machine'[v].disk = machine[v].disk
    BY <1>2, Faultless DEF Machine
  <1>4. GoesOn(e)'
    BY <1>1 DEF GoesOn
  <1>5. QED
    BY <1>1, <1>3, <1>4, FitStill DEF OfTeacher

LEMMA FitSaves ==
    ASSUME ImgTypeIInv, NEW e \in Editors, VmsFit(e), Sound', SaveRemove(e) \/ SaveConvert(e)
    PROVE  VmsFit(e)'
  <1>1. /\ job[e].pc \in {"save_remove", "save_convert"} /\ job'[e].pc \in {"save_convert", "idle"}
        /\ UNCHANGED <<template, machine, teacherListed>>
        /\ image'["base"] = image["base"] /\ image'["backup"] = image["backup"]
    BY Faultless, PCs DEF SaveRemove, SaveConvert, Lenient, Removed, Doing
  <1>2. GoesOn(e)'
    BY <1>1 DEF GoesOn
  <1>3. QED
    BY <1>1, <1>2, FitStill DEF OfTeacher

LEMMA FitPushes ==
    ASSUME ImgTypeIInv, Unbroken, NEW e \in Editors, VmsFit(e), Sound',
           \/ PushTest(e) \/ PushStop(e) \/ PushBackup(e) \/ PushSwap(e)
           \/ (\E s \in Students : PushRebase(e, s))
           \/ PushRebased(e) \/ PushClean(e) \/ PushRestore(e)
    PROVE  VmsFit(e)'
  <1>1. CASE PushTest(e)
    <2>1. /\ job[e].pc = "push_test" /\ UNCHANGED <<template, image, machine, teacherListed>>
          /\ job'[e].pc = "idle" \/ (job'[e].pc = "push_stop" /\ image["staging"] # "none")
      BY <1>1, Faultless, PCs DEF PushTest, Doing
    <2>2. GoesOn(e)'
      BY <2>1 DEF GoesOn
    <2>3. QED
      BY <2>1, <2>2, FitStill DEF OfTeacher
  <1>2. CASE PushStop(e)
    <2>1. /\ job[e].pc = "push_stop" /\ UNCHANGED <<template, image, teacherListed>>
          /\ job'[e].pc = "push_backup"
          /\ machine' = [v \in Vms |->
                 IF v \in Students THEN [machine[v] EXCEPT !.runs = FALSE] ELSE machine[v]]
      BY <1>2, Faultless, PCs DEF PushStop, Doing
    <2>2. \A v \in Vms : machine'[v].made = machine[v].made /\ machine'[v].disk = machine[v].disk
      BY <2>1, Faultless DEF Machine
    <2>3. GoesOn(e)'
      BY <2>1 DEF GoesOn, VmsFit
    <2>4. QED
      BY <2>1, <2>2, <2>3, FitStill DEF OfTeacher
  <1>3. CASE PushBackup(e)
    <2>1. /\ job[e].pc = "push_backup" /\ UNCHANGED <<template, machine, teacherListed>>
          /\ job'[e].pc = "push_swap" /\ image' = Moved("base", "old")
      BY <1>3, Faultless, PCs DEF PushBackup, Lenient, Doing
    <2>2. image'["staging"] = image["staging"] /\ image'["backup"] = image["backup"]
      BY <2>1, Faultless DEF Moved
    <2>3. QED
      BY <2>1, <2>2
         DEF VmsFit, GoesOn, TeacherFits, ImageServes, StudentsServed, OfTeacher
  <1>4. CASE PushSwap(e)
    <2>1. /\ job[e].pc = "push_swap" /\ image["staging"] # "none"
          /\ UNCHANGED <<template, machine, teacherListed>>
      BY <1>4 DEF PushSwap, Doing, VmsFit, GoesOn
    <2>2. job'[e].pc = "push_rebase" /\ image' = Moved("staging", "base")
      BY <1>4, <2>1, Faultless, PCs DEF PushSwap
    <2>3. image'["base"] = "whole" /\ image'["backup"] = image["backup"]
      BY <2>1, <2>2, Faultless DEF Moved, Unbroken
    <2>4. QED
      BY <2>1, <2>2, <2>3
         DEF VmsFit, GoesOn, TeacherFits, ImageServes, StudentsServed, OfTeacher
  <1>5. ASSUME NEW s \in Students, PushRebase(e, s)
        PROVE  VmsFit(e)'
    <2>1. /\ job[e].pc = "push_rebase" /\ job'[e].pc = "push_rebase"
          /\ UNCHANGED <<template, image, teacherListed>> /\ image["base"] = "whole"
      BY <1>5, Faultless DEF PushRebase, Doing, VmsFit, GoesOn
    <2>2. machine' = machine \/ machine' = [machine EXCEPT ![s].disk = "base"]
      BY <1>5 DEF PushRebase
    <2>3. /\ \A v \in Vms : machine'[v].made = machine[v].made
          /\ \A v \in Vms \ {s} : machine'[v] = machine[v]
          /\ machine'[s].disk \in {machine[s].disk, "base"}
      BY <2>2, Faultless DEF Machine
    <2>4. Teacher \in Vms \ {s} /\ BaseVm \in Vms \ {s} /\ Students \subseteq Vms
      BY Faultless
    <2>5. QED
      BY <2>1, <2>3, <2>4
         DEF VmsFit, GoesOn, TeacherFits, ImageServes, StudentsServed, OfTeacher
  <1>6. CASE PushRebased(e) \/ PushClean(e)
    <2>1. /\ job[e].pc \in {"push_rebase", "push_clean"} /\ job'[e].pc \in {"push_clean", "idle"}
          /\ UNCHANGED <<template, machine, teacherListed>> /\ image["base"] = "whole"
          /\ image'["base"] = image["base"] /\ image'["backup"] = image["backup"]
      BY <1>6, Faultless, PCs DEF PushRebased, PushClean, Removed, Doing, VmsFit, GoesOn
    <2>2. GoesOn(e)'
      BY <2>1 DEF GoesOn
    <2>3. QED
      BY <2>1, <2>2, FitStill DEF OfTeacher
  <1>7. ~PushRestore(e)
    BY DEF PushRestore, Doing, VmsFit, GoesOn
  <1>8. QED
    BY <1>1, <1>2, <1>3, <1>4, <1>5, <1>6, <1>7

LEMMA FitDeploys ==
    ASSUME ImgTypeIInv, Unbroken, NEW e \in Editors, VmsFit(e), Sound',
           DeployStop(e) \/ DeployBackup(e) \/ DeployExport(e) \/ DeployRestore(e)
    PROVE  VmsFit(e)'
  <1>1. CASE DeployStop(e)
    <2>1. /\ job[e].pc = "deploy_stop" /\ job'[e].pc = "deploy_backup"
          /\ UNCHANGED <<template, image, teacherListed>> /\ teacherListed
          /\ machine' = [machine EXCEPT ![Teacher].runs = FALSE]
      BY <1>1, Faultless, PCs DEF DeployStop, Doing, VmsFit, TeacherFits, OfTeacher
    <2>2. \A v \in Vms : machine'[v].made = machine[v].made /\ machine'[v].disk = machine[v].disk
      BY <2>1, Faultless DEF Machine
    <2>3. GoesOn(e)'
      BY <2>1 DEF GoesOn
    <2>4. QED
      BY <2>1, <2>2, <2>3, FitStill
  <1>2. CASE DeployBackup(e)
    <2>1. /\ job[e].pc = "deploy_backup" /\ job'[e].pc = "deploy_export"
          /\ UNCHANGED <<template, machine, teacherListed>> /\ teacherListed
          /\ image' = Moved("base", "backup")
      BY <1>2, Faultless, PCs DEF DeployBackup, Lenient, Doing, VmsFit, TeacherFits, OfTeacher
    <2>2. CASE image["base"] = "none"
      <3>1. UNCHANGED image
        BY <2>1, <2>2 DEF Moved
      <3>2. GoesOn(e)'
        BY <2>1 DEF GoesOn
      <3>3. QED
        BY <2>1, <3>1, <3>2, FitStill
    <2>3. CASE image["base"] # "none"
      <3>1. image'["backup"] # "none"
        BY <2>1, <2>3, Faultless DEF Moved
      <3>2. QED
        BY <2>1, <3>1
           DEF VmsFit, GoesOn, TeacherFits, ImageServes, StudentsServed, OfTeacher
    <2>4. QED
      BY <2>2, <2>3
  <1>3. CASE DeployExport(e)
    <2>1. /\ job[e].pc = "deploy_export" /\ teacherListed
          /\ machine[Teacher].made /\ machine[Teacher].disk # "none"
          /\ UNCHANGED <<template, machine, teacherListed>>
      BY <1>3 DEF DeployExport, Doing, VmsFit, TeacherFits, OfTeacher
    <2>2. /\ job'[e].pc = "idle"
          /\ image' = image \/ image' = [image EXCEPT !["base"] = "whole"]
      BY <1>3, <2>1, Faultless DEF DeployExport
    <2>3. /\ image'["base"] = image["base"] \/ image'["base"] = "whole"
          /\ image'["backup"] = image["backup"]
      BY <2>2, Faultless
    <2>4. QED
      BY <2>1, <2>2, <2>3
         DEF VmsFit, GoesOn, TeacherFits, ImageServes, StudentsServed, OfTeacher
  <1>4. ~DeployRestore(e)
    BY DEF DeployRestore, Doing, VmsFit, GoesOn
  <1>5. QED
    BY <1>1, <1>2, <1>3, <1>4

(* The base image is whole while a request needs the teacher's disk.         *)
LEMMA TeacherWhole ==
    ASSUME NEW e, VmsFit(e), job[e].pc = "publish_copy", image["backup"] = "none"
    PROVE  Whole(Teacher)
  BY DEF VmsFit, TeacherFits, OfTeacher, ImageServes, Whole, Backed, Vms

LEMMA FitPublishes ==
    ASSUME ImgTypeIInv, NEW e \in Editors, VmsFit(e), Sound',
           \/ PublishRemove(e) \/ PublishCopy(e) \/ PublishEnd(e)
           \/ \E s \in Students : PublishStudent(e, s) \/ PublishSkip(e, s)
    PROVE  VmsFit(e)'
  <1>1. CASE PublishRemove(e) \/ PublishCopy(e)
    <2>1. /\ UNCHANGED <<template, image, teacherListed>> /\ teacherListed
          /\ \/ job[e].pc = "publish_remove" /\ job'[e].pc = "publish_copy"
             \/ job[e].pc = "publish_copy" /\ job'[e].pc = "publish_students"
             \/ job[e].pc = "publish_copy" /\ job'[e].pc = "idle" /\ ~Whole(Teacher)
      BY <1>1, Faultless, PCs
         DEF PublishRemove, PublishCopy, Doing, VmsFit, TeacherFits, OfTeacher
    <2>2. \/ machine' = machine /\ job'[e].pc = "idle"
          \/ machine' = [machine EXCEPT ![BaseVm].disk = "none"] /\ job'[e].pc = "publish_copy"
          \/ machine' = [machine EXCEPT ![BaseVm].disk = "own"] /\ job'[e].pc = "publish_students"
      BY <1>1, Faultless, PCs DEF PublishRemove, PublishCopy
    <2>3. /\ \A v \in Vms \ {BaseVm} : machine'[v] = machine[v]
          /\ machine'[BaseVm].made = machine[BaseVm].made
          /\ job'[e].pc = "publish_students" => machine'[BaseVm].disk = "own"
          /\ job'[e].pc = "idle" => machine' = machine
          /\ machine'[BaseVm].disk = "base" => machine[BaseVm].disk = "base"
      BY <2>2, Faultless DEF Machine
    <2>4. Teacher \in Vms \ {BaseVm} /\ Students \subseteq Vms \ {BaseVm}
      BY Faultless
    <2>5. GoesOn(e)' /\ TeacherFits(e)'
      BY <2>1, <2>3, <2>4 DEF VmsFit, GoesOn, TeacherFits, OfTeacher
    <2>6. ImageServes(e)'
      BY <2>1, <2>3 DEF VmsFit, ImageServes
    <2>7. StudentsServed(e)'
      BY <2>1, <2>3, <2>4, TeacherWhole DEF VmsFit, StudentsServed
    <2>8. QED
      BY <2>5, <2>6, <2>7 DEF VmsFit
  <1>2. ASSUME NEW s \in Students, PublishStudent(e, s)
        PROVE  VmsFit(e)'
    <2>1. /\ job[e].pc = "publish_students" /\ job'[e].pc = "publish_students"
          /\ UNCHANGED <<template, image, teacherListed>>
          /\ machine' = [machine EXCEPT ![s].disk = "own", ![s].path = FALSE]
      <3>1. job[e].pc = "publish_students" /\ Handled(e, s)
            /\ UNCHANGED <<template, image, teacherListed>>
        BY <1>2 DEF PublishStudent, Doing
      <3>2. Whole(BaseVm)
        BY <3>1 DEF VmsFit, GoesOn, ImgTypeIInv, Whole, Backed
      <3>3. QED
        BY <1>2, <3>1, <3>2, Faultless DEF PublishStudent
    <2>2. /\ \A v \in Vms \ {s} : machine'[v] = machine[v]
          /\ machine'[s].made = machine[s].made /\ machine'[s].disk = "own"
      BY <2>1, Faultless DEF Machine
    <2>3. Teacher \in Vms \ {s} /\ BaseVm \in Vms \ {s} /\ Students \subseteq Vms
      BY Faultless
    <2>4. QED
      BY <2>1, <2>2, <2>3
         DEF VmsFit, GoesOn, TeacherFits, ImageServes, StudentsServed, OfTeacher
  <1>3. CASE PublishEnd(e) \/ \E s \in Students : PublishSkip(e, s)
    <2>1. /\ job[e].pc = "publish_students" /\ job'[e].pc \in {"publish_students", "idle"}
          /\ UNCHANGED <<template, image, machine, teacherListed>>
      BY <1>3, Faultless DEF PublishEnd, PublishSkip, Doing
    <2>2. GoesOn(e)'
      BY <2>1 DEF VmsFit, GoesOn
    <2>3. QED
      BY <2>1, <2>2, FitStill DEF OfTeacher
  <1>4. QED
    BY <1>1, <1>2, <1>3

LEMMA FitReimages ==
    ASSUME ImgTypeIInv, Unbroken, NEW e \in Editors, VmsFit(e), Sound',
           ReimageDelete(e) \/ ReimageMake(e)
    PROVE  VmsFit(e)'
  <1>0. Teacher \in Vms /\ BaseVm \in Vms \ {Teacher} /\ Students \subseteq Vms \ {Teacher}
    BY Faultless
  <1>1. CASE ReimageDelete(e)
    <2>1. /\ job[e].pc = "reimage_delete" /\ job'[e].pc = "reimage_make"
          /\ UNCHANGED <<template, image>> /\ ~teacherListed'
          /\ machine' = [machine EXCEPT ![Teacher] = Gone]
      BY <1>1, Faultless, PCs DEF ReimageDelete, Doing
    <2>2. /\ \A v \in Vms \ {Teacher} : machine'[v] = machine[v]
          /\ machine'[Teacher] = Gone /\ Gone.disk # "base"
      BY <2>1, Faultless DEF Gone
    <2>3. QED
      BY <1>0, <2>1, <2>2
         DEF VmsFit, GoesOn, TeacherFits, ImageServes, StudentsServed, OfTeacher
  <1>2. CASE ReimageMake(e)
    <2>1. /\ job[e].pc = "reimage_make" /\ job'[e].pc = "idle"
          /\ UNCHANGED <<template, image>>
          /\ machine[Teacher] = Gone /\ ~teacherListed
      BY <1>2, Faultless DEF ReimageMake, Doing, VmsFit, TeacherFits
    <2>2. CASE image["base"] = "none"
      <3>1. UNCHANGED <<machine, teacherListed>>
        BY <1>2, <2>2 DEF ReimageMake
      <3>2. ~Gone.made /\ (~template \/ image["backup"] # "none")
        BY <2>1, <2>2 DEF VmsFit, ImageServes, Gone
      <3>3. QED
        BY <2>1, <3>1, <3>2
           DEF VmsFit, GoesOn, TeacherFits, ImageServes, StudentsServed, OfTeacher
    <2>3. CASE image["base"] # "none"
      <3>1. /\ machine' = [machine EXCEPT ![Teacher] =
                     [made |-> TRUE, disk |-> "base", path |-> FALSE, runs |-> FALSE]]
            /\ teacherListed'
        BY <1>2, <2>1, <2>3, Faultless DEF ReimageMake, Overlaid, Gone
      <3>2. /\ \A v \in Vms \ {Teacher} : machine'[v] = machine[v]
            /\ machine'[Teacher].made /\ machine'[Teacher].disk = "base"
        BY <1>0, <3>1, Faultless
      <3>3. image["base"] = "whole"
        BY <2>3, Faultless DEF Unbroken
      <3>4. QED
        BY <1>0, <2>1, <3>1, <3>2, <3>3
           DEF VmsFit, GoesOn, TeacherFits, ImageServes, StudentsServed, OfTeacher
    <2>4. QED
      BY <2>2, <2>3
  <1>3. QED
    BY <1>1, <1>2

LEMMA FitRecreates ==
    ASSUME ImgTypeIInv, Unbroken, NEW e \in Editors, VmsFit(e), Sound',
           \/ RecreateTest(e) \/ RecreateEnd(e)
           \/ \E s \in Students : Recreate(e, s) \/ RecreateRefused(e, s)
    PROVE  VmsFit(e)'
  <1>1. CASE RecreateTest(e) \/ RecreateEnd(e)
    <2>1. /\ job[e].pc \in {"recreate_test", "recreate"}
          /\ job'[e].pc = "idle" \/ (job'[e].pc = "recreate" /\ image["base"] # "none")
          /\ UNCHANGED <<template, image, machine, teacherListed>>
      BY <1>1, Faultless, PCs DEF RecreateTest, RecreateEnd, Doing
    <2>2. GoesOn(e)'
      BY <2>1 DEF GoesOn
    <2>3. QED
      BY <2>1, <2>2, FitStill DEF OfTeacher
  <1>2. ASSUME NEW s \in Students, RecreateRefused(e, s)
        PROVE  VmsFit(e)'
    <2>1. /\ job[e].pc = "recreate" /\ job'[e].pc = "recreate"
          /\ UNCHANGED <<template, image, teacherListed>>
      BY <1>2, Faultless DEF RecreateRefused, Doing
    <2>2. machine' = machine \/ machine' = [machine EXCEPT ![s].runs = FALSE]
      BY <1>2 DEF RecreateRefused
    <2>3. \A v \in Vms : machine'[v].made = machine[v].made /\ machine'[v].disk = machine[v].disk
      BY <2>2, Faultless DEF Machine
    <2>4. GoesOn(e)'
      BY <2>1 DEF VmsFit, GoesOn
    <2>5. QED
      BY <2>1, <2>3, <2>4, FitStill DEF OfTeacher
  <1>3. ASSUME NEW s \in Students, Recreate(e, s)
        PROVE  VmsFit(e)'
    <2>1. /\ job[e].pc = "recreate" /\ job'[e].pc = "recreate"
          /\ UNCHANGED <<template, image, teacherListed>> /\ image["base"] # "none"
      BY <1>3, Faultless DEF Recreate, Doing, VmsFit, GoesOn
    <2>2. machine' = [machine EXCEPT ![s] =
                 [made |-> TRUE, disk |-> "base", path |-> TRUE, runs |-> FALSE]]
      BY <1>3, <2>1, Faultless DEF Recreate
    <2>3. /\ \A v \in Vms \ {s} : machine'[v] = machine[v]
          /\ machine'[s].made /\ machine'[s].disk = "base"
      BY <2>2, Faultless
    <2>4. Teacher \in Vms \ {s} /\ BaseVm \in Vms \ {s} /\ Students \subseteq Vms
      BY Faultless
    <2>5. image["base"] = "whole"
      BY <2>1, Faultless DEF Unbroken
    <2>6. QED
      BY <2>1, <2>3, <2>4, <2>5
         DEF VmsFit, GoesOn, TeacherFits, ImageServes, StudentsServed, OfTeacher
  <1>4. QED
    BY <1>1, <1>2, <1>3

LEMMA FitPower ==
    ASSUME ImgTypeIInv, NEW e, VmsFit(e), NEW v \in Students \cup {Teacher}, Power(v)
    PROVE  VmsFit(e)'
  <1>1. Fleet /\ Teacher \in Vms /\ BaseVm \in Vms /\ Students \subseteq Vms
    BY DEF ImgTypeIInv, ImgTypeOK, Fleet, Vms
  <1>2. /\ UNCHANGED <<template, image, teacherListed, faults, job>>
        /\ \A u \in Vms : /\ machine'[u].made = machine[u].made
                          /\ machine'[u].disk = machine[u].disk
        /\ machine[Teacher] = Gone => machine'[Teacher] = Gone
    BY <1>1, PowerLeaves DEF Gone
  <1>3. GoesOn(e)' /\ TeacherFits(e)'
    BY <1>1, <1>2 DEF VmsFit, GoesOn, TeacherFits, OfTeacher
  <1>4. ImageServes(e)'
    BY <1>1, <1>2 DEF VmsFit, ImageServes
  <1>5. StudentsServed(e)'
    BY <1>1, <1>2 DEF VmsFit, StudentsServed
  <1>6. QED
    BY <1>3, <1>4, <1>5 DEF VmsFit

LEMMA VmsFitAlways ==
    ASSUME NEW e, Editors = {e}
    PROVE  ImgSpec => [](Sound => VmsFit(e))
  <1>0. e \in Editors
    OBVIOUS
  <1>1. ImgInit => (Sound => VmsFit(e))
    BY <1>0, FitInit
  <1>2. ASSUME ImgTypeIInv, LoseIInv, Sound => VmsFit(e), [ImgNext]_imgVars, Sound'
        PROVE  VmsFit(e)'
    <2>1. image \in [Files -> Image] /\ faults \in [Kinds -> Nat] /\ job \in [Editors -> Job]
      BY <1>2 DEF ImgTypeIInv, ImgTypeOK
    <2>2. CASE UNCHANGED imgVars
      BY <1>2, <2>2
         DEF imgVars, Sound, VmsFit, GoesOn, TeacherFits, ImageServes, StudentsServed
    <2>3. ASSUME NEW v \in Students \cup {Teacher}, Power(v)
          PROVE  VmsFit(e)'
      BY <1>2, <2>3, FitPower DEF Power, Sound
    <2>4. CASE ImgStart(e) \/ ImgStep(e)
      <3>1. Sound
        BY <1>0, <1>2, <2>1, <2>4, JobSteps
      <3>2. VmsFit(e) /\ Unbroken
        BY <1>2, <3>1 DEF LoseIInv, Sound
      <3>3. QED
        BY <1>0, <1>2, <2>4, <3>2, FitStarts, FitSaves, FitPushes, FitDeploys, FitPublishes,
           FitReimages, FitRecreates
           DEF ImgStep
    <2>5. QED
      BY <1>2, <2>2, <2>3, <2>4 DEF ImgNext
  <1>3. ImgTypeIInv /\ LoseIInv /\ (Sound => VmsFit(e)) /\ [ImgNext]_imgVars
            => (Sound => VmsFit(e))'
    BY <1>2
  <1>4. QED
    BY <1>1, <1>3, ImgTypeAlways, LoseAlways, PTL DEF ImgSpec

(* The types, whoever works and whatever fails.                              *)
THEOREM ImagesTyped == ImgSpec => []ImgTypeOK
  <1>1. ImgTypeIInv => ImgTypeOK
    BY DEF ImgTypeIInv
  <1>2. QED
    BY <1>1, ImgTypeAlways, PTL

(* While one owner works at a time and nothing has failed: every student's VM
   keeps a disk with all its backing files until a deploy moves the base image
   away, and only a reimage that found no base image leaves the class without
   its teacher's VM (class_vm_service.py, class_template.py,
   publish_template.py).                                                     *)
THEOREM VmsStay ==
    ASSUME NEW e, Editors = {e}
    PROVE  ImgSpec => []VmsKept
  <1>1. ASSUME ImgTypeIInv, VmsFit(e) PROVE StudentsWhole /\ TeacherKept
    <2>1. CASE job[e].pc = "idle"
      <3>1. TeacherKept
        BY <1>1, <2>1 DEF VmsFit, TeacherFits, TeacherKept
      <3>2. ASSUME image["backup"] = "none", NEW s \in Students
            PROVE  Whole(s)
        <4>1. /\ machine[s].made /\ machine[s].disk \in {"own", "base", "base_vm"}
              /\ machine[s].disk = "base_vm" => machine[BaseVm].disk \in {"own", "base"}
              /\ machine[BaseVm].made /\ s \in Vms /\ BaseVm \in Vms
          BY <1>1, <2>1, <3>2
             DEF VmsFit, StudentsServed, ImgTypeIInv, ImgTypeOK, Vms, Machine, Disk
        <4>2. \A v \in Vms : machine[v].disk = "base" => image["base"] = "whole"
          BY <1>1, <2>1, <3>2 DEF VmsFit, ImageServes
        <4>3. QED
          BY <4>1, <4>2 DEF Whole, Backed
      <3>3. QED
        BY <3>1, <3>2 DEF StudentsWhole
    <2>2. CASE job[e].pc # "idle"
      BY <2>2 DEF StudentsWhole, TeacherKept, Quiet
    <2>3. QED
      BY <2>1, <2>2
  <1>2. ImgTypeIInv /\ (Sound => VmsFit(e)) => VmsKept
    BY <1>1 DEF VmsKept, ImgTypeIInv, StudentsWhole, TeacherKept
  <1>3. QED
    BY <1>2, ImgTypeAlways, VmsFitAlways, PTL

=============================================================================
