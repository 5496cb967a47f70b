------------------------------ MODULE Inventory ------------------------------
(***************************************************************************)
(* The VM inventory (table vm_inventory) and those who write it: full       *)
(* passes of the sync daemon, the IP scanner and the requests that trigger  *)
(* one; the quick sync; a new VM's own row; the status written after a      *)
(* start or a stop; and the clean-up of assignments of VMs that are gone.   *)
(*                                                                          *)
(* Every thread has its own session.  SQLite has one writer: the first      *)
(* change a session flushes takes the write lock, its commit or rollback    *)
(* gives it back, and a session that waits too long gets "database is       *)
(* locked".  Changes are flushed by the next query of the session, by       *)
(* flush() and by commit().                                                 *)
(*                                                                          *)
(* Times of rows are compared only with the start of a pass, so a pass      *)
(* keeps "fresh", the rows whose last_updated is not before its own start,  *)
(* and "later", the threads whose passes started after its own.             *)
(***************************************************************************)
EXTENDS Naturals, FiniteSets

CONSTANTS
    Guests,        \* the VMs and containers, as (cluster, vmid) pairs
    HostOf,        \* [Guests -> Clusters]
    LooksIn,       \* [Guests -> Clusters]: where the clean-up looks for it
    QuickAsks,     \* [Guests -> SUBSET Guests]: the VM of the default cluster on a
                   \* node of the same name with the same VMID, or none
    Clusters,
    Syncers,       \* threads that run full passes
    Clerks,        \* threads that do the rest
    NoOne,
    InvOps,        \* bound: what the threads of a run do
    MaxTries,      \* max_retries
    MaxChanges,    \* bound: changes in Proxmox
    MaxMisses      \* bound: clusters or nodes that do not answer, locks timed out

Writers == Syncers \cup Clerks
Real    == {"absent", "stopped", "running"}
Row     == {"none", "stopped", "running"}
AllInvOps == {"full", "quick", "deploy", "use", "cleanup"}

ASSUME InvAssumption ==
    /\ HostOf \in [Guests -> Clusters]
    /\ LooksIn \in [Guests -> Clusters]
    /\ QuickAsks \in [Guests -> SUBSET Guests]
    /\ NoOne \notin Writers
    /\ Syncers \cap Clerks = {}
    /\ InvOps \subseteq AllInvOps
    /\ MaxTries \in Nat \ {0} /\ MaxChanges \in Nat /\ MaxMisses \in Nat

VARIABLES
    real,       \* the VMs as Proxmox has them
    row,        \* vm_inventory, as committed
    owned,      \* the VMs that have a vm_assignments row
    invWriter,     \* who holds SQLite's write lock
    pass,       \* the passes of the threads
    changes, misses

invVars == <<real, row, owned, invWriter, pass, changes, misses>>

PassPC == {"idle", "start", "lookup", "missing", "ask", "note", "orphans"}
Pass   == [pc: PassPC,
           op: AllInvOps,
           clean: BOOLEAN,               \* cleanup_missing
           again: BOOLEAN,               \* persisted by get_all_vms and by its caller
           answer: [Guests -> Row],      \* what Proxmox said, "none" when nothing
           todo: SUBSET Guests,
           cur: SUBSET Guests,           \* the VM looked up, or none
           mine: SUBSET Guests,          \* rows changed and not committed
           dirty: BOOLEAN,               \* some of them not flushed
           fresh: SUBSET Guests,
           later: SUBSET Writers,
           tries: 0..MaxTries]
Nothing  == [g \in Guests |-> "none"]
IdlePass == [pc |-> "idle", op |-> "full", clean |-> FALSE, again |-> FALSE,
             answer |-> Nothing, todo |-> {}, cur |-> {}, mine |-> {}, dirty |-> FALSE,
             fresh |-> {}, later |-> {}, tries |-> 0]

InvTypeOK ==
    /\ real \in [Guests -> Real]
    /\ row \in [Guests -> Row]
    /\ owned \subseteq Guests
    /\ invWriter \in Writers \cup {NoOne}
    /\ pass \in [Writers -> Pass]
    /\ changes \in 0..MaxChanges
    /\ misses \in 0..MaxMisses

InvInit ==
    /\ real \in [Guests -> {"absent", "running"}]
    /\ row = [g \in Guests |-> IF real[g] = "absent" THEN "none" ELSE "running"]
    /\ owned = {g \in Guests : real[g] # "absent"}
    /\ invWriter = NoOne
    /\ pass = [t \in Writers |-> IdlePass]
    /\ changes = 0
    /\ misses = 0

-----------------------------------------------------------------------------
PassAt(t, pc) == pass[t].pc = pc
Missing == misses < MaxMisses /\ misses' = misses + 1
Free(t) == invWriter \in {NoOne, t}
Known(s) == {g \in Guests : s[g] # "none"}
Seen(t) == {HostOf[g] : g \in Known(pass[t].answer)}

(* A pass of u that is under way after rows G were written, stamped with the *)
(* present time, or with the start of the pass of t.                         *)
Writing(u) == pass[u].pc \in {"lookup", "missing"}
Newer(u, G) ==
    IF Writing(u) THEN [pass[u] EXCEPT !.fresh = @ \cup G] ELSE pass[u]
Stamped(u, t, G) ==
    IF t \in pass[u].later THEN Newer(u, G) ELSE [pass[u] EXCEPT !.fresh = @ \ G]

-----------------------------------------------------------------------------
(* Proxmox.                                                                  *)

Change ==
    /\ changes < MaxChanges
    /\ changes' = changes + 1
    /\ \E g \in Guests :
          real' \in {[real EXCEPT ![g] = "absent"],
                     [real EXCEPT ![g] = IF @ = "running" THEN "stopped" ELSE "running"]}
    /\ UNCHANGED <<row, owned, invWriter, pass, misses>>

-----------------------------------------------------------------------------
(* A full pass.                                                              *)

(* get_all_vms: one answer per cluster.  A cluster that cannot be reached    *)
(* has none; when its summary fails, the nodes are asked, and those that do  *)
(* not answer are left out.                                                  *)
Asked(t, op, again) ==
    \E heard \in SUBSET Guests :
       LET all == {g \in Guests : real[g] # "absent"}
           ans == [g \in Guests |-> IF g \in heard THEN real[g] ELSE "none"]
       IN  /\ heard \subseteq all
           /\ IF heard = all THEN UNCHANGED misses ELSE Missing
           /\ pass' = [pass EXCEPT ![t] = [IdlePass EXCEPT
                  !.pc = "start", !.op = op, !.clean = TRUE, !.again = again,
                  !.answer = ans]]

FullBegin(t) ==
    /\ PassAt(t, "idle") /\ t \in Syncers /\ "full" \in InvOps
    /\ \E again \in BOOLEAN : Asked(t, "full", again)
    /\ UNCHANGED <<real, row, owned, invWriter, changes>>

CleanupBegin(t) ==
    /\ PassAt(t, "idle") /\ t \in Clerks /\ "cleanup" \in InvOps
    /\ Asked(t, "cleanup", TRUE)
    /\ UNCHANGED <<real, row, owned, invWriter, changes>>

(* persist_vm_inventory: the time of the attempt is taken. *)
PassStart(t) ==
    /\ PassAt(t, "start")
    /\ pass' = [u \in Writers |->
           IF u = t
           THEN [pass[t] EXCEPT !.pc = "lookup", !.todo = Known(pass[t].answer)]
           ELSE IF Writing(u) THEN [pass[u] EXCEPT !.later = @ \cup {t}]
           ELSE pass[u]]
    /\ UNCHANGED <<real, row, owned, invWriter, changes, misses>>

(* The next VM's row is looked up, after a flush of the changes so far, and  *)
(* changed when there is one.                                                *)
Took(p, g) ==
    IF row[g] # "none"
    THEN [p EXCEPT !.todo = @ \ {g}, !.mine = @ \cup {g}, !.dirty = TRUE]
    ELSE [p EXCEPT !.todo = @ \ {g}, !.pc = "missing", !.cur = {g}, !.dirty = FALSE]

(* Variant: the query does not flush what the session has changed so far.    *)
LookupUnflushed(t) ==
    /\ PassAt(t, "lookup")
    /\ \E g \in pass[t].todo : pass' = [pass EXCEPT ![t] = Took(@, g)]
    /\ UNCHANGED <<real, row, owned, invWriter, changes, misses>>

Lookup(t) ==
    /\ PassAt(t, "lookup")
    /\ pass[t].dirty => Free(t)
    /\ invWriter' = IF pass[t].dirty THEN t ELSE invWriter
    /\ \E g \in pass[t].todo : pass' = [pass EXCEPT ![t] = Took(@, g)]
    /\ UNCHANGED <<real, row, owned, changes, misses>>

(* There is no row: one is inserted and flushed. *)
Insert(t) ==
    /\ PassAt(t, "missing")
    /\ Free(t)
    /\ \A g \in pass[t].cur : row[g] = "none"
    /\ invWriter' = t
    /\ pass' = [pass EXCEPT ![t].pc = "lookup", ![t].cur = {},
                            ![t].mine = @ \cup pass[t].cur, ![t].dirty = TRUE]
    /\ UNCHANGED <<real, row, owned, changes, misses>>

(* Another thread inserted it meanwhile: the session is rolled back, with    *)
(* all it had changed, and goes on with that row.                            *)
InsertTwice(t) ==
    /\ PassAt(t, "missing")
    /\ Free(t)
    /\ \E g \in pass[t].cur : row[g] # "none"
    /\ invWriter' = NoOne
    /\ pass' = [pass EXCEPT ![t].pc = "lookup", ![t].cur = {},
                            ![t].mine = pass[t].cur, ![t].dirty = TRUE]
    /\ UNCHANGED <<real, row, owned, changes, misses>>

After(t) ==
    IF pass[t].again
    THEN [IdlePass EXCEPT !.pc = "start", !.op = pass[t].op, !.clean = pass[t].clean,
                          !.answer = pass[t].answer]
    ELSE IF pass[t].op = "cleanup"
    THEN [IdlePass EXCEPT !.pc = "orphans", !.answer = pass[t].answer]
    ELSE IdlePass

Again(p) ==
    [p EXCEPT !.pc = "start", !.tries = @ + 1, !.todo = {}, !.cur = {}, !.mine = {},
              !.dirty = FALSE, !.fresh = {}, !.later = {}]

(* "database is locked": rolled back and tried again from the start, with    *)
(* the answer there is, or given up, which the caller does not notice.       *)
PassLocked(t) ==
    /\ PassAt(t, "missing") \/ (PassAt(t, "lookup") /\ pass[t].dirty)
    /\ ~Free(t)
    /\ Missing
    /\ pass' = [pass EXCEPT ![t] =
           IF pass[t].tries + 1 < MaxTries THEN Again(pass[t]) ELSE After(t)]
    /\ UNCHANGED <<real, row, owned, invWriter, changes>>

(* Variant: the clean-up takes every row that is not newer than the pass.    *)
GoneNotNewer(t) ==
    {g \in Guests : HostOf[g] \in Seen(t) /\ g \notin pass[t].fresh}

(* The rows of the clusters in the answer that nobody wrote since the pass   *)
(* started, the pass itself included.                                        *)
Gone(t) ==
    {g \in Guests : HostOf[g] \in Seen(t) /\ g \notin pass[t].fresh \cup pass[t].mine}

(* All VMs are done: clean up and commit. *)
PassFinish(t) ==
    /\ PassAt(t, "lookup")
    /\ pass[t].todo = {}
    /\ Free(t)
    /\ row' = [g \in Guests |->
           IF pass[t].clean /\ g \in Gone(t) THEN "none"
           ELSE IF g \in pass[t].mine THEN pass[t].answer[g]
           ELSE row[g]]
    /\ invWriter' = NoOne
    /\ pass' = [u \in Writers |->
           IF u = t THEN After(t) ELSE Stamped(u, t, pass[t].mine)]
    /\ UNCHANGED <<real, owned, changes, misses>>

(* A row to be updated was deleted before the pass had the lock: an error,   *)
(* rolled back, and the pass counts as done with nothing.                    *)
Stale(t) ==
    /\ PassAt(t, "lookup")
    /\ Free(t)
    /\ invWriter # t
    /\ \E g \in pass[t].mine : row[g] = "none"
    /\ pass' = [pass EXCEPT ![t] = After(t)]
    /\ UNCHANGED <<real, row, owned, invWriter, changes, misses>>

-----------------------------------------------------------------------------
(* The clean-up of assignments: what the answer does not name in the cluster *)
(* of the class is gone.  That is the cluster of the class's template, or    *)
(* the default one.                                                          *)

Orphans(t) ==
    /\ PassAt(t, "orphans")
    /\ Free(t)
    /\ owned' = IF Known(pass[t].answer) = {} THEN owned
                ELSE {g \in owned \cap Known(pass[t].answer) : HostOf[g] = LooksIn[g]}
    /\ pass' = [pass EXCEPT ![t] = IdlePass]
    /\ UNCHANGED <<real, row, invWriter, changes, misses>>

-----------------------------------------------------------------------------
(* The other writers.                                                        *)

(* A VM is made, gets its assignment, and its row without a clean-up. *)
DeployVm(t) ==
    /\ PassAt(t, "idle") /\ t \in Clerks /\ "deploy" \in InvOps
    /\ changes < MaxChanges
    /\ changes' = changes + 1
    /\ \E g \in Guests :
          /\ real[g] = "absent" /\ g \notin owned
          /\ real' = [real EXCEPT ![g] = "stopped"]
          /\ owned' = owned \cup {g}
          /\ pass' = [pass EXCEPT ![t] = [IdlePass EXCEPT
                 !.pc = "start", !.op = "deploy",
                 !.answer = [Nothing EXCEPT ![g] = "stopped"]]]
    /\ UNCHANGED <<row, invWriter, misses>>

(* A VM of the list was started or stopped: its status is to be written. *)
StatusIs(t, g, s) ==
    /\ pass' = [pass EXCEPT ![t] = [IdlePass EXCEPT
           !.pc = "note", !.op = "use", !.mine = {g},
           !.answer = [Nothing EXCEPT ![g] = s]]]
    /\ changes' = changes + 1
    /\ UNCHANGED <<row, owned, invWriter, misses>>

Usable(t) ==
    {g \in Known(row) : /\ PassAt(t, "idle") /\ t \in Clerks /\ "use" \in InvOps
                        /\ changes < MaxChanges /\ real[g] # "absent"}

StartVm(t) ==
    \E g \in Usable(t) :
       /\ real' = [real EXCEPT ![g] = "running"]
       /\ StatusIs(t, g, "running")

(* A guest may take its time to stop; the row says stopped at once. *)
StopVm(t) ==
    \E g \in Usable(t) :
       /\ \/ real' = [real EXCEPT ![g] = "stopped"]
          \/ UNCHANGED real
       /\ StatusIs(t, g, "stopped")

(* The quick sync takes at most 50 of the rows that are running or were       *)
(* checked within the hour, in no order.                                     *)
QuickBegin(t) ==
    /\ PassAt(t, "idle") /\ t \in Syncers /\ "quick" \in InvOps
    /\ \E some \in SUBSET Known(row) \ {{}} :
          pass' = [pass EXCEPT ![t] = [IdlePass EXCEPT
              !.pc = "ask", !.op = "quick", !.todo = some, !.answer = row]]
    /\ UNCHANGED <<real, row, owned, invWriter, changes, misses>>

(* It asks for their status one after the other, whatever their cluster at   *)
(* the default one.  A VM that is not there keeps its row as it is.          *)
Same(p, g) == [p EXCEPT !.todo = @ \ {g}]
Told(p, g, s) == [p EXCEPT !.todo = @ \ {g}, !.answer[g] = s, !.mine = @ \cup {g}]

(* Variant: the status of a VM that is gone is taken like any other.         *)
QuickAskGone(t) ==
    /\ PassAt(t, "ask")
    /\ \E g \in pass[t].todo : \E k \in QuickAsks[g] :
          pass' = [pass EXCEPT ![t] =
              IF real[k] = pass[t].answer[g] THEN Same(pass[t], g)
              ELSE Told(pass[t], g, real[k])]
    /\ UNCHANGED <<real, row, owned, invWriter, changes, misses>>

QuickAsk(t) ==
    /\ PassAt(t, "ask")
    /\ \E g \in pass[t].todo :
          \/ /\ \A k \in QuickAsks[g] : real[k] \in {"absent", pass[t].answer[g]}
             /\ pass' = [pass EXCEPT ![t] = Same(pass[t], g)]
          \/ \E k \in QuickAsks[g] :
                /\ real[k] \notin {"absent", pass[t].answer[g]}
                /\ pass' = [pass EXCEPT ![t] = Told(pass[t], g, real[k])]
    /\ UNCHANGED <<real, row, owned, invWriter, changes, misses>>

QuickEnd(t) ==
    /\ PassAt(t, "ask")
    /\ pass[t].todo = {}
    /\ pass' = [pass EXCEPT ![t] = IF pass[t].mine = {} THEN IdlePass
                                   ELSE [@ EXCEPT !.pc = "note"]]
    /\ UNCHANGED <<real, row, owned, invWriter, changes, misses>>

(* The statuses are written, unless one of the rows is gone: then none is. *)
Note(t) ==
    /\ PassAt(t, "note")
    /\ Free(t)
    /\ LET there == \A g \in pass[t].mine : row[g] # "none"
           G     == IF there THEN pass[t].mine ELSE {}
       IN  /\ row' = [g \in Guests |-> IF g \in G THEN pass[t].answer[g] ELSE row[g]]
           /\ pass' = [u \in Writers |-> IF u = t THEN IdlePass ELSE Newer(u, G)]
    /\ UNCHANGED <<real, owned, invWriter, changes, misses>>

(* Or the lock is not had in time, and nothing is. *)
NoteLost(t) ==
    /\ PassAt(t, "note") \/ PassAt(t, "orphans")
    /\ ~Free(t)
    /\ Missing
    /\ pass' = [pass EXCEPT ![t] = IdlePass]
    /\ UNCHANGED <<real, row, owned, invWriter, changes>>

-----------------------------------------------------------------------------
PassStep(t) ==
    \/ PassStart(t) \/ Lookup(t) \/ Insert(t) \/ InsertTwice(t)
    \/ PassLocked(t) \/ PassFinish(t) \/ Stale(t) \/ Orphans(t)
    \/ QuickAsk(t) \/ QuickEnd(t) \/ Note(t) \/ NoteLost(t)

InvNext ==
    \/ Change
    \/ \E t \in Writers :
          \/ FullBegin(t) \/ CleanupBegin(t) \/ DeployVm(t) \/ StartVm(t) \/ StopVm(t)
          \/ QuickBegin(t)
          \/ PassStep(t)

InvSpec == InvInit /\ [][InvNext]_invVars

(* The sync daemon's loop goes on, and no thread stops half-way. *)
InvFair ==
    /\ \A t \in Writers : WF_invVars(PassStep(t))
    /\ \A t \in Syncers : SF_invVars(FullBegin(t))

-----------------------------------------------------------------------------
(* Properties.                                                               *)

(* A pass deletes no row of a VM that its own answer names: the rollback     *)
(* after a duplicate insert cannot take earlier updates with it, because a   *)
(* pass that has updated a row holds the write lock when it looks up the     *)
(* next one (inventory_service.py, persist_vm_inventory).                    *)
PassKeepsNamed ==
    [][\A g \in Guests :
          row[g] # "none" /\ row'[g] = "none" =>
             \E t \in Writers :
                /\ pass[t].pc = "lookup" /\ pass[t].clean
                /\ pass[t].answer[g] = "none"
                /\ HostOf[g] \in Seen(t)
                /\ pass'[t] # pass[t]]_invVars

(* Once Proxmox stops changing and answers, the inventory comes to show it   *)
(* and stays so, whatever stale answers were still on their way: every VM    *)
(* has its row and its status, and a VM that is gone has none unless its     *)
(* cluster has no VM left to name in an answer.  The quick sync must ask for *)
(* the VM itself or for none: a row of another cluster for which the default *)
(* one has a VM of the same node and VMID is given that VM's status again    *)
(* and again (background_sync.py, _perform_full_sync, _perform_quick_sync;   *)
(* inventory_service.py, persist_vm_inventory).                              *)
Shows(g) ==
    IF real[g] # "absent" THEN row[g] = real[g]
    ELSE row[g] # "none" => \A k \in Guests : HostOf[k] = HostOf[g] => real[k] = "absent"
InventoryShows == \A g \in Guests : Shows(g)
Settles == <>[]InventoryShows

(* The clean-up takes an assignment from a VM that exists, and is looked for *)
(* in its own cluster, only when a cluster or a node did not answer or       *)
(* Proxmox changed since it did (sync.py, cleanup_orphaned_records).         *)
OrphansAreGone ==
    [][\A g \in owned \ owned' :
          \/ real[g] = "absent"
          \/ HostOf[g] # LooksIn[g]
          \/ misses > 0
          \/ changes > 0]_invVars
=============================================================================
