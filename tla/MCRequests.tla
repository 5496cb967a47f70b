------------------------------ MODULE MCRequests ------------------------------
(* Requests of students, one matter at a time.  In "withdrawals" and            *)
(* "deletions" they join a class and get VMs, while the class may be deployed; *)
(* in the one VMs are given back, in the other the class may be deleted.  In   *)
(* "addresses" one page lists VMs beside the sync daemon, in "pages" two pages *)
(* do.  The variables of the other matter stay as they begin.                  *)
EXTENDS MCClassPool, IpCache

VARIABLE part

all == <<part, vars, ipVars>>

OneId  == [v1 |-> 7, ct |-> 8]
Itself == [v1 |-> {"v1"}, ct |-> {"ct"}]

Pools == {"withdrawals", "deletions"}

(* One guest is in use in each listing part, the other is off for good. *)
InUse == IF part = "addresses" THEN {"v1"} ELSE IF part = "pages" THEN {"ct"} ELSE {}

MCInit ==
    /\ part \in Pools \cup {"addresses", "pages"}
    /\ Init
    /\ IpInit /\ \A v \in Vms \ InUse : lease[v] = NoIp

Only(parts) ==
    /\ part \in parts /\ part' = part
    /\ part \notin Pools => UNCHANGED vars
    /\ part \in Pools => UNCHANGED ipVars

(* What is not begun in a part: an update that begins is a withdrawal here. *)
NotBegun(r) ==
    IF part = "withdrawals" THEN task'[r].pc # "delete_class"
    ELSE task[r].pc = "idle" => task'[r].pc # "update"

(* Threads that list no addresses in a part. *)
Resting(threads) ==
    /\ \A t \in threads : listing'[t] = listing[t] /\ worker'[t] = worker[t]
    /\ \A v \in Vms \ InUse : lease'[v] = lease[v]

MCNext ==
    \/ Only(Pools) /\ Next /\ \A r \in Requests : NotBegun(r)
    \/ Only({"addresses"}) /\ IpNext /\ Resting({"r2"})
    \/ Only({"pages"}) /\ IpNext /\ Resting(Waiters)

(* FairSpec and IpFair, each for its own part. *)
MCFair ==
    /\ \A r \in Requests : WF_all(Only(Pools) /\ Runs(r))
    /\ \A t \in Waiters : WF_all(Only({"addresses"}) /\ (List(t) \/ ListStep(t)))
    /\ WF_all(Only({"addresses"}) /\ CacheExpires)
    /\ \A i \in Ips : WF_all(Only({"addresses"}) /\ Wrong(i) /\ Forget(i))

MCSpec == MCInit /\ [][MCNext]_all /\ MCFair

(* With a sync daemon that lists, no VM's address is wrong for ever, those of  *)
(* containers excepted (proxmox_service.py, _enrich_vms_with_arp_ips).         *)
Addressed == part = "pages" \/ ChangeIsNoticed
=============================================================================
