------------------------------- MODULE IpCache -------------------------------
(***************************************************************************)
(* How the addresses of running VMs get into the database.  A listing       *)
(* (get_all_vms) takes the address the database has, asks the guest when    *)
(* there is none, takes one of a VM with the same VMID when it is silent,   *)
(* then lets the ARP scanner override what it finds and saves the result.   *)
(* The scanner looks in its cache of MAC addresses, valid for five minutes; *)
(* behind it the subnet is pinged and the kernel's neighbour table read, by *)
(* the thread itself when it may wait (the sync daemon) or by one           *)
(* background worker whose result a later listing sees.  A container whose  *)
(* address is known is not scanned.                                         *)
(*                                                                          *)
(* Two VMs of different clusters may have the same VMID; guests are asked   *)
(* through the default cluster, whatever cluster they are of.               *)
(***************************************************************************)
EXTENDS Naturals, FiniteSets

CONSTANTS
    Vms,
    Containers,    \* those of type lxc
    Macs,          \* those whose MAC address can be read
    VmidOf,        \* [Vms -> VMIDs]
    AskedFor,      \* the guest of a VM's node and VMID in the default cluster, if any
    Seated,        \* VMIDs with a vm_assignments row
    Ips,
    NoIp,          \* no address, "N/A" or "Fetching..."
    NoLine,
    Waiters,       \* threads that wait for the scan (force_sync)
    Viewers,       \* threads that do not
    MaxMoves       \* bound: VMs started, stopped, or given another address

Threads == Waiters \cup Viewers
Address == Ips \cup {NoIp}

ASSUME IpAssumption ==
    /\ NoIp \notin Ips /\ NoLine \notin Vms
    /\ Containers \subseteq Vms /\ Macs \subseteq Vms
    /\ AskedFor \in [Vms -> SUBSET Vms]
    /\ Waiters \cap Viewers = {}
    /\ MaxMoves \in Nat

VARIABLES
    lease,      \* the address of each VM, NoIp while it is off
    neigh,      \* the kernel's lines: whose MAC answered for an address
    arpCache,   \* _arp_cache
    cacheValid, \* _arp_cache_time is less than five minutes ago
    scanning,   \* _scan_in_progress
    worker,     \* the VMs the worker a thread started looks for, {} when none
    rowIp,      \* vm_inventory.ip
    seatIp,     \* vm_assignments.cached_ip
    listing,    \* the listings of the threads
    moves

ipVars == <<lease, neigh, arpCache, cacheValid, scanning, worker, rowIp, seatIp,
            listing, moves>>

Listing == [pc: {"idle", "agents", "enrich", "ask", "want", "sweep", "save", "persist"},
            up: SUBSET Vms,               \* the running VMs, then vm_mac_map
            found: SUBSET Vms,            \* vm_ips, from the cache
            ip: [Vms -> Address]]
NoListing == [pc |-> "idle", up |-> {}, found |-> {}, ip |-> [v \in Vms |-> NoIp]]

IpTypeOK ==
    /\ lease \in [Vms -> Address]
    /\ neigh \in [Ips -> Vms \cup {NoLine}]
    /\ arpCache \in [Vms -> Address]
    /\ cacheValid \in BOOLEAN /\ scanning \in BOOLEAN
    /\ worker \in [Threads -> SUBSET Vms]
    /\ rowIp \in [Vms -> Address]
    /\ seatIp \in [Seated -> Address]
    /\ listing \in [Threads -> Listing]
    /\ moves \in 0..MaxMoves

IpInit ==
    /\ lease \in [Vms -> Address]
    /\ \A v, w \in Vms : lease[v] = lease[w] => v = w \/ lease[v] = NoIp
    /\ neigh = [i \in Ips |-> NoLine]
    /\ arpCache = [v \in Vms |-> NoIp]
    /\ cacheValid = FALSE
    /\ scanning = FALSE
    /\ worker = [t \in Threads |-> {}]
    /\ rowIp = [v \in Vms |-> NoIp]
    /\ seatIp = [i \in Seated |-> NoIp]
    /\ listing = [t \in Threads |-> NoListing]
    /\ moves = 0

-----------------------------------------------------------------------------
(* The network.                                                              *)

(* A VM is started, stopped, or gets another address. *)
Move(v) ==
    /\ moves < MaxMoves
    /\ moves' = moves + 1
    /\ \E i \in Address :
          /\ i # lease[v]
          /\ i # NoIp => \A w \in Vms : lease[w] # i
          /\ lease' = [lease EXCEPT ![v] = i]
    /\ UNCHANGED <<neigh, arpCache, cacheValid, scanning, worker, rowIp, seatIp, listing>>

(* The kernel drops a line. *)
Forget(i) ==
    /\ neigh[i] # NoLine
    /\ neigh' = [neigh EXCEPT ![i] = NoLine]
    /\ UNCHANGED <<lease, arpCache, cacheValid, scanning, worker, rowIp, seatIp,
                   listing, moves>>

Wrong(i) == neigh[i] # NoLine /\ lease[neigh[i]] # i

(* Five minutes pass. *)
CacheExpires ==
    /\ cacheValid
    /\ cacheValid' = FALSE
    /\ UNCHANGED <<lease, neigh, arpCache, scanning, worker, rowIp, seatIp, listing, moves>>

-----------------------------------------------------------------------------
(* The scanner.                                                              *)

(* Who answers a ping of an address.  An old line may outlive the ping. *)
Answer(i) ==
    IF \E v \in Vms : lease[v] = i THEN {v \in Vms : lease[v] = i} ELSE {NoLine, neigh[i]}
Lines(n, v) == {i \in Ips : n[i] = v}

Pinged(ips) ==
    \E n \in [ips -> Vms \cup {NoLine}] :
       /\ \A i \in ips : n[i] \in Answer(i)
       /\ neigh' = [i \in Ips |-> IF i \in ips THEN n[i] ELSE neigh[i]]

(* The sweep pings every address, or stops early when the table has a line   *)
(* for every MAC it needs, be it an old one.                                 *)
PingSweep(needed) ==
    \E ips \in SUBSET Ips :
       /\ Pinged(ips)
       /\ ips = Ips \/ \A v \in needed : Lines(neigh', v) # {}

(* What the table, read by MAC, can say of the VMs needed: one line of each. *)
Table(needed) ==
    {f \in [needed -> Address] :
        \A v \in needed : IF Lines(neigh', v) = {} THEN f[v] = NoIp
                          ELSE f[v] \in Lines(neigh', v)}

(* _background_scan_worker: what is not found keeps its entry, and the whole *)
(* cache counts as new.                                                      *)
Work(t) ==
    /\ worker[t] # {}
    /\ PingSweep(worker[t])
    /\ \E f \in Table(worker[t]) :
          arpCache' = [v \in Vms |->
              IF v \in worker[t] /\ f[v] # NoIp THEN f[v] ELSE arpCache[v]]
    /\ cacheValid' = TRUE
    /\ scanning' = FALSE
    /\ worker' = [worker EXCEPT ![t] = {}]
    /\ UNCHANGED <<lease, rowIp, seatIp, listing, moves>>

(* The scan raises: the cache stays as old as it is, the flag comes down.    *)
WorkFails(t) ==
    /\ worker[t] # {}
    /\ \E ips \in SUBSET Ips : Pinged(ips)
    /\ scanning' = FALSE
    /\ worker' = [worker EXCEPT ![t] = {}]
    /\ UNCHANGED <<lease, arpCache, cacheValid, rowIp, seatIp, listing, moves>>

-----------------------------------------------------------------------------
(* A listing.                                                                *)

Awaits(t, pc) == listing[t].pc = pc

YoungSeat(v) == IF VmidOf[v] \in Seated THEN {seatIp[VmidOf[v]]} \ {NoIp} ELSE {}

(* The assignment's address while it is young enough, or the row's. *)
KeptIp(v) == YoungSeat(v) \cup {rowIp[v]}

(* The same with the row of any VM that has the VMID. *)
FromDb(v) ==
    LET rows == {rowIp[w] : w \in {w \in Vms : VmidOf[w] = VmidOf[v]}} \ {NoIp}
    IN  YoungSeat(v) \cup IF rows = {} THEN {NoIp} ELSE rows

(* What is known of the VMs is written to the assignments, by VMID alone. *)
Seat(ip) ==
    /\ seatIp' \in [Seated -> Address]
    /\ \A i \in Seated :
          LET said == {ip[v] : v \in {v \in Vms : VmidOf[v] = i}} \ {NoIp}
          IN  seatIp'[i] \in IF said = {} THEN {seatIp[i]} ELSE said

(* _cache_ip_to_db: the assignment, or the row when there is none. *)
AgentsStored(told) ==
    /\ Seat(told)
    /\ rowIp' = [v \in Vms |->
           IF told[v] # NoIp /\ VmidOf[v] \notin Seated THEN told[v] ELSE rowIp[v]]

(* The VMs are listed, and the database asked for the address of each. *)
List(t) ==
    /\ Awaits(t, "idle")
    /\ \E ip \in [Vms -> Address] :
          /\ \A v \in Vms : ip[v] \in KeptIp(v)
          /\ listing' = [listing EXCEPT ![t] =
                [NoListing EXCEPT !.pc = "agents", !.ip = ip,
                                  !.up = {v \in Vms : lease[v] # NoIp}]]
    /\ UNCHANGED <<lease, neigh, arpCache, cacheValid, scanning, worker, rowIp, seatIp, moves>>

(* Where it knows none the guest is asked, a VM while it runs; some answer. *)
Agents(t) ==
    /\ Awaits(t, "agents")
    /\ \E told \in [Vms -> Address] :
          /\ \A v \in Vms : told[v] # NoIp =>
                /\ listing[t].ip[v] = NoIp
                /\ v \in listing[t].up \cup Containers
                /\ \E w \in AskedFor[v] : told[v] = lease[w]
          /\ AgentsStored(told)
          /\ listing' = [listing EXCEPT ![t] = [@ EXCEPT !.pc = "enrich",
                !.ip = [v \in Vms |-> IF told[v] # NoIp THEN told[v] ELSE listing[t].ip[v]]]]
    /\ UNCHANGED <<lease, neigh, arpCache, cacheValid, scanning, worker, moves>>

(* vm_mac_map: a container only while no address of it is known. *)
Scanned(t, ip) == {v \in listing[t].up \cap Macs : v \in Containers => ip[v] = NoIp}

(* The others get an address by VMID; with nothing to scan for the listing   *)
(* skips the scanner and the assignments.                                    *)
Enrich(t) ==
    /\ Awaits(t, "enrich")
    /\ \E ip \in [Vms -> Address] :
          /\ \A v \in Vms :
                ip[v] \in IF listing[t].ip[v] # NoIp THEN {listing[t].ip[v]} ELSE FromDb(v)
          /\ listing' = [listing EXCEPT ![t] = [@ EXCEPT
                !.pc = IF Scanned(t, ip) = {} THEN "persist" ELSE "ask",
                !.up = Scanned(t, ip), !.ip = ip]]
    /\ UNCHANGED <<lease, neigh, arpCache, cacheValid, scanning, worker, rowIp, seatIp, moves>>

(* Variant: the age of the cache is not looked at.                           *)
HitsOfAnyAge(t) == {v \in listing[t].up : arpCache[v] # NoIp}

(* The VMs the cache knows, while it is valid. *)
Hits(t) == IF cacheValid THEN {v \in listing[t].up : arpCache[v] # NoIp} ELSE {}

(* The listing as the scanner leaves it for the next step. *)
Knows(t, pc, found) ==
    [pc |-> pc,
     up |-> IF pc = "save" THEN {} ELSE listing[t].up,
     found |-> IF pc = "sweep" THEN found ELSE {},
     ip |-> [v \in Vms |-> IF v \in found THEN arpCache[v] ELSE listing[t].ip[v]]]

Ask(t) ==
    /\ Awaits(t, "ask")
    /\ LET pc == IF Hits(t) = listing[t].up THEN "save"
                 ELSE IF t \in Waiters THEN "sweep"
                 ELSE IF ~cacheValid /\ ~scanning THEN "want"
                 ELSE "save"
       IN  listing' = [listing EXCEPT ![t] = Knows(t, pc, Hits(t))]
    /\ UNCHANGED <<lease, neigh, arpCache, cacheValid, scanning, worker, rowIp, seatIp, moves>>

(* Variant: the flag is not looked at again under the lock.                  *)
WantUnchecked(t) ==
    /\ Awaits(t, "want")
    /\ scanning' = TRUE
    /\ worker' = [worker EXCEPT ![t] = listing[t].up]
    /\ listing' = [listing EXCEPT ![t] = Knows(t, "save", {})]
    /\ UNCHANGED <<lease, neigh, arpCache, cacheValid, rowIp, seatIp, moves>>

(* A viewer found no scan under way: under the lock it looks again.          *)
Want(t) ==
    /\ Awaits(t, "want")
    /\ scanning' = TRUE
    /\ worker' = IF scanning THEN worker ELSE [worker EXCEPT ![t] = listing[t].up]
    /\ listing' = [listing EXCEPT ![t] = Knows(t, "save", {})]
    /\ UNCHANGED <<lease, neigh, arpCache, cacheValid, rowIp, seatIp, moves>>

(* The worker's thread cannot be started: the page fails, the flag stays up. *)
WantFails(t) ==
    /\ Awaits(t, "want") /\ ~scanning
    /\ scanning' = TRUE
    /\ listing' = [listing EXCEPT ![t] = NoListing]
    /\ UNCHANGED <<lease, neigh, arpCache, cacheValid, worker, rowIp, seatIp, moves>>

(* A waiter sweeps itself, without asking the flag, beside whoever sweeps    *)
(* too, and leaves the cache as it is.                                       *)
SweepAndLook(t) ==
    /\ Awaits(t, "sweep")
    /\ PingSweep(listing[t].up)
    /\ \E f \in Table(listing[t].up) :
          listing' = [listing EXCEPT ![t] = [@ EXCEPT
              !.pc = "save", !.up = {}, !.found = {},
              !.ip = [v \in Vms |->
                  IF v \in listing[t].up \ listing[t].found /\ f[v] # NoIp
                  THEN f[v] ELSE listing[t].ip[v]]]]
    /\ UNCHANGED <<lease, arpCache, cacheValid, scanning, worker, rowIp, seatIp, moves>>

RowsAfter(t) ==
    [v \in Vms |-> IF listing[t].ip[v] # NoIp THEN listing[t].ip[v] ELSE rowIp[v]]

(* Every address of the listing is written, running or not. *)
Save(t) ==
    /\ Awaits(t, "save")
    /\ rowIp' = RowsAfter(t)
    /\ Seat(listing[t].ip)
    /\ listing' = [listing EXCEPT ![t] = [@ EXCEPT !.pc = "persist"]]
    /\ UNCHANGED <<lease, neigh, arpCache, cacheValid, scanning, worker, moves>>

(* And to the inventory once more. *)
Persist(t) ==
    /\ Awaits(t, "persist")
    /\ rowIp' = RowsAfter(t)
    /\ listing' = [listing EXCEPT ![t] = NoListing]
    /\ UNCHANGED <<lease, neigh, arpCache, cacheValid, scanning, worker, seatIp, moves>>

-----------------------------------------------------------------------------
ListStep(t) ==
    \/ Agents(t) \/ Enrich(t) \/ Ask(t) \/ Want(t) \/ SweepAndLook(t)
    \/ Save(t) \/ Persist(t)
WorkStep(t) == Work(t) \/ WorkFails(t)

IpNext ==
    \/ \E v \in Vms : Move(v)
    \/ \E i \in Ips : Forget(i)
    \/ CacheExpires
    \/ \E t \in Threads : List(t) \/ ListStep(t) \/ WantFails(t) \/ WorkStep(t)

IpSpec == IpInit /\ [][IpNext]_ipVars

(* The sync daemon goes on listing, time passes, and the kernel drops in the *)
(* end the lines nobody answers for; pages and their workers may stop.       *)
IpFair ==
    /\ \A t \in Waiters : WF_ipVars(List(t) \/ ListStep(t))
    /\ WF_ipVars(CacheExpires)
    /\ \A i \in Ips : WF_ipVars(Wrong(i) /\ Forget(i))

-----------------------------------------------------------------------------
(* Properties.                                                               *)

(* At most one background scan at a time, and while there is one the flag is *)
(* up: a page that finds the flag down never starts a second worker beside   *)
(* it (arp_scanner.py, discover_ips_via_arp).  Threads that wait for their   *)
(* own sweep are not counted, and the flag may be up with no worker.         *)
OneWorker ==
    /\ Cardinality({t \in Threads : worker[t] # {}}) <= 1
    /\ (\E t \in Threads : worker[t] # {}) => scanning

(* The caches of addresses hold what they may, and the background scan runs  *)
(* once at a time under its flag (arp_scanner.py, discover_ips_via_arp).     *)
IpInv == IpTypeOK /\ OneWorker

(* No running VM's row is wrong for ever, whatever old cache entries, old    *)
(* lines or slow listings there are: "Validates cached IPs and updates if    *)
(* changed." (proxmox_service.py, _enrich_vms_with_arp_ips).  It may be      *)
(* wrong again and again, when a slow listing saves what it once read.  Of   *)
(* VMs whose MAC is known; not of containers, whose stored address is        *)
(* trusted for ever.                                                         *)
ChangeIsNoticed ==
    \A v \in Macs \ Containers : []<>(lease[v] = NoIp \/ rowIp[v] = lease[v])
=============================================================================
