---------------------------- MODULE TablesProofs -----------------------------
(***************************************************************************)
(* Proofs about the tables that copy what Proxmox and the network show.     *)
(*                                                                          *)
(* IpCache: for every set of VMs, addresses and threads, one background     *)
(* scan at a time.                                                          *)
(*                                                                          *)
(* Catalog: for every set of nodes, templates, classes and passes, a class  *)
(* keeps a template that exists while the nodes answer.                     *)
(*                                                                          *)
(* Inventory: for every set of VMs, clusters and writers, a pass deletes no *)
(* row its own answer names, and the clean-up of assignments none of a VM   *)
(* that is there when it was answered in full.                              *)
(***************************************************************************)
EXTENDS Tables, IpCache, FiniteSetTheorems, TLAPS

-----------------------------------------------------------------------------
(* IpCache.                                                                  *)

(* OneWorker without counting.                                               *)
Alone ==
    /\ \A t, u \in Threads : worker[t] # {} /\ worker[u] # {} => t = u
    /\ (\E t \in Threads : worker[t] # {}) => scanning

IpIInv == IpTypeOK /\ Alone

LEMMA ListingFields ==
    ASSUME IpTypeOK, NEW t \in Threads
    PROVE  /\ listing[t] \in Listing
           /\ listing[t].up \subseteq Vms /\ listing[t].found \subseteq Vms
           /\ listing[t].ip \in [Vms -> Address]
  BY DEF IpTypeOK, Listing

LEMMA NoListingIs == NoListing \in Listing /\ NoListing.pc = "idle"
  BY DEF NoListing, Listing, Address

(* A listing that goes on changes its own record.                            *)
LEMMA ListingMoves ==
    ASSUME IpTypeOK, NEW t \in Threads, NEW new \in Listing,
           listing' = [listing EXCEPT ![t] = new]
    PROVE  /\ listing' \in [Threads -> Listing] /\ listing'[t] = new
           /\ \A u \in Threads : u # t => listing'[u] = listing[u]
  BY DEF IpTypeOK

LEMMA SeatType == ASSUME NEW ip, Seat(ip) PROVE seatIp' \in [Seated -> Address]
  BY DEF Seat

LEMMA KnowsType ==
    ASSUME IpTypeOK, NEW t \in Threads, NEW pc \in {"want", "sweep", "save"},
           NEW found \in SUBSET Vms
    PROVE  Knows(t, pc, found) \in Listing
  <1>1. [v \in Vms |-> IF v \in found THEN arpCache[v] ELSE listing[t].ip[v]]
            \in [Vms -> Address]
    BY ListingFields DEF IpTypeOK
  <1>2. QED
    BY <1>1, ListingFields DEF Knows, Listing

(* Steps that start and end no scan.                                         *)
LEMMA NoScan == ASSUME IpIInv, UNCHANGED <<scanning, worker>>, IpTypeOK' PROVE IpIInv'
  BY DEF IpIInv, Alone

LEMMA ListSafe == ASSUME IpIInv, NEW t \in Threads, List(t) PROVE IpIInv'
  <1>1. PICK ip \in [Vms -> Address] :
          listing' = [listing EXCEPT ![t] =
                [NoListing EXCEPT !.pc = "agents", !.ip = ip,
                                  !.up = {v \in Vms : lease[v] # NoIp}]]
    BY DEF List
  <1> DEFINE new == [NoListing EXCEPT !.pc = "agents", !.ip = ip,
                                      !.up = {v \in Vms : lease[v] # NoIp}]
  <1>2. new \in Listing
    BY DEF NoListing, Listing, Address
  <1> HIDE DEF new
  <1>3. listing' \in [Threads -> Listing]
    BY <1>1, <1>2, ListingMoves DEF IpIInv, new
  <1>4. IpTypeOK'
    BY <1>3 DEF List, IpIInv, IpTypeOK
  <1>5. QED
    BY <1>4, NoScan DEF List

LEMMA AgentsSafe == ASSUME IpIInv, NEW t \in Threads, Agents(t) PROVE IpIInv'
  <1>1. PICK told \in [Vms -> Address] :
          /\ AgentsStored(told)
          /\ listing' = [listing EXCEPT ![t] = [@ EXCEPT !.pc = "enrich",
                !.ip = [v \in Vms |-> IF told[v] # NoIp THEN told[v] ELSE listing[t].ip[v]]]]
    BY DEF Agents
  <1> DEFINE ip == [v \in Vms |-> IF told[v] # NoIp THEN told[v] ELSE listing[t].ip[v]]
  <1>2. ip \in [Vms -> Address]
    BY ListingFields DEF IpIInv
  <1> HIDE DEF ip
  <1> DEFINE new == [listing[t] EXCEPT !.pc = "enrich", !.ip = ip]
  <1>3. new \in Listing
    BY <1>2, ListingFields DEF IpIInv, Listing
  <1>4. listing' = [listing EXCEPT ![t] = new]
    BY <1>1 DEF ip
  <1> HIDE DEF new
  <1>5. listing' \in [Threads -> Listing]
    BY <1>3, <1>4, ListingMoves DEF IpIInv
  <1>6. rowIp' \in [Vms -> Address] /\ seatIp' \in [Seated -> Address]
    BY <1>1, SeatType DEF AgentsStored, IpIInv, IpTypeOK
  <1>7. IpTypeOK'
    BY <1>5, <1>6 DEF Agents, IpIInv, IpTypeOK
  <1>8. QED
    BY <1>7, NoScan DEF Agents

LEMMA EnrichSafe == ASSUME IpIInv, NEW t \in Threads, Enrich(t) PROVE IpIInv'
  <1>1. PICK ip \in [Vms -> Address] :
          listing' = [listing EXCEPT ![t] = [@ EXCEPT
                !.pc = IF Scanned(t, ip) = {} THEN "persist" ELSE "ask",
                !.up = Scanned(t, ip), !.ip = ip]]
    BY DEF Enrich
  <1>2. Scanned(t, ip) \subseteq Vms
    BY ListingFields DEF Scanned, IpIInv
  <1> DEFINE new == [listing[t] EXCEPT
                        !.pc = IF Scanned(t, ip) = {} THEN "persist" ELSE "ask",
                        !.up = Scanned(t, ip), !.ip = ip]
  <1>3. new \in Listing
    BY <1>2, ListingFields DEF IpIInv, Listing
  <1>4. listing' = [listing EXCEPT ![t] = new]
    BY <1>1
  <1> HIDE DEF new
  <1>5. listing' \in [Threads -> Listing]
    BY <1>3, <1>4, ListingMoves DEF IpIInv
  <1>6. IpTypeOK'
    BY <1>5 DEF Enrich, IpIInv, IpTypeOK
  <1>7. QED
    BY <1>6, NoScan DEF Enrich

LEMMA AskSafe == ASSUME IpIInv, NEW t \in Threads, Ask(t) PROVE IpIInv'
  <1>1. PICK pc \in {"save", "sweep", "want"} :
          listing' = [listing EXCEPT ![t] = Knows(t, pc, Hits(t))]
    BY DEF Ask
  <1>2. Hits(t) \subseteq Vms
    BY ListingFields DEF Hits, IpIInv
  <1>3. Knows(t, pc, Hits(t)) \in Listing
    BY <1>2, KnowsType DEF IpIInv
  <1>4. listing' \in [Threads -> Listing]
    BY <1>1, <1>3, ListingMoves DEF IpIInv
  <1>5. IpTypeOK'
    BY <1>4 DEF Ask, IpIInv, IpTypeOK
  <1>6. QED
    BY <1>5, NoScan DEF Ask

LEMMA WantSafe == ASSUME IpIInv, NEW t \in Threads, Want(t) PROVE IpIInv'
  <1>1. Knows(t, "save", {}) \in Listing
    BY KnowsType DEF IpIInv
  <1>2. listing' \in [Threads -> Listing]
    BY <1>1, ListingMoves DEF Want, IpIInv
  <1>3. listing[t].up \subseteq Vms
    BY ListingFields DEF IpIInv
  <1>4. IpTypeOK'
    BY <1>2, <1>3 DEF Want, IpIInv, IpTypeOK
  <1>5. Alone'
    BY DEF Want, IpIInv, IpTypeOK, Alone
  <1>6. QED
    BY <1>4, <1>5 DEF IpIInv

(* A thread that cannot be started leaves no worker behind its flag.         *)
LEMMA WantFailsSafe == ASSUME IpIInv, NEW t \in Threads, WantFails(t) PROVE IpIInv'
  <1>1. listing' \in [Threads -> Listing]
    BY NoListingIs, ListingMoves DEF WantFails, IpIInv
  <1>2. IpTypeOK'
    BY <1>1 DEF WantFails, IpIInv, IpTypeOK
  <1>3. QED
    BY <1>2 DEF WantFails, IpIInv, Alone

LEMMA PingedType ==
    ASSUME IpTypeOK, NEW ips \in SUBSET Ips, Pinged(ips)
    PROVE  neigh' \in [Ips -> Vms \cup {NoLine}]
  BY DEF Pinged, IpTypeOK

LEMMA SweepSafe == ASSUME IpIInv, NEW t \in Threads, SweepAndLook(t) PROVE IpIInv'
  <1>1. PICK f \in Table(listing[t].up) :
          listing' = [listing EXCEPT ![t] = [@ EXCEPT
              !.pc = "save", !.up = {}, !.found = {},
              !.ip = [v \in Vms |->
                  IF v \in listing[t].up \ listing[t].found /\ f[v] # NoIp
                  THEN f[v] ELSE listing[t].ip[v]]]]
    BY DEF SweepAndLook
  <1>2. f \in [listing[t].up -> Address]
    BY <1>1 DEF Table
  <1> DEFINE ip == [v \in Vms |-> IF v \in listing[t].up \ listing[t].found /\ f[v] # NoIp
                                  THEN f[v] ELSE listing[t].ip[v]]
  <1>3. ip \in [Vms -> Address]
    BY <1>2, ListingFields DEF IpIInv
  <1> HIDE DEF ip
  <1> DEFINE new == [listing[t] EXCEPT !.pc = "save", !.up = {}, !.found = {}, !.ip = ip]
  <1>4. new \in Listing
    BY <1>3, ListingFields DEF IpIInv, Listing
  <1>5. listing' = [listing EXCEPT ![t] = new]
    BY <1>1 DEF ip
  <1> HIDE DEF new
  <1>6. listing' \in [Threads -> Listing]
    BY <1>4, <1>5, ListingMoves DEF IpIInv
  <1>7. IpTypeOK'
    BY <1>6, PingedType DEF SweepAndLook, PingSweep, IpIInv, IpTypeOK
  <1>8. QED
    BY <1>7, NoScan DEF SweepAndLook

LEMMA SaveSafe == ASSUME IpIInv, NEW t \in Threads, Save(t) PROVE IpIInv'
  <1> DEFINE new == [listing[t] EXCEPT !.pc = "persist"]
  <1>1. new \in Listing
    BY ListingFields DEF IpIInv, Listing
  <1>2. listing' = [listing EXCEPT ![t] = new]
    BY DEF Save
  <1> HIDE DEF new
  <1>3. listing' \in [Threads -> Listing]
    BY <1>1, <1>2, ListingMoves DEF IpIInv
  <1>4. rowIp' \in [Vms -> Address] /\ seatIp' \in [Seated -> Address]
    BY ListingFields, SeatType DEF Save, RowsAfter, IpIInv, IpTypeOK
  <1>5. IpTypeOK'
    BY <1>3, <1>4 DEF Save, IpIInv, IpTypeOK
  <1>6. QED
    BY <1>5, NoScan DEF Save

LEMMA PersistSafe == ASSUME IpIInv, NEW t \in Threads, Persist(t) PROVE IpIInv'
  <1>1. listing' \in [Threads -> Listing]
    BY NoListingIs, ListingMoves DEF Persist, IpIInv
  <1>2. rowIp' \in [Vms -> Address]
    BY ListingFields DEF Persist, RowsAfter, IpIInv, IpTypeOK
  <1>3. IpTypeOK'
    BY <1>1, <1>2 DEF Persist, IpIInv, IpTypeOK
  <1>4. QED
    BY <1>3, NoScan DEF Persist

(* The worker that ends is the only one.                                     *)
LEMMA WorkSafe == ASSUME IpIInv, NEW t \in Threads, Work(t) PROVE IpIInv'
  <1>1. arpCache' \in [Vms -> Address]
    <2>1. PICK f \in Table(worker[t]) :
            arpCache' = [v \in Vms |->
                IF v \in worker[t] /\ f[v] # NoIp THEN f[v] ELSE arpCache[v]]
      BY DEF Work
    <2>2. f \in [worker[t] -> Address]
      BY <2>1 DEF Table
    <2>3. QED
      BY <2>1, <2>2 DEF IpIInv, IpTypeOK
  <1>2. neigh' \in [Ips -> Vms \cup {NoLine}]
    BY PingedType DEF Work, PingSweep, IpIInv
  <1>3. worker' \in [Threads -> SUBSET Vms] /\ \A u \in Threads : worker'[u] = {}
    BY DEF Work, IpIInv, IpTypeOK, Alone
  <1>4. IpTypeOK'
    BY <1>1, <1>2, <1>3 DEF Work, IpIInv, IpTypeOK
  <1>5. QED
    BY <1>3, <1>4 DEF IpIInv, Alone

LEMMA WorkFailsSafe == ASSUME IpIInv, NEW t \in Threads, WorkFails(t) PROVE IpIInv'
  <1>1. neigh' \in [Ips -> Vms \cup {NoLine}]
    BY PingedType DEF WorkFails, IpIInv
  <1>2. worker' \in [Threads -> SUBSET Vms] /\ \A u \in Threads : worker'[u] = {}
    BY DEF WorkFails, IpIInv, IpTypeOK, Alone
  <1>3. IpTypeOK'
    BY <1>1, <1>2 DEF WorkFails, IpIInv, IpTypeOK
  <1>4. QED
    BY <1>2, <1>3 DEF IpIInv, Alone

LEMMA NetworkSafe ==
    ASSUME IpIInv,
           (\E v \in Vms : Move(v)) \/ (\E i \in Ips : Forget(i)) \/ CacheExpires
    PROVE  IpIInv'
  <1>1. CASE \E v \in Vms : Move(v)
    <2>1. moves' \in 0..MaxMoves
      BY <1>1, IpAssumption DEF Move, IpIInv, IpTypeOK
    <2>2. lease' \in [Vms -> Address]
      BY <1>1 DEF Move, IpIInv, IpTypeOK
    <2>3. IpTypeOK'
      BY <1>1, <2>1, <2>2 DEF Move, IpIInv, IpTypeOK
    <2>4. QED
      BY <1>1, <2>3, NoScan DEF Move
  <1>2. CASE \E i \in Ips : Forget(i)
    <2>1. IpTypeOK'
      BY <1>2 DEF Forget, IpIInv, IpTypeOK
    <2>2. QED
      BY <1>2, <2>1, NoScan DEF Forget
  <1>3. CASE CacheExpires
    <2>1. IpTypeOK'
      BY <1>3 DEF CacheExpires, IpIInv, IpTypeOK
    <2>2. QED
      BY <1>3, <2>1, NoScan DEF CacheExpires
  <1>4. QED
    BY <1>1, <1>2, <1>3

(* However many threads list addresses, and whatever VMs, caches and the
   neighbour table do meanwhile, scans that fail and threads that do not start
   included: one background scan at a time, under its flag.  The sweeps of
   threads that wait are not counted (arp_scanner.py, discover_ips_via_arp). *)
THEOREM OneBackgroundScan == IpSpec => []IpInv
  <1>1. IpInit => IpIInv
    <2> SUFFICES ASSUME IpInit PROVE IpIInv
      OBVIOUS
    <2>1. moves \in 0..MaxMoves
      BY IpAssumption DEF IpInit
    <2>2. listing \in [Threads -> Listing]
      BY NoListingIs DEF IpInit
    <2>3. IpTypeOK
      BY <2>1, <2>2 DEF IpInit, IpTypeOK, Address
    <2>4. QED
      BY <2>3 DEF IpInit, IpIInv, Alone
  <1>2. ASSUME IpIInv, [IpNext]_ipVars PROVE IpIInv'
    <2>1. CASE UNCHANGED ipVars
      BY <1>2, <2>1 DEF ipVars, IpIInv, IpTypeOK, Alone
    <2>2. QED
      BY <1>2, <2>1, ListSafe, AgentsSafe, EnrichSafe, AskSafe, WantSafe, WantFailsSafe,
         SweepSafe, SaveSafe, PersistSafe, WorkSafe, WorkFailsSafe, NetworkSafe
         DEF IpNext, ListStep, WorkStep
  <1>3. ASSUME Alone PROVE OneWorker
    <2> DEFINE busy == {t \in Threads : worker[t] # {}}
    <2>1. busy = {} \/ \E t : busy = {t}
      BY <1>3 DEF Alone
    <2> HIDE DEF busy
    <2>2. Cardinality(busy) <= 1
      <3>1. CASE busy = {}
        BY <3>1, FS_EmptySet
      <3>2. ASSUME NEW t, busy = {t} PROVE Cardinality(busy) <= 1
        <4>1. Cardinality({t}) = 1
          BY FS_Singleton
        <4>2. QED
          BY <3>2, <4>1
      <3>3. QED
        BY <2>1, <3>1, <3>2
    <2>3. QED
      BY <1>3, <2>2 DEF Alone, OneWorker, busy
  <1>4. IpIInv => IpInv
    BY <1>3 DEF IpIInv, IpInv
  <1>5. QED
    BY <1>1, <1>2, <1>4, PTL DEF IpSpec

-----------------------------------------------------------------------------
(* Catalog.                                                                  *)

(* What the nodes of a pass are, and which passes remove what they have not
   found.                                                                    *)
SweepFits(s) ==
    /\ s.todo \subseteq IF s.op = "iso_quick" THEN Volids ELSE Nodes
    /\ s.pc = "remove" => s.op \in {"tpl_full", "iso_full"}

CatIInv == CatTypeOK /\ \A w \in Workers : SweepFits(sweep[w])

LEMMA IdleSweepIs == IdleSweep \in Sweep /\ SweepFits(IdleSweep) /\ IdleSweep.pc = "idle"
                     /\ IdleSweep.gone = {} /\ IdleSweep.add = {}
  BY DEF IdleSweep, Sweep, SweepFits, AllCatOps

(* A pass that goes on changes its own record.                               *)
LEMMA SweepMoves ==
    ASSUME CatIInv, NEW w \in Workers, NEW new \in Sweep, Set(w, new)
    PROVE  /\ sweep' \in [Workers -> Sweep] /\ sweep'[w] = new
           /\ \A x \in Workers \ {w} : sweep'[x] = sweep[x]
           /\ SweepFits(new) => \A x \in Workers : SweepFits(sweep'[x])
  BY DEF CatIInv, CatTypeOK, Set

LEMMA SweepFields ==
    ASSUME CatIInv, NEW w \in Workers
    PROVE  /\ sweep[w] \in Sweep /\ SweepFits(sweep[w])
           /\ sweep[w].pc \in {"idle", "scan", "remove", "commit"}
           /\ sweep[w].op \in AllCatOps /\ sweep[w].twice \in BOOLEAN
           /\ sweep[w].todo \subseteq Nodes \cup Volids
           /\ sweep[w].found \subseteq Tpls \cup Volids /\ sweep[w].add \subseteq Tpls \cup Volids
           /\ sweep[w].upd \subseteq Tpls \cup Volids /\ sweep[w].gone \subseteq Tpls \cup Volids
           /\ sweep[w].at \in [Volids -> Nodes \cup {NoNode}]
  <1>1. sweep[w] \in Sweep
    BY DEF CatIInv, CatTypeOK
  <1>2. SweepFits(sweep[w])
    BY DEF CatIInv
  <1>3. QED
    BY <1>1, <1>2 DEF Sweep

LEMMA HeldType ==
    ASSUME NEW n, NEW op
    PROVE  /\ op \in TplOps => Held(n, op) \subseteq Tpls /\ Held(n, op) \subseteq there
           /\ op \notin TplOps => Held(n, op) \subseteq Volids
  BY CatAssumption DEF Held

LEMMA HeldSub ==
    ASSUME NEW n, NEW op
    PROVE  Held(n, op) \subseteq Tpls \cup Volids
  BY HeldType

(* What a pass is when it begins.                                            *)
LEMMA Sweep0Is ==
    ASSUME CatIInv, NEW op \in CatOps
    PROVE  /\ Sweep0(op) \in Sweep /\ SweepFits(Sweep0(op))
           /\ Sweep0(op).pc = "scan" /\ Sweep0(op).op = op
           /\ op # "iso_quick" => Sweep0(op).todo = Nodes
           /\ Sweep0(op).gone = {} /\ Sweep0(op).add = {}
  <1>1. iso \in [Volids -> Nodes \cup {NoNode}] /\ op \in AllCatOps
    BY CatAssumption DEF CatIInv, CatTypeOK
  <1>2. Sweep0(op) \in Sweep
    BY <1>1 DEF Sweep0, IdleSweep, Sweep
  <1>3. /\ Sweep0(op).pc = "scan" /\ Sweep0(op).op = op
        /\ Sweep0(op).todo = IF op = "iso_quick" THEN Listed \cap Volids ELSE Nodes
        /\ Sweep0(op).gone = {} /\ Sweep0(op).add = {}
    BY DEF Sweep0, IdleSweep
  <1>4. QED
    BY <1>2, <1>3 DEF SweepFits

Taking(s, todo, found, add, twice, upd, at) ==
    [s EXCEPT !.todo = todo, !.found = found, !.add = add, !.twice = twice,
              !.upd = upd, !.at = at]

LEMMA SweepTakes ==
    ASSUME NEW s \in Sweep, NEW todo \in SUBSET (Nodes \cup Volids),
           NEW found \in SUBSET (Tpls \cup Volids), NEW add \in SUBSET (Tpls \cup Volids),
           NEW twice \in BOOLEAN, NEW upd \in SUBSET (Tpls \cup Volids),
           NEW at \in [Volids -> Nodes \cup {NoNode}]
    PROVE  LET new == Taking(s, todo, found, add, twice, upd, at)
           IN  /\ new \in Sweep /\ new.pc = s.pc /\ new.op = s.op /\ new.gone = s.gone
               /\ new.todo = todo /\ new.found = found /\ new.add = add
  BY DEF Sweep, Taking

(* What a pass knows when a node has answered.                               *)
LEMMA HeardIs ==
    ASSUME CatIInv, NEW w \in Workers, NEW n \in Nodes
    PROVE  LET s == sweep[w]
               h == Heard(s, n)
           IN  /\ h \in Sweep /\ h.pc = s.pc /\ h.op = s.op /\ h.gone = s.gone
               /\ h.todo = s.todo \ {n}
               /\ h.found = s.found \cup Held(n, s.op)
               /\ h.add = s.add \cup (Held(n, s.op) \ Listed)
  <1> DEFINE s == sweep[w]
             held == Held(n, s.op)
             at == [v \in Volids |-> IF v \in held THEN n ELSE s.at[v]]
  <1>1. /\ s \in Sweep /\ held \subseteq Tpls \cup Volids
        /\ at \in [Volids -> Nodes \cup {NoNode}]
    BY SweepFields, HeldSub
  <1>2. Heard(s, n) = [s EXCEPT !.todo = s.todo \ {n}, !.found = s.found \cup held,
                  !.add = s.add \cup (held \ Listed),
                  !.twice = s.twice \/ (held \ Listed) \cap s.add # {},
                  !.upd = s.upd \cup (held \cap Listed), !.at = at]
    BY <1>1 DEF Heard, Sweep
  <1>3. (s.twice \/ (held \ Listed) \cap s.add # {}) \in BOOLEAN
    BY SweepFields
  <1> DEFINE twice == s.twice \/ (held \ Listed) \cap s.add # {}
             todo == s.todo \ {n}
             found == s.found \cup held
             add == s.add \cup (held \ Listed)
             upd == s.upd \cup (held \cap Listed)
  <1>4. Heard(s, n) = Taking(s, todo, found, add, twice, upd, at)
    BY <1>2 DEF Taking
  <1>5. /\ todo \in SUBSET (Nodes \cup Volids) /\ found \in SUBSET (Tpls \cup Volids)
        /\ add \in SUBSET (Tpls \cup Volids) /\ upd \in SUBSET (Tpls \cup Volids)
        /\ twice \in BOOLEAN
    BY <1>1, <1>3, SweepFields
  <1>6. s \in Sweep
    BY <1>1
  <1> HIDE DEF s, held, at, twice, todo, found, add, upd
  <1>7. /\ Heard(s, n) \in Sweep /\ Heard(s, n).pc = s.pc /\ Heard(s, n).op = s.op
        /\ Heard(s, n).gone = s.gone /\ Heard(s, n).todo = todo
        /\ Heard(s, n).found = found /\ Heard(s, n).add = add
    BY <1>1, <1>4, <1>5, <1>6, SweepTakes
  <1>8. QED
    BY <1>7 DEF held, todo, found, add, s

(* What the steps of a pass leave of it.                                     *)
LEMMA SweepScans ==
    ASSUME CatIInv, NEW w \in Workers,
           SweepNode(w) \/ SweepCluster(w) \/ SweepIso(w) \/ SweepScanned(w) \/ SweepRemove(w)
    PROVE  \E new \in Sweep :
              /\ Set(w, new) /\ SweepFits(new)
              /\ \/ silences' # 0
                 \/ \E n \in sweep[w].todo \cap Nodes :
                       /\ sweep[w].op # "iso_quick" /\ sweep[w].pc = "scan"
                       /\ new = Heard(sweep[w], n)
                 \/ /\ new.op \notin {"tpl_full"} /\ new.op = sweep[w].op
                    /\ new.gone \subseteq sweep[w].gone \cup Volids
                    /\ new.add \subseteq sweep[w].add \cup there \cup Volids
                 \/ /\ sweep[w].op \in {"tpl_full", "iso_full"} /\ new.op = sweep[w].op
                    /\ new.gone = sweep[w].gone /\ new.add = sweep[w].add
                    /\ sweep[w].pc = "scan" /\ sweep[w].todo = {}
                    /\ new.pc = "remove" /\ new.found = sweep[w].found
                 \/ /\ sweep[w].op = "tpl_full" /\ sweep[w].pc = "remove"
                    /\ new.gone \subseteq Tpls \ sweep[w].found /\ new.add = sweep[w].add
                    /\ new.pc = "commit" /\ new.op = sweep[w].op
  <1> DEFINE s == sweep[w]
  <1>0. s \in Sweep /\ SweepFits(s)
    BY SweepFields
  <1>1. CASE SweepNode(w)
    <2>1. /\ s.pc = "scan" /\ s.op # "iso_quick" /\ s.todo \subseteq Nodes
      BY <1>0, <1>1 DEF SweepNode, SweepFits
    <2>2. PICK n \in s.todo :
            Set(w, Heard(s, n)) \/ (Silence /\ Set(w, [s EXCEPT !.todo = s.todo \ {n}]))
      BY <1>0, <1>1 DEF SweepNode, Sweep
    <2>3. CASE Set(w, Heard(s, n))
      <3>1. Heard(s, n) \in Sweep /\ SweepFits(Heard(s, n))
        BY <2>1, <2>2, HeardIs DEF SweepFits
      <3>2. QED
        BY <2>1, <2>2, <2>3, <3>1
    <2>4. CASE Silence /\ Set(w, [s EXCEPT !.todo = s.todo \ {n}])
      <3>1. [s EXCEPT !.todo = s.todo \ {n}] \in Sweep
        BY <1>0 DEF Sweep
      <3>2. SweepFits([s EXCEPT !.todo = s.todo \ {n}])
        BY <1>0 DEF SweepFits, Sweep
      <3>3. silences' # 0
        BY <2>4 DEF Silence, CatIInv, CatTypeOK
      <3>4. QED
        BY <2>4, <3>1, <3>2, <3>3
    <2>5. QED
      BY <2>2, <2>3, <2>4
  <1>2. CASE SweepCluster(w)
    <2>1. s.op = "tpl_route"
      BY <1>2 DEF SweepCluster
    <2> DEFINE held == there \cap Tpls
               new == [s EXCEPT !.todo = {}, !.add = held \ tpl, !.upd = held \cap tpl]
    <2>2. CASE Set(w, new)
      <3>1. new \in Sweep
        BY <1>0 DEF Sweep
      <3>2. /\ new.op = s.op /\ new.gone = s.gone /\ new.add = held \ tpl
            /\ new.todo = {} /\ new.pc = s.pc
        BY <1>0 DEF Sweep
      <3> HIDE DEF new
      <3>3. SweepFits(new)
        BY <1>0, <3>2 DEF SweepFits
      <3>4. QED
        BY <2>1, <2>2, <3>1, <3>2, <3>3
    <2>3. CASE Silence /\ Set(w, IdleSweep)
      <3>1. silences' # 0
        BY <2>3 DEF Silence, CatIInv, CatTypeOK
      <3>2. QED
        BY <2>3, <3>1, IdleSweepIs
    <2>4. QED
      BY <1>2, <2>2, <2>3 DEF SweepCluster
  <1>3. CASE SweepIso(w)
    <2>1. s.op = "iso_quick" /\ s.todo \subseteq Volids /\ s.pc = "scan"
      BY <1>0, <1>3 DEF SweepIso, SweepFits
    <2>2. PICK v \in s.todo : \/ Set(w, [s EXCEPT !.todo = s.todo \ {v}, !.upd = s.upd \cup {v}])
                              \/ Set(w, [s EXCEPT !.todo = s.todo \ {v}, !.gone = s.gone \cup {v}])
                              \/ Set(w, [s EXCEPT !.todo = s.todo \ {v}])
      BY <1>0, <1>3 DEF SweepIso, Sweep
    <2>3. v \in Volids
      BY <2>1
    <2>4. CASE Set(w, [s EXCEPT !.todo = s.todo \ {v}, !.upd = s.upd \cup {v}])
      <3> DEFINE new == [s EXCEPT !.todo = s.todo \ {v}, !.upd = s.upd \cup {v}]
      <3>1. /\ new \in Sweep /\ new.op = s.op /\ new.pc = s.pc /\ new.todo \subseteq s.todo
            /\ new.gone = s.gone /\ new.add = s.add
        BY <1>0, <2>3 DEF Sweep
      <3> HIDE DEF new
      <3>2. SweepFits(new)
        BY <2>1, <3>1 DEF SweepFits
      <3>3. Set(w, new)
        BY <2>4 DEF new
      <3>4. QED
        BY <2>1, <3>1, <3>2, <3>3
    <2>5. CASE Set(w, [s EXCEPT !.todo = s.todo \ {v}, !.gone = s.gone \cup {v}])
      <3> DEFINE new == [s EXCEPT !.todo = s.todo \ {v}, !.gone = s.gone \cup {v}]
      <3>1. /\ new \in Sweep /\ new.op = s.op /\ new.pc = s.pc /\ new.todo \subseteq s.todo
            /\ new.gone = s.gone \cup {v} /\ new.add = s.add
        BY <1>0, <2>3 DEF Sweep
      <3> HIDE DEF new
      <3>2. SweepFits(new)
        BY <2>1, <3>1 DEF SweepFits
      <3>3. Set(w, new)
        BY <2>5 DEF new
      <3>4. QED
        BY <2>1, <2>3, <3>1, <3>2, <3>3
    <2>6. CASE Set(w, [s EXCEPT !.todo = s.todo \ {v}])
      <3> DEFINE new == [s EXCEPT !.todo = s.todo \ {v}]
      <3>1. /\ new \in Sweep /\ new.op = s.op /\ new.pc = s.pc /\ new.todo \subseteq s.todo
            /\ new.gone = s.gone /\ new.add = s.add
        BY <1>0, <2>3 DEF Sweep
      <3> HIDE DEF new
      <3>2. SweepFits(new)
        BY <2>1, <3>1 DEF SweepFits
      <3>3. Set(w, new)
        BY <2>6 DEF new
      <3>4. QED
        BY <2>1, <3>1, <3>2, <3>3
    <2>7. QED
      BY <2>2, <2>4, <2>5, <2>6
  <1>4. CASE SweepScanned(w)
    <2> DEFINE pc == IF s.op \in {"tpl_full", "iso_full"} THEN "remove" ELSE "commit"
               new == [s EXCEPT !.pc = pc]
    <2>1. /\ new \in Sweep /\ new.op = s.op /\ new.todo = s.todo /\ new.found = s.found
          /\ new.gone = s.gone /\ new.add = s.add /\ new.pc = pc
      BY <1>0 DEF Sweep
    <2>2. Set(w, new) /\ s.pc = "scan" /\ s.todo = {}
      BY <1>4 DEF SweepScanned
    <2> HIDE DEF new
    <2>3. SweepFits(new)
      BY <1>0, <2>1 DEF SweepFits
    <2>4. QED
      BY <2>1, <2>2, <2>3
  <1>5. CASE SweepRemove(w)
    <2> DEFINE new == [s EXCEPT !.pc = "commit", !.gone = (Listed \cap Of(s.op)) \ s.found]
    <2>1. Listed \cap Of(s.op) \subseteq Tpls \cup Volids
      BY DEF Of
    <2>2. /\ new \in Sweep /\ new.op = s.op /\ new.todo = s.todo /\ new.found = s.found
          /\ new.gone = (Listed \cap Of(s.op)) \ s.found /\ new.add = s.add
          /\ new.pc = "commit"
      BY <1>0, <2>1 DEF Sweep
    <2>3. Set(w, new) /\ s.pc = "remove" /\ s.op \in {"tpl_full", "iso_full"}
      BY <1>0, <1>5 DEF SweepRemove, SweepFits
    <2> HIDE DEF new
    <2>4. SweepFits(new)
      BY <1>0, <2>2 DEF SweepFits
    <2>5. CASE s.op = "tpl_full"
      BY <2>2, <2>3, <2>4, <2>5 DEF Of, TplOps
    <2>6. CASE s.op = "iso_full"
      BY <2>2, <2>3, <2>4, <2>6 DEF Of, TplOps
    <2>7. QED
      BY <2>3, <2>5, <2>6
  <1>6. QED
    BY <1>1, <1>2, <1>3, <1>4, <1>5

SweepWork(w) == \/ SweepNode(w) \/ SweepCluster(w) \/ SweepIso(w) \/ SweepScanned(w)
                \/ SweepRemove(w)
Events == Appear \/ Vanish \/ create_template \/ api_upload_iso \/ Choose

LEMMA CounterTypes ==
    ASSUME CatIInv, [CatNext]_catVars
    PROVE  /\ events' \in 0..MaxEvents /\ silences' \in 0..MaxSilences
           /\ events' >= events /\ silences' >= silences
  <1>1. events \in 0..MaxEvents /\ silences \in 0..MaxSilences
    BY DEF CatIInv, CatTypeOK
  <1>2. (events' = events \/ Event) /\ (silences' = silences \/ Silence)
    BY DEF CatNext, Appear, Vanish, create_template, api_upload_iso, Choose, SweepStep,
           SweepNode, SweepCluster, SweepIso, SweepScanned, SweepRemove, SweepCommit,
           SweepLost, SweepBegin, catVars
  <1>3. QED
    BY <1>1, <1>2, CatAssumption DEF Event, Silence

LEMMA CatTypeSteps == ASSUME CatIInv, [CatNext]_catVars PROVE CatIInv'
  <1>1. events' \in 0..MaxEvents /\ silences' \in 0..MaxSilences
    BY CounterTypes
  <1>2. CASE UNCHANGED catVars
    BY <1>1, <1>2 DEF catVars, CatIInv, CatTypeOK
  <1>3. CASE Events
    <2>1. UNCHANGED sweep
      BY <1>3 DEF Events, Appear, Vanish, create_template, api_upload_iso, Choose
    <2>2. there' \subseteq Tpls \cup Isos /\ tpl' \subseteq Tpls
      BY <1>3
         DEF Events, Appear, Vanish, create_template, api_upload_iso, Choose, CatIInv, CatTypeOK
    <2>3. iso' \in [Volids -> Nodes \cup {NoNode}]
      BY <1>3, CatAssumption
         DEF Events, Appear, Vanish, create_template, api_upload_iso, Choose, CatIInv, CatTypeOK
    <2>4. choice' \in [Labs -> Tpls \cup {NoTpl}]
      BY <1>3
         DEF Events, Appear, Vanish, create_template, api_upload_iso, Choose, CatIInv, CatTypeOK
    <2>5. QED
      BY <1>1, <2>1, <2>2, <2>3, <2>4 DEF CatIInv, CatTypeOK
  <1>4. ASSUME NEW w \in Workers, NEW new \in Sweep, Set(w, new), SweepFits(new),
               UNCHANGED <<there, tpl, iso, choice>>
        PROVE  CatIInv'
    <2>1. sweep' \in [Workers -> Sweep] /\ \A x \in Workers : SweepFits(sweep'[x])
      BY <1>4, SweepMoves
    <2>2. QED
      BY <1>1, <1>4, <2>1 DEF CatIInv, CatTypeOK
  <1>5. ASSUME NEW w \in Workers, NEW op \in CatOps, SweepBegin(w, op) PROVE CatIInv'
    BY <1>4, <1>5, Sweep0Is DEF SweepBegin
  <1>6. ASSUME NEW w \in Workers, SweepWork(w) PROVE CatIInv'
    <2>1. UNCHANGED <<there, tpl, iso, choice>>
      BY <1>6 DEF SweepWork, SweepNode, SweepCluster, SweepIso, SweepScanned, SweepRemove
    <2>2. \E new \in Sweep : Set(w, new) /\ SweepFits(new)
      BY <1>6, SweepScans DEF SweepWork
    <2>3. QED
      BY <1>4, <2>1, <2>2
  <1>7. ASSUME NEW w \in Workers, SweepLost(w) PROVE CatIInv'
    BY <1>4, <1>7, IdleSweepIs DEF SweepLost
  <1>8. ASSUME NEW w \in Workers, SweepCommit(w) PROVE CatIInv'
    <2>1. sweep' \in [Workers -> Sweep] /\ \A x \in Workers : SweepFits(sweep'[x])
      BY <1>8, SweepMoves, IdleSweepIs DEF SweepCommit
    <2>2. tpl' \subseteq Tpls
      BY <1>8 DEF SweepCommit, CatIInv, CatTypeOK
    <2>3. iso' \in [Volids -> Nodes \cup {NoNode}]
      BY <1>8, SweepFields DEF SweepCommit, CatIInv, CatTypeOK
    <2>4. choice' \in [Labs -> Tpls \cup {NoTpl}]
      BY <1>8 DEF SweepCommit, CatIInv, CatTypeOK
    <2>5. there' = there
      BY <1>8 DEF SweepCommit
    <2>6. QED
      BY <1>1, <2>1, <2>2, <2>3, <2>4, <2>5 DEF CatIInv, CatTypeOK
  <1>9. QED
    BY <1>2, <1>3, <1>5, <1>6, <1>7, <1>8 DEF CatNext, SweepStep, SweepWork, Events

LEMMA CatTypeAlways == CatSpec => []CatIInv
  <1>1. ASSUME CatInit PROVE CatIInv
    <2>1. 0 \in 0..MaxEvents /\ 0 \in 0..MaxSilences
      BY CatAssumption
    <2>2. sweep \in [Workers -> Sweep] /\ \A w \in Workers : SweepFits(sweep[w])
      BY <1>1, IdleSweepIs DEF CatInit
    <2>3. QED
      BY <1>1, <2>1, <2>2 DEF CatInit, CatIInv, CatTypeOK
  <1>2. CatIInv /\ [CatNext]_catVars => CatIInv'
    BY CatTypeSteps
  <1>3. QED
    BY <1>1, <1>2, PTL DEF CatSpec

-----------------------------------------------------------------------------
(* The classes' templates.                                                   *)

(* A pass does not remove template k: it has found it or is yet to ask its
   node.                                                                     *)
Spares(s, k) ==
    /\ k \notin s.gone
    /\ s.op = "tpl_full" /\ s.pc \in {"scan", "remove"} =>
          k \in s.found \/ (s.pc = "scan" /\ Site[k] \in s.todo)
Spared(k) == k \in tpl /\ \A w \in Workers : Spares(sweep[w], k)

(* While all nodes answer: before the first event the table shows the nodes and
   no pass is about to change that, and after one event the classes' templates
   that are still there stay in the table.                                   *)
InStep ==
    /\ tpl = there \cap Tpls
    /\ \A k \in tpl : Spared(k)
    /\ \A w \in Workers : sweep[w].add \cap Tpls \subseteq there
    /\ \A c \in Labs : choice[c] \in tpl \cup {NoTpl}
ChosenSpared == \A c \in Labs : choice[c] \in there => Spared(choice[c])
HeardInv == silences = 0 => (events = 0 => InStep) /\ (events <= 1 => ChosenSpared)

LEMMA SparesOn ==
    ASSUME CatIInv, NEW w \in Workers, SweepWork(w), NEW k \in Tpls, k \in there,
           Spares(sweep[w], k), silences' = 0
    PROVE  Spares(sweep'[w], k) /\ sweep'[w].add \cap Tpls \subseteq sweep[w].add \cup there
  <1>1. PICK new \in Sweep :
              /\ Set(w, new) /\ SweepFits(new)
              /\ \/ silences' # 0
                 \/ \E n \in sweep[w].todo \cap Nodes :
                       /\ sweep[w].op # "iso_quick" /\ sweep[w].pc = "scan"
                       /\ new = Heard(sweep[w], n)
                 \/ /\ new.op \notin {"tpl_full"} /\ new.op = sweep[w].op
                    /\ new.gone \subseteq sweep[w].gone \cup Volids
                    /\ new.add \subseteq sweep[w].add \cup there \cup Volids
                 \/ /\ sweep[w].op \in {"tpl_full", "iso_full"} /\ new.op = sweep[w].op
                    /\ new.gone = sweep[w].gone /\ new.add = sweep[w].add
                    /\ sweep[w].pc = "scan" /\ sweep[w].todo = {}
                    /\ new.pc = "remove" /\ new.found = sweep[w].found
                 \/ /\ sweep[w].op = "tpl_full" /\ sweep[w].pc = "remove"
                    /\ new.gone \subseteq Tpls \ sweep[w].found /\ new.add = sweep[w].add
                    /\ new.pc = "commit" /\ new.op = sweep[w].op
    BY SweepScans DEF SweepWork
  <1>2. sweep'[w] = new
    BY <1>1, SweepMoves
  <1>3. k \notin Volids /\ Volids \cap Tpls = {}
    BY CatAssumption
  <1>4. ASSUME NEW n \in sweep[w].todo \cap Nodes, sweep[w].pc = "scan",
               new = Heard(sweep[w], n)
        PROVE  Spares(new, k) /\ new.add \cap Tpls \subseteq sweep[w].add \cup there
    <2>1. /\ new.pc = sweep[w].pc /\ new.op = sweep[w].op /\ new.gone = sweep[w].gone
          /\ new.todo = sweep[w].todo \ {n}
          /\ new.found = sweep[w].found \cup Held(n, sweep[w].op)
          /\ new.add = sweep[w].add \cup (Held(n, sweep[w].op) \ Listed)
      BY <1>4, HeardIs
    <2>2. Held(n, sweep[w].op) \cap Tpls \subseteq there
      BY <1>3, HeldType
    <2>3. sweep[w].op = "tpl_full" /\ Site[k] = n => k \in Held(n, sweep[w].op)
      BY DEF Held, TplOps
    <2>4. QED
      BY <1>4, <2>1, <2>2, <2>3 DEF Spares
  <1>5. CASE /\ new.op # "tpl_full"
             /\ new.gone \subseteq sweep[w].gone \cup Volids
             /\ new.add \subseteq sweep[w].add \cup there \cup Volids
    BY <1>2, <1>3, <1>5 DEF Spares
  <1>6. CASE /\ new.op = sweep[w].op /\ new.gone = sweep[w].gone /\ new.add = sweep[w].add
             /\ sweep[w].pc = "scan" /\ sweep[w].todo = {}
             /\ new.pc = "remove" /\ new.found = sweep[w].found
    BY <1>2, <1>6 DEF Spares
  <1>7. CASE /\ sweep[w].op = "tpl_full" /\ sweep[w].pc = "remove"
             /\ new.gone \subseteq Tpls \ sweep[w].found /\ new.add = sweep[w].add
             /\ new.pc = "commit"
    BY <1>2, <1>7 DEF Spares
  <1>8. QED
    BY <1>1, <1>2, <1>4, <1>5, <1>6, <1>7

LEMMA AddsOn ==
    ASSUME CatIInv, NEW w \in Workers, SweepWork(w), silences' = 0,
           sweep[w].add \cap Tpls \subseteq there
    PROVE  sweep'[w].add \cap Tpls \subseteq there
  <1>1. PICK new \in Sweep :
              /\ Set(w, new)
              /\ \/ \E n \in Nodes : new = Heard(sweep[w], n)
                 \/ new.add \subseteq sweep[w].add \cup there \cup Volids
    BY SweepScans DEF SweepWork
  <1>2. sweep'[w] = new /\ Volids \cap Tpls = {}
    BY <1>1, SweepMoves, CatAssumption
  <1>3. ASSUME NEW n \in Nodes, new = Heard(sweep[w], n)
        PROVE  new.add \cap Tpls \subseteq there
    <2>1. new.add = sweep[w].add \cup (Held(n, sweep[w].op) \ Listed)
      BY <1>3, HeardIs
    <2>2. Held(n, sweep[w].op) \cap Tpls \subseteq there
      BY <1>2, HeldType
    <2>3. QED
      BY <2>1, <2>2
  <1>4. QED
    BY <1>1, <1>2, <1>3

LEMMA SparesNew ==
    ASSUME CatIInv, NEW k \in Tpls
    PROVE  /\ \A op \in CatOps : Spares(Sweep0(op), k)
           /\ Spares(IdleSweep, k)
  <1>1. Site[k] \in Nodes
    BY CatAssumption
  <1>2. QED
    BY <1>1, Sweep0Is, IdleSweepIs DEF Spares

(* A template stays spared by every step of a pass, as long as it is there and
   every node answers.                                                       *)
LEMMA SparedOn ==
    ASSUME CatIInv, NEW k \in Tpls, k \in there, Spared(k), silences' = 0, NEW w \in Workers,
           SweepStep(w) \/ \E op \in CatOps : SweepBegin(w, op)
    PROVE  Spared(k)'
  <1>1. \A x \in Workers : Spares(sweep[x], k)
    BY DEF Spared
  <1>2. \A x \in Workers \ {w} : sweep'[x] = sweep[x]
    BY DEF SweepStep, SweepNode, SweepCluster, SweepIso, SweepScanned, SweepRemove,
           SweepCommit, SweepLost, SweepBegin, Set, CatIInv, CatTypeOK
  <1>3. Spares(sweep'[w], k)
    <2>1. CASE SweepWork(w)
      BY <1>1, <2>1, SparesOn
    <2>2. CASE SweepCommit(w) \/ SweepLost(w)
      <3>1. sweep'[w] = IdleSweep
        BY <2>2, SweepMoves, IdleSweepIs DEF SweepCommit, SweepLost
      <3>2. QED
        BY <3>1, SparesNew
    <2>3. ASSUME NEW op \in CatOps, SweepBegin(w, op) PROVE Spares(sweep'[w], k)
      <3>1. sweep'[w] = Sweep0(op)
        BY <2>3, SweepMoves, Sweep0Is DEF SweepBegin
      <3>2. QED
        BY <3>1, SparesNew
    <2>4. QED
      BY <2>1, <2>2, <2>3 DEF SweepStep, SweepWork
  <1>4. k \in tpl'
    <2>1. k \in tpl /\ k \notin sweep[w].gone
      BY <1>1 DEF Spared, Spares
    <2>2. QED
      BY <2>1
         DEF SweepStep, SweepNode, SweepCluster, SweepIso, SweepScanned, SweepRemove,
             SweepCommit, SweepLost, SweepBegin
  <1>5. \A x \in Workers : Spares(sweep[x], k)'
    BY <1>1, <1>2, <1>3 DEF Spares
  <1>6. QED
    BY <1>4, <1>5 DEF Spared
LEMMA IdleSpares == ASSUME NEW k PROVE Spares(IdleSweep, k)
  BY DEF Spares, IdleSweep

LEMMA InStepNow == ASSUME CatInit PROVE InStep
  <1>1. \A w \in Workers : sweep[w] = IdleSweep
    BY DEF CatInit
  <1>2. \A k \in tpl : Spared(k)
    BY <1>1, IdleSpares DEF CatInit, Spared
  <1>3. QED
    BY <1>1, <1>2, IdleSweepIs DEF CatInit, InStep

(* What one event leaves of the classes' templates is spared.                *)
LEMMA EventSpares ==
    ASSUME CatIInv, Events, silences' = 0, HeardInv
    PROVE  HeardInv'
  <1>1. events \in Nat /\ events' = events + 1 /\ silences = 0 /\ UNCHANGED sweep
    BY DEF Events, Appear, Vanish, create_template, api_upload_iso, Choose, Event, Silence,
           CatIInv, CatTypeOK
  <1>2. ASSUME events = 0 PROVE ChosenSpared'
    <2>1. InStep
      BY <1>1, <1>2 DEF HeardInv
    <2>2. /\ tpl \subseteq tpl'
          /\ \A c \in Labs : choice'[c] \in tpl \cup {NoTpl}
      BY <2>1 DEF InStep, Events, Appear, Vanish, create_template, api_upload_iso, Choose,
                  CatIInv, CatTypeOK
    <2>3. NoTpl \notin there'
      BY CatAssumption
         DEF Events, Appear, Vanish, create_template, api_upload_iso, Choose, CatIInv, CatTypeOK
    <2>4. ASSUME NEW c \in Labs, choice'[c] \in there'
          PROVE  choice'[c] \in tpl' /\ \A w \in Workers : Spares(sweep'[w], choice'[c])
      <3>1. choice'[c] \in tpl
        BY <2>2, <2>3, <2>4
      <3>2. Spared(choice'[c])
        BY <2>1, <3>1 DEF InStep
      <3>3. QED
        BY <1>1, <2>2, <3>2 DEF Spared, Spares
    <2>5. QED
      BY <2>4 DEF ChosenSpared, Spared, Spares
  <1>3. QED
    BY <1>1, <1>2 DEF HeardInv

(* Before the first event a pass changes nothing in the table.               *)
LEMMA InStepOn ==
    ASSUME CatIInv, InStep, silences' = 0, NEW w \in Workers,
           SweepStep(w) \/ \E op \in CatOps : SweepBegin(w, op)
    PROVE  InStep'
  <1>1. there' = there
    BY DEF SweepStep, SweepNode, SweepCluster, SweepIso, SweepScanned, SweepRemove,
           SweepCommit, SweepLost, SweepBegin
  <1>2. tpl' = tpl /\ \A c \in Labs : choice'[c] \in {choice[c], NoTpl}
    <2>1. CASE SweepCommit(w)
      <3>1. \A k \in tpl : k \notin sweep[w].gone
        BY DEF InStep, Spared, Spares
      <3>2. sweep[w].add \cap Tpls \subseteq tpl
        BY DEF InStep
      <3>3. QED
        BY <2>1, <3>1, <3>2 DEF SweepCommit
    <2>2. QED
      BY <2>1 DEF SweepStep, SweepNode, SweepCluster, SweepIso, SweepScanned, SweepRemove,
                  SweepLost, SweepBegin
  <1>3. \A k \in tpl : Spared(k)'
    BY SparedOn DEF InStep
  <1>4. ASSUME NEW x \in Workers PROVE sweep'[x].add \cap Tpls \subseteq there
    <2>1. CASE x # w
      <3>1. sweep'[x] = sweep[x]
        BY <2>1 DEF SweepStep, SweepNode, SweepCluster, SweepIso, SweepScanned, SweepRemove,
                    SweepCommit, SweepLost, SweepBegin, Set, CatIInv, CatTypeOK
      <3>2. QED
        BY <3>1 DEF InStep
    <2>2. CASE x = w /\ SweepWork(w)
      BY <2>2, AddsOn DEF InStep
    <2>3. CASE x = w /\ (SweepCommit(w) \/ SweepLost(w))
      <3>1. sweep'[w] = IdleSweep
        BY <2>3, SweepMoves, IdleSweepIs DEF SweepCommit, SweepLost
      <3>2. QED
        BY <2>3, <3>1, IdleSweepIs
    <2>4. ASSUME x = w, NEW op \in CatOps, SweepBegin(w, op)
          PROVE  sweep'[x].add \cap Tpls \subseteq there
      <3>1. sweep'[w] = Sweep0(op)
        BY <2>4, SweepMoves, Sweep0Is DEF SweepBegin
      <3>2. QED
        BY <2>4, <3>1, Sweep0Is
    <2>5. QED
      BY <2>1, <2>2, <2>3, <2>4 DEF SweepStep, SweepWork
  <1>5. QED
    BY <1>1, <1>2, <1>3, <1>4 DEF InStep

LEMMA HeardSteps == ASSUME CatIInv, HeardInv, [CatNext]_catVars PROVE HeardInv'
  <1>1. events \in Nat /\ silences \in Nat /\ silences' \in Nat /\ silences' >= silences
    BY CounterTypes DEF CatIInv, CatTypeOK
  <1>2. SUFFICES ASSUME silences' = 0 PROVE HeardInv'
    BY DEF HeardInv
  <1>3. silences = 0
    BY <1>1, <1>2
  <1>4. CASE UNCHANGED catVars
    BY <1>4 DEF catVars, HeardInv, InStep, ChosenSpared, Spared, Spares
  <1>5. CASE Events
    BY <1>2, <1>5, EventSpares
  <1>6. ASSUME NEW w \in Workers, SweepStep(w) \/ \E op \in CatOps : SweepBegin(w, op)
        PROVE  HeardInv'
    <2>1. events' = events /\ there' = there
      BY <1>6 DEF SweepStep, SweepNode, SweepCluster, SweepIso, SweepScanned, SweepRemove,
                  SweepCommit, SweepLost, SweepBegin
    <2>2. events = 0 => InStep'
      BY <1>2, <1>3, <1>6, InStepOn DEF HeardInv
    <2>3. ASSUME events <= 1 PROVE ChosenSpared'
      <3>1. \A c \in Labs : choice'[c] \in {choice[c], NoTpl} /\ choice[c] \in Tpls \cup {NoTpl}
        BY <1>6 DEF SweepStep, SweepNode, SweepCluster, SweepIso, SweepScanned, SweepRemove,
                    SweepCommit, SweepLost, SweepBegin, CatIInv, CatTypeOK
      <3>2. NoTpl \notin there
        BY CatAssumption DEF CatIInv, CatTypeOK
      <3>3. ASSUME NEW c \in Labs, choice'[c] \in there'
            PROVE  choice'[c] \in tpl' /\ \A x \in Workers : Spares(sweep'[x], choice'[c])
        <4>1. choice'[c] = choice[c] /\ choice[c] \in Tpls /\ choice[c] \in there
          BY <2>1, <3>1, <3>2, <3>3
        <4>2. Spared(choice[c])
          BY <1>3, <2>3, <4>1 DEF HeardInv, ChosenSpared
        <4>3. Spared(choice[c])'
          BY <1>2, <1>6, <4>1, <4>2, SparedOn
        <4>4. QED
          BY <4>1, <4>3 DEF Spared, Spares
      <3>4. QED
        BY <3>3 DEF ChosenSpared, Spared, Spares
    <2>4. QED
      BY <2>1, <2>2, <2>3 DEF HeardInv
  <1>7. QED
    BY <1>4, <1>5, <1>6 DEF CatNext, Events

(* However many nodes, templates, classes and threads: while every node answers
   and at most one thing has changed, no pass takes from a class a template that
   exists (background_sync.py, sync_templates_from_proxmox).                 *)
THEOREM TemplatesStayChosen == CatSpec => KeptWhenHeard
  <1>1. CatInit => HeardInv
    <2>1. ASSUME CatInit PROVE ChosenSpared
      <3>1. InStep
        BY <2>1, InStepNow
      <3>2. NoTpl \notin there
        BY <2>1, CatAssumption DEF CatInit
      <3>3. QED
        BY <3>1, <3>2 DEF InStep, ChosenSpared
    <2>2. QED
      BY <2>1, InStepNow DEF HeardInv
  <1>2. CatIInv /\ HeardInv /\ [CatNext]_catVars => HeardInv'
    BY HeardSteps
  <1>3. ASSUME CatIInv, HeardInv, [CatNext]_catVars
        PROVE  [\A c \in Labs : choice[c] \in there /\ choice'[c] = NoTpl
                                   => silences > 0 \/ events > 1]_catVars
    <2>1. SUFFICES ASSUME CatNext, NEW c \in Labs, choice[c] \in there, choice'[c] = NoTpl,
                          ~(silences > 0), ~(events > 1)
                   PROVE  FALSE
      BY <1>3
    <2>2. silences = 0 /\ events <= 1
      BY <1>3, <2>1 DEF CatIInv, CatTypeOK
    <2>3. Spared(choice[c])
      BY <1>3, <2>1, <2>2 DEF HeardInv, ChosenSpared
    <2>4. choice[c] # NoTpl /\ NoTpl \notin tpl
      BY <1>3, <2>1, CatAssumption DEF CatIInv, CatTypeOK
    <2>5. PICK w \in Workers : SweepCommit(w)
      BY <1>3, <2>1, <2>4
         DEF CatNext, Appear, Vanish, create_template, api_upload_iso, Choose, SweepStep,
             SweepNode, SweepCluster, SweepIso, SweepScanned, SweepRemove, SweepLost,
             SweepBegin, CatIInv, CatTypeOK
    <2>6. choice[c] \in sweep[w].gone
      BY <2>1, <2>4, <2>5 DEF SweepCommit
    <2>7. QED
      BY <2>3, <2>6 DEF Spared, Spares
  <1>4. QED
    BY <1>1, <1>2, <1>3, CatTypeAlways, PTL DEF CatSpec, KeptWhenHeard
-----------------------------------------------------------------------------
(* Inventory.                                                                *)

(* A pass has still to look up, looks up or has changed each row of its
   answer; and it has changed none, or has changes its next query flushes, or
   is at a VM without a row.                                                 *)
PassKept(p) ==
    /\ p.pc = "start" => p.mine = {} /\ p.cur = {} /\ ~p.dirty
    /\ p.pc \in {"lookup", "missing"} => Known(p.answer) = p.todo \cup p.cur \cup p.mine
    /\ p.pc = "lookup" => p.cur = {} /\ (p.dirty \/ p.mine = {})
    /\ p.pc = "missing" => ~p.dirty
    /\ p.pc = "ask" => p.todo \cup p.mine \subseteq Known(p.answer)
    /\ p.pc = "note" => p.mine \subseteq Known(p.answer)
    /\ p.pc \in {"ask", "note"} => p.op # "cleanup"

(* In the second case nobody else inserts that row.                          *)
Guarded(t) ==
    pass[t].pc = "missing" =>
       pass[t].mine = {} \/ (invWriter = t /\ \A g \in pass[t].cur : row[g] = "none")

(* A clean-up that was answered in full names every VM there is.             *)
Cares(p)     == p.pc = "orphans" \/ (p.op = "cleanup" /\ p.pc # "idle")
Sure(p, now) == Cares(p) => \A g \in Guests : now[g] # "absent" => p.answer[g] # "none"
AllSure      == misses = 0 /\ changes = 0 => \A t \in Writers : Sure(pass[t], real)

InvIInv ==
    /\ InvTypeOK
    /\ \A t \in Writers : PassKept(pass[t]) /\ Guarded(t)
    /\ AllSure

LEMMA PassFields ==
    ASSUME NEW p \in Pass
    PROVE  /\ p.pc \in PassPC /\ p.op \in AllInvOps /\ p.clean \in BOOLEAN /\ p.again \in BOOLEAN
           /\ p.answer \in [Guests -> Row]
           /\ p.todo \subseteq Guests /\ p.cur \subseteq Guests /\ p.mine \subseteq Guests
           /\ p.dirty \in BOOLEAN /\ p.fresh \subseteq Guests /\ p.later \subseteq Writers
           /\ p.tries \in 0..MaxTries
  BY DEF Pass

LEMMA NothingIs == Nothing \in [Guests -> Row]
  BY DEF Nothing, Row

LEMMA IdlePassIs ==
    /\ IdlePass \in Pass /\ IdlePass.pc = "idle" /\ IdlePass.op = "full"
    /\ PassKept(IdlePass) /\ ~Cares(IdlePass)
  <1>1. 0 \in 0..MaxTries
    BY InvAssumption
  <1>2. IdlePass \in Pass
    BY <1>1, NothingIs DEF IdlePass, Pass, PassPC, AllInvOps
  <1>3. QED
    BY <1>2 DEF IdlePass, PassKept, Cares

(* What follows a pass.                                                      *)
LEMMA AfterIs ==
    ASSUME InvTypeOK, NEW t \in Writers, pass[t].pc # "idle"
    PROVE  /\ After(t) \in Pass /\ PassKept(After(t)) /\ After(t).pc \in {"start", "orphans", "idle"}
           /\ Cares(After(t)) => Cares(pass[t]) /\ After(t).answer = pass[t].answer
  <1> DEFINE p == pass[t]
             new == After(t)
  <1>1. /\ p.op \in AllInvOps /\ p.clean \in BOOLEAN /\ p.answer \in [Guests -> Row]
        /\ p.again \in BOOLEAN
    BY PassFields DEF InvTypeOK
  <1>2. 0 \in 0..MaxTries
    BY InvAssumption
  <1>3. CASE p.again
    <2>1. /\ new \in Pass /\ new.pc = "start" /\ new.op = p.op /\ new.answer = p.answer
          /\ new.mine = {} /\ new.cur = {} /\ new.dirty = FALSE
      BY <1>1, <1>2, <1>3 DEF After, IdlePass, Pass, PassPC
    <2>2. QED
      BY <2>1 DEF PassKept, Cares
  <1>4. CASE ~p.again /\ p.op = "cleanup"
    <2>1. new \in Pass /\ new.pc = "orphans" /\ new.answer = p.answer
      BY <1>1, <1>2, <1>4 DEF After, IdlePass, Pass, PassPC, AllInvOps
    <2>2. QED
      BY <1>4, <2>1 DEF PassKept, Cares
  <1>5. CASE ~p.again /\ p.op # "cleanup"
    BY <1>5, IdlePassIs DEF After
  <1>6. QED
    BY <1>1, <1>3, <1>4, <1>5

-----------------------------------------------------------------------------
(* Each step by what it makes of the thread's own pass.                      *)

Mine(t, new) == pass' = [pass EXCEPT ![t] = new]

(* The pass goes on with the answer it has.                                  *)
GoesOn(t, new) ==
    /\ new \in Pass /\ PassKept(new)
    /\ Cares(new) => Cares(pass[t]) /\ new.answer = pass[t].answer

LEMMA PassMoves ==
    ASSUME InvTypeOK, NEW t \in Writers, NEW new \in Pass, Mine(t, new)
    PROVE  /\ pass' \in [Writers -> Pass] /\ pass'[t] = new
           /\ \A u \in Writers : u # t => pass'[u] = pass[u]
  BY DEF InvTypeOK, Mine

LEMMA LookupGoes ==
    ASSUME InvIInv, NEW t \in Writers, Lookup(t)
    PROVE  \E new : /\ Mine(t, new) /\ GoesOn(t, new)
                    /\ new.pc = "missing" =>
                          new.mine = {} \/ (invWriter' = t /\ \A g \in new.cur : row[g] = "none")
  <1> DEFINE p == pass[t]
  <1>1. p \in Pass /\ PassKept(p) /\ p.pc = "lookup"
    BY DEF InvIInv, InvTypeOK, Lookup, PassAt
  <1>2. PICK g \in p.todo : pass' = [pass EXCEPT ![t] = Took(p, g)]
    BY DEF Lookup, InvIInv, InvTypeOK
  <1>3. /\ p.todo \subseteq Guests /\ p.cur = {} /\ p.mine \subseteq Guests /\ g \in Guests
        /\ Known(p.answer) = p.todo \cup p.mine /\ (p.dirty \/ p.mine = {})
    BY <1>1, <1>2, PassFields DEF PassKept
  <1>4. CASE row[g] # "none"
    <2> DEFINE new == Took(p, g)
    <2>2. /\ new \in Pass /\ new.pc = "lookup" /\ new.op = p.op /\ new.answer = p.answer
          /\ new.todo = p.todo \ {g} /\ new.cur = {} /\ new.mine = p.mine \cup {g}
          /\ new.dirty = TRUE
      BY <1>1, <1>3, <1>4 DEF Took, Pass, PassPC
    <2> HIDE DEF new
    <2>3. PassKept(new)
      BY <1>2, <1>3, <2>2 DEF PassKept
    <2>4. Mine(t, new)
      BY <1>2 DEF Mine, new
    <2>5. QED
      BY <1>1, <2>2, <2>3, <2>4 DEF GoesOn, Cares
  <1>5. CASE row[g] = "none"
    <2> DEFINE new == Took(p, g)
    <2>2. /\ new \in Pass /\ new.pc = "missing" /\ new.op = p.op /\ new.answer = p.answer
          /\ new.todo = p.todo \ {g} /\ new.cur = {g} /\ new.mine = p.mine
          /\ new.dirty = FALSE
      BY <1>1, <1>3, <1>5 DEF Took, Pass, PassPC
    <2> HIDE DEF new
    <2>3. PassKept(new)
      BY <1>2, <1>3, <2>2 DEF PassKept
    <2>4. p.mine = {} \/ invWriter' = t
      BY <1>3 DEF Lookup
    <2>5. Mine(t, new)
      BY <1>2 DEF Mine, new
    <2>6. QED
      BY <1>1, <1>5, <2>2, <2>3, <2>4, <2>5 DEF GoesOn, Cares
  <1>6. QED
    BY <1>4, <1>5

LEMMA InsertGoes ==
    ASSUME InvIInv, NEW t \in Writers, Insert(t) \/ InsertTwice(t)
    PROVE  \E new : Mine(t, new) /\ GoesOn(t, new) /\ new.pc = "lookup"
  <1> DEFINE p == pass[t]
             new == [p EXCEPT !.pc = "lookup", !.cur = {}, !.mine = p.mine \cup p.cur,
                              !.dirty = TRUE]
  <1>1. p \in Pass /\ PassKept(p) /\ p.pc = "missing" /\ Guarded(t)
    BY DEF InvIInv, InvTypeOK, Insert, InsertTwice, PassAt
  <1>2. /\ p.todo \subseteq Guests /\ p.cur \subseteq Guests /\ p.mine \subseteq Guests
        /\ Known(p.answer) = p.todo \cup p.cur \cup p.mine
    BY <1>1, PassFields DEF PassKept
  <1>3. Mine(t, new)
    <2>1. CASE Insert(t)
      <3>1. pass' = [pass EXCEPT ![t] = [p EXCEPT !.pc = "lookup", !.cur = {},
                                         !.mine = p.mine \cup p.cur, !.dirty = TRUE]]
        BY <1>1, <2>1 DEF Insert, InvIInv, InvTypeOK, Pass
      <3>2. QED
        BY <3>1 DEF Mine
    <2>2. CASE InsertTwice(t)
      <3>1. pass' = [pass EXCEPT ![t] = [p EXCEPT !.pc = "lookup", !.cur = {},
                                         !.mine = p.cur, !.dirty = TRUE]]
        BY <1>1, <2>2 DEF InsertTwice, InvIInv, InvTypeOK, Pass
      <3>2. p.mine = {}
        BY <1>1, <2>2 DEF InsertTwice, Guarded
      <3>3. p.mine \cup p.cur = p.cur
        BY <3>2
      <3>4. QED
        BY <3>1, <3>3 DEF Mine
    <2>3. QED
      BY <2>1, <2>2
  <1>4. /\ new \in Pass /\ new.pc = "lookup" /\ new.op = p.op /\ new.answer = p.answer
        /\ new.todo = p.todo /\ new.cur = {} /\ new.mine = p.cur \cup p.mine
        /\ new.dirty = TRUE
    BY <1>1, <1>2 DEF Pass, PassPC
  <1> HIDE DEF new
  <1>5. PassKept(new)
    BY <1>2, <1>4 DEF PassKept
  <1>6. QED
    BY <1>1, <1>3, <1>4, <1>5 DEF GoesOn, Cares
(* Steps that are about the thread's pass alone.                             *)
OwnStep(t) ==
    \/ PassLocked(t) \/ Stale(t) \/ Orphans(t) \/ QuickAsk(t) \/ QuickEnd(t) \/ NoteLost(t)
    \/ QuickBegin(t) \/ DeployVm(t) \/ StartVm(t) \/ StopVm(t)

LEMMA LockedGoes ==
    ASSUME InvIInv, NEW t \in Writers, PassLocked(t) \/ Stale(t)
    PROVE  \E new : Mine(t, new) /\ GoesOn(t, new) /\ new.pc # "missing"
  <1> DEFINE p == pass[t]
  <1>1. p \in Pass /\ p.pc \in {"lookup", "missing"}
    BY DEF InvIInv, InvTypeOK, PassLocked, Stale, PassAt
  <1>2. CASE Mine(t, After(t))
    <2>1. /\ After(t) \in Pass /\ PassKept(After(t)) /\ After(t).pc # "missing"
          /\ Cares(After(t)) => Cares(p) /\ After(t).answer = p.answer
      BY <1>1, AfterIs DEF InvIInv
    <2>2. QED
      BY <1>2, <2>1 DEF GoesOn
  <1>3. CASE ~Mine(t, After(t))
    <2> DEFINE new == Again(p)
    <2>1. Mine(t, new) /\ p.tries + 1 < MaxTries
      <3>1. PassLocked(t)
        BY <1>3 DEF Stale, Mine
      <3>2. pass' = [pass EXCEPT ![t] = IF p.tries + 1 < MaxTries THEN new ELSE After(t)]
        BY <3>1 DEF PassLocked
      <3>3. QED
        BY <1>3, <3>2 DEF Mine
    <2>2. p.tries + 1 \in 0..MaxTries
      BY <1>1, <2>1, PassFields, InvAssumption
    <2>3. /\ new \in Pass /\ new.pc = "start" /\ new.op = p.op /\ new.answer = p.answer
          /\ new.mine = {} /\ new.cur = {} /\ new.dirty = FALSE
      BY <1>1, <2>2 DEF Pass, PassPC, Again
    <2> HIDE DEF new
    <2>4. PassKept(new)
      BY <2>3 DEF PassKept
    <2>5. QED
      BY <1>1, <2>1, <2>3, <2>4 DEF GoesOn, Cares
  <1>4. QED
    BY <1>2, <1>3

LEMMA IdleGoes ==
    ASSUME NEW t, Mine(t, IdlePass)
    PROVE  \E new : Mine(t, new) /\ GoesOn(t, new) /\ new.pc # "missing"
  BY IdlePassIs DEF GoesOn

(* A status is to be written of a VM with a row.                             *)
LEMMA StatusGoes ==
    ASSUME InvIInv, NEW t \in Writers, StartVm(t) \/ StopVm(t)
    PROVE  \E new : Mine(t, new) /\ GoesOn(t, new) /\ new.pc # "missing"
  <1>1. PICK g \in Guests, s \in {"running", "stopped"} : StatusIs(t, g, s)
    BY DEF StartVm, StopVm, Usable, Known
  <1> DEFINE answer == [Nothing EXCEPT ![g] = s]
             new == [IdlePass EXCEPT !.pc = "note", !.op = "use", !.mine = {g},
                                     !.answer = answer]
  <1>2. answer \in [Guests -> Row] /\ g \in Known(answer)
    BY NothingIs DEF Row, Known
  <1> HIDE DEF answer
  <1>3. /\ new \in Pass /\ new.pc = "note" /\ new.op = "use" /\ new.answer = answer
        /\ new.mine = {g}
    BY <1>2, IdlePassIs DEF Pass, PassPC, AllInvOps
  <1>4. Mine(t, new)
    BY <1>1 DEF StatusIs, Mine, answer
  <1> HIDE DEF new
  <1>5. PassKept(new) /\ ~Cares(new)
    BY <1>2, <1>3 DEF PassKept, Cares
  <1>6. QED
    BY <1>3, <1>4, <1>5 DEF GoesOn

LEMMA DeployGoes ==
    ASSUME InvIInv, NEW t \in Writers, DeployVm(t)
    PROVE  \E new : Mine(t, new) /\ GoesOn(t, new) /\ new.pc # "missing"
  <1>1. PICK g \in Guests : Mine(t, [IdlePass EXCEPT !.pc = "start", !.op = "deploy",
                                        !.answer = [Nothing EXCEPT ![g] = "stopped"]])
    BY DEF DeployVm, Mine
  <1> DEFINE answer == [Nothing EXCEPT ![g] = "stopped"]
             new == [IdlePass EXCEPT !.pc = "start", !.op = "deploy", !.answer = answer]
  <1>2. answer \in [Guests -> Row]
    BY NothingIs DEF Row
  <1> HIDE DEF answer
  <1>3. /\ new \in Pass /\ new.pc = "start" /\ new.op = "deploy"
        /\ new.mine = IdlePass.mine /\ new.cur = IdlePass.cur /\ new.dirty = IdlePass.dirty
    BY <1>2, IdlePassIs DEF Pass, PassPC, AllInvOps
  <1>4. IdlePass.mine = {} /\ IdlePass.cur = {} /\ IdlePass.dirty = FALSE
    BY DEF IdlePass
  <1>5. Mine(t, new)
    BY <1>1 DEF answer
  <1> HIDE DEF new
  <1>6. PassKept(new) /\ ~Cares(new)
    BY <1>3, <1>4 DEF PassKept, Cares
  <1>7. QED
    BY <1>3, <1>5, <1>6 DEF GoesOn

LEMMA QuickGoes ==
    ASSUME InvIInv, NEW t \in Writers, QuickBegin(t) \/ QuickAsk(t) \/ QuickEnd(t)
    PROVE  \E new : Mine(t, new) /\ GoesOn(t, new) /\ new.pc # "missing"
  <1> DEFINE p == pass[t]
  <1>0. /\ p \in Pass /\ PassKept(p) /\ row \in [Guests -> Row] /\ real \in [Guests -> Real]
        /\ p.answer \in [Guests -> Row] /\ p.todo \subseteq Guests /\ p.mine \subseteq Guests
    BY PassFields DEF InvIInv, InvTypeOK
  <1>1. CASE QuickBegin(t)
    <2>0. PICK some \in SUBSET Known(row) :
             Mine(t, [IdlePass EXCEPT !.pc = "ask", !.op = "quick", !.todo = some,
                                      !.answer = row])
      BY <1>1 DEF QuickBegin, Mine
    <2> DEFINE new == [IdlePass EXCEPT !.pc = "ask", !.op = "quick", !.todo = some,
                                       !.answer = row]
    <2>1. some \subseteq Guests
      BY <2>0 DEF Known
    <2>2. /\ new \in Pass /\ new.pc = "ask" /\ new.op = "quick" /\ new.answer = row
          /\ new.todo = some /\ new.mine = IdlePass.mine
      BY <1>0, <2>1, IdlePassIs DEF Pass, PassPC, AllInvOps
    <2>3. IdlePass.mine = {}
      BY DEF IdlePass
    <2>4. Mine(t, new)
      BY <2>0
    <2> HIDE DEF new
    <2>5. PassKept(new) /\ ~Cares(new)
      BY <2>2, <2>3 DEF PassKept, Cares
    <2>6. QED
      BY <2>2, <2>4, <2>5 DEF GoesOn
  <1>2. CASE QuickAsk(t)
    <2>1. p.pc = "ask"
      BY <1>2 DEF QuickAsk, PassAt
    <2>2. PICK g \in p.todo, st \in Real \cup {"absent"} :
            Mine(t, Same(p, g)) \/ (st # "absent" /\ Mine(t, Told(p, g, st)))
      <3>1. \A g \in p.todo : \A k \in QuickAsks[g] : real[k] \in Real
        BY <1>0, InvAssumption
      <3>2. CASE \E g \in p.todo : Mine(t, Same(p, g))
        BY <3>2
      <3>3. CASE \E g \in p.todo : \E k \in QuickAsks[g] :
                    real[k] # "absent" /\ Mine(t, Told(p, g, real[k]))
        BY <3>1, <3>3
      <3>4. QED
        BY <1>2, <3>2, <3>3 DEF QuickAsk, Mine
    <2>3. p.todo \cup p.mine \subseteq Known(p.answer) /\ g \in Guests
      BY <1>0, <2>1, <2>2 DEF PassKept
    <2>4. CASE Mine(t, Same(p, g))
      <3> DEFINE new == Same(p, g)
      <3>1. /\ new \in Pass /\ new.pc = "ask" /\ new.op = p.op /\ new.answer = p.answer
            /\ new.todo = p.todo \ {g} /\ new.mine = p.mine
        BY <1>0, <2>1 DEF Pass, Same
      <3>2. Mine(t, new)
        BY <2>4
      <3> HIDE DEF new
      <3>3. PassKept(new)
        BY <1>0, <2>1, <2>3, <3>1 DEF PassKept
      <3>4. QED
        BY <2>1, <3>1, <3>2, <3>3 DEF GoesOn, Cares
    <2>5. CASE st # "absent" /\ Mine(t, Told(p, g, st))
      <3> DEFINE answer == [p.answer EXCEPT ![g] = st]
                 new == [p EXCEPT !.todo = p.todo \ {g}, !.answer = answer,
                                  !.mine = p.mine \cup {g}]
      <3>1. answer \in [Guests -> Row] /\ Known(answer) = Known(p.answer) \cup {g}
        BY <1>0, <2>3, <2>5 DEF Real, Row, Known
      <3>2. Mine(t, new)
        BY <1>0, <2>5 DEF Told, Pass
      <3> HIDE DEF answer
      <3>3. /\ new \in Pass /\ new.pc = "ask" /\ new.op = p.op /\ new.answer = answer
            /\ new.todo = p.todo \ {g} /\ new.mine = p.mine \cup {g}
        BY <1>0, <2>1, <2>3, <3>1 DEF Pass
      <3> HIDE DEF new
      <3>4. PassKept(new)
        BY <1>0, <2>1, <2>3, <3>1, <3>3 DEF PassKept
      <3>5. p.op # "cleanup"
        BY <1>0, <2>1 DEF PassKept
      <3>6. QED
        BY <2>1, <3>2, <3>3, <3>4, <3>5 DEF GoesOn, Cares
    <2>6. QED
      BY <2>2, <2>4, <2>5
  <1>3. CASE QuickEnd(t)
    <2>1. p.pc = "ask"
      BY <1>3 DEF QuickEnd, PassAt
    <2>2. CASE p.mine = {}
      BY <1>3, <2>2, IdleGoes DEF QuickEnd, Mine
    <2>3. CASE p.mine # {}
      <3> DEFINE new == [p EXCEPT !.pc = "note"]
      <3>1. /\ new \in Pass /\ new.pc = "note" /\ new.op = p.op /\ new.answer = p.answer
            /\ new.mine = p.mine
        BY <1>0 DEF Pass, PassPC
      <3>2. Mine(t, new)
        BY <1>3, <2>3 DEF QuickEnd, Mine, InvIInv, InvTypeOK
      <3> HIDE DEF new
      <3>3. PassKept(new)
        BY <1>0, <2>1, <3>1 DEF PassKept
      <3>4. QED
        BY <2>1, <3>1, <3>2, <3>3 DEF GoesOn, Cares
    <2>4. QED
      BY <2>2, <2>3
  <1>4. QED
    BY <1>1, <1>2, <1>3
(* Proxmox is asked: with everything up, the answer names all it has.        *)
LEMMA AskedGoes ==
    ASSUME InvIInv, NEW t \in Writers, FullBegin(t) \/ CleanupBegin(t)
    PROVE  \E new \in Pass :
              /\ Mine(t, new) /\ PassKept(new) /\ new.pc # "missing"
              /\ misses' = 0 => Sure(new, real)
  <1>1. PICK op \in {"full", "cleanup"}, again \in BOOLEAN : Asked(t, op, again)
    BY DEF FullBegin, CleanupBegin
  <1>2. PICK heard \in SUBSET Guests :
          LET all == {g \in Guests : real[g] # "absent"}
              ans == [g \in Guests |-> IF g \in heard THEN real[g] ELSE "none"]
          IN  /\ heard \subseteq all
              /\ IF heard = all THEN UNCHANGED misses ELSE Missing
              /\ pass' = [pass EXCEPT ![t] = [IdlePass EXCEPT
                     !.pc = "start", !.op = op, !.clean = TRUE, !.again = again,
                     !.answer = ans]]
    BY <1>1 DEF Asked
  <1> DEFINE ans == [g \in Guests |-> IF g \in heard THEN real[g] ELSE "none"]
             new == [IdlePass EXCEPT !.pc = "start", !.op = op, !.clean = TRUE,
                                     !.again = again, !.answer = ans]
  <1>3. ans \in [Guests -> Row]
    BY <1>2 DEF InvIInv, InvTypeOK, Real, Row
  <1>4. misses' = 0 => \A g \in Guests : real[g] # "absent" => ans[g] # "none"
    <2>1. misses' = 0 => heard = {g \in Guests : real[g] # "absent"}
      BY <1>2 DEF Missing, InvIInv, InvTypeOK
    <2>2. real \in [Guests -> Real]
      BY DEF InvIInv, InvTypeOK
    <2>3. QED
      BY <2>1, <2>2 DEF Real
  <1>5. Mine(t, new)
    BY <1>2 DEF Mine
  <1> HIDE DEF ans
  <1>6. /\ new \in Pass /\ new.pc = "start" /\ new.answer = ans
        /\ new.mine = IdlePass.mine /\ new.cur = IdlePass.cur /\ new.dirty = IdlePass.dirty
    BY <1>3, IdlePassIs DEF Pass, PassPC, AllInvOps
  <1>7. IdlePass.mine = {} /\ IdlePass.cur = {} /\ IdlePass.dirty = FALSE
    BY DEF IdlePass
  <1> HIDE DEF new
  <1>8. PassKept(new)
    BY <1>6, <1>7 DEF PassKept
  <1>9. QED
    BY <1>4, <1>5, <1>6, <1>8 DEF Sure

(* What other threads write changes only the times a pass keeps.             *)
Alike(p, q) ==
    /\ q \in Pass
    /\ q.pc = p.pc /\ q.op = p.op /\ q.clean = p.clean /\ q.again = p.again
    /\ q.answer = p.answer /\ q.todo = p.todo /\ q.cur = p.cur /\ q.mine = p.mine
    /\ q.dirty = p.dirty

LEMMA AlikeKeeps ==
    ASSUME NEW p, NEW q, Alike(p, q)
    PROVE  PassKept(p) => PassKept(q)
  BY DEF Alike, PassKept

LEMMA NewerAlike ==
    ASSUME InvTypeOK, NEW u \in Writers, NEW t \in Writers, NEW G \in SUBSET Guests
    PROVE  Alike(pass[u], Newer(u, G)) /\ Alike(pass[u], Stamped(u, t, G))
           /\ Alike(pass[u], pass[u])
  <1>1. pass[u] \in Pass
    BY DEF InvTypeOK
  <1>2. Alike(pass[u], Newer(u, G))
    <2> DEFINE fresh == pass[u].fresh \cup G
    <2>1. fresh \subseteq Guests
      BY <1>1, PassFields
    <2> HIDE DEF fresh
    <2>2. Alike(pass[u], [pass[u] EXCEPT !.fresh = fresh])
      BY <1>1, <2>1 DEF Alike, Pass
    <2>3. QED
      BY <1>1, <2>2 DEF Newer, Alike, fresh
  <1>3. Alike(pass[u], [pass[u] EXCEPT !.fresh = @ \ G])
    <2> DEFINE fresh == pass[u].fresh \ G
    <2>1. fresh \subseteq Guests
      BY <1>1, PassFields
    <2> HIDE DEF fresh
    <2>2. Alike(pass[u], [pass[u] EXCEPT !.fresh = fresh])
      BY <1>1, <2>1 DEF Alike, Pass
    <2>3. QED
      BY <2>2 DEF fresh
  <1>4. Alike(pass[u], Stamped(u, t, G))
    BY <1>2, <1>3 DEF Stamped
  <1>5. Alike(pass[u], pass[u])
    BY <1>1 DEF Alike
  <1>6. QED
    BY <1>2, <1>4, <1>5

(* Every step of a thread: its own pass, and those of the others.            *)
ThreadStep(t) ==
    \/ FullBegin(t) \/ CleanupBegin(t) \/ DeployVm(t) \/ StartVm(t) \/ StopVm(t)
    \/ QuickBegin(t) \/ PassStep(t)

Moved(t) ==
    /\ pass' \in [Writers -> Pass]
    /\ PassKept(pass'[t])
    /\ pass'[t].pc = "missing" =>
          pass'[t].mine = {} \/ (invWriter' = t /\ \A g \in pass'[t].cur : row[g] = "none")
    /\ \/ misses' = 0 => Sure(pass'[t], real)
       \/ Cares(pass'[t]) => Cares(pass[t]) /\ pass'[t].answer = pass[t].answer
    /\ \A u \in Writers : u # t => Alike(pass[u], pass'[u])

LEMMA OwnMoved ==
    ASSUME InvIInv, NEW t \in Writers, NEW new \in Pass, Mine(t, new), PassKept(new),
           new.pc = "missing" =>
              new.mine = {} \/ (invWriter' = t /\ \A g \in new.cur : row[g] = "none"),
           \/ misses' = 0 => Sure(new, real)
           \/ Cares(new) => Cares(pass[t]) /\ new.answer = pass[t].answer
    PROVE  Moved(t)
  <1>1. /\ pass' \in [Writers -> Pass] /\ pass'[t] = new
        /\ \A u \in Writers : u # t => pass'[u] = pass[u]
    BY PassMoves DEF InvIInv
  <1>2. \A u \in Writers : Alike(pass[u], pass[u])
    BY NewerAlike DEF InvIInv
  <1>3. QED
    BY <1>1, <1>2 DEF Moved

LEMMA ThreadMoves ==
    ASSUME InvIInv, NEW t \in Writers, ThreadStep(t)
    PROVE  Moved(t)
  <1> DEFINE p == pass[t]
  <1>0. p \in Pass /\ PassKept(p)
    BY DEF InvIInv, InvTypeOK
  <1>1. CASE FullBegin(t) \/ CleanupBegin(t)
    BY <1>1, AskedGoes, OwnMoved
  <1>2. CASE Lookup(t)
    BY <1>2, LookupGoes, OwnMoved DEF GoesOn
  <1>3. CASE OwnStep(t) \/ Insert(t) \/ InsertTwice(t)
    <2>1. (Orphans(t) \/ NoteLost(t)) => Mine(t, IdlePass)
      BY DEF Orphans, NoteLost, Mine
    <2>2. \E new : Mine(t, new) /\ GoesOn(t, new) /\ new.pc # "missing"
      BY <1>3, <2>1, IdleGoes, LockedGoes, StatusGoes, DeployGoes, QuickGoes, InsertGoes
         DEF OwnStep
    <2>3. QED
      BY <2>2, OwnMoved DEF GoesOn
  <1>4. CASE PassStart(t)
    <2> DEFINE new == [p EXCEPT !.pc = "lookup", !.todo = Known(p.answer)]
               Others(u) == IF Writing(u) THEN [pass[u] EXCEPT !.later = @ \cup {t}]
                            ELSE pass[u]
    <2>1. p.pc = "start" /\ Known(p.answer) \subseteq Guests
      BY <1>4 DEF PassStart, PassAt, Known
    <2>2. /\ new \in Pass /\ new.pc = "lookup" /\ new.op = p.op /\ new.answer = p.answer
          /\ new.todo = Known(p.answer) /\ new.mine = p.mine /\ new.cur = p.cur
          /\ new.dirty = p.dirty
      BY <1>0, <2>1 DEF Pass, PassPC
    <2>3. pass' = [u \in Writers |-> IF u = t THEN new ELSE Others(u)]
      BY <1>4 DEF PassStart
    <2> HIDE DEF new
    <2>4. PassKept(new)
      BY <1>0, <2>1, <2>2 DEF PassKept
    <2>5. Cares(new) => Cares(p) /\ new.answer = p.answer
      BY <2>1, <2>2 DEF Cares
    <2>6. ASSUME NEW u \in Writers PROVE Alike(pass[u], Others(u))
      <3> DEFINE later == pass[u].later \cup {t}
      <3>1. pass[u] \in Pass /\ later \subseteq Writers
        BY PassFields DEF InvIInv, InvTypeOK
      <3> HIDE DEF later
      <3>2. Alike(pass[u], [pass[u] EXCEPT !.later = later])
        BY <3>1 DEF Alike, Pass
      <3>3. Alike(pass[u], pass[u])
        BY <3>1 DEF Alike
      <3>4. QED
        BY <3>2, <3>3 DEF later
    <2>7. \A u \in Writers : Others(u) \in Pass
      BY <2>6 DEF Alike
    <2> HIDE DEF Others
    <2>8. QED
      BY <2>2, <2>3, <2>4, <2>5, <2>6, <2>7 DEF Moved
  <1>5. CASE PassFinish(t)
    <2>1. p.pc = "lookup" /\ p.mine \subseteq Guests
      BY <1>0, <1>5, PassFields DEF PassFinish, PassAt
    <2>2. /\ After(t) \in Pass /\ PassKept(After(t)) /\ After(t).pc # "missing"
          /\ Cares(After(t)) => Cares(p) /\ After(t).answer = p.answer
      BY <2>1, AfterIs DEF InvIInv
    <2>3. pass' = [u \in Writers |-> IF u = t THEN After(t) ELSE Stamped(u, t, p.mine)]
      BY <1>5 DEF PassFinish
    <2>4. \A u \in Writers : Alike(pass[u], Stamped(u, t, p.mine))
      BY <2>1, NewerAlike DEF InvIInv
    <2>5. \A u \in Writers : Stamped(u, t, p.mine) \in Pass
      BY <2>4 DEF Alike
    <2>6. QED
      BY <2>2, <2>3, <2>4, <2>5 DEF Moved
  <1>6. CASE Note(t)
    <2> DEFINE G == IF \A g \in p.mine : row[g] # "none" THEN p.mine ELSE {}
    <2>1. G \subseteq Guests
      BY <1>0, PassFields
    <2>2. pass' = [u \in Writers |-> IF u = t THEN IdlePass ELSE Newer(u, G)]
      BY <1>6 DEF Note
    <2> HIDE DEF G
    <2>3. \A u \in Writers : Alike(pass[u], Newer(u, G))
      BY <2>1, NewerAlike DEF InvIInv
    <2>4. \A u \in Writers : Newer(u, G) \in Pass
      BY <2>3 DEF Alike
    <2>5. QED
      BY <2>2, <2>3, <2>4, IdlePassIs DEF Moved
  <1>7. QED
    BY <1>1, <1>2, <1>3, <1>4, <1>5, <1>6 DEF ThreadStep, PassStep, OwnStep
LEMMA InvPlainTypes ==
    ASSUME InvIInv, InvNext
    PROVE  /\ real' \in [Guests -> Real] /\ row' \in [Guests -> Row] /\ owned' \subseteq Guests
           /\ invWriter' \in Writers \cup {NoOne}
           /\ changes' \in 0..MaxChanges /\ misses' \in 0..MaxMisses
           /\ changes' >= changes /\ misses' >= misses
           /\ changes' = changes => real' = real
  <1>1. /\ real \in [Guests -> Real] /\ row \in [Guests -> Row] /\ owned \subseteq Guests
        /\ invWriter \in Writers \cup {NoOne}
        /\ changes \in 0..MaxChanges /\ misses \in 0..MaxMisses
    BY DEF InvIInv, InvTypeOK
  <1>2. misses' = misses \/ Missing
    BY DEF InvNext, Change, FullBegin, CleanupBegin, Asked, DeployVm, StartVm, StopVm, StatusIs,
           QuickBegin, PassStep, PassStart, Lookup, Insert, InsertTwice, PassLocked, PassFinish,
           Stale, Orphans, QuickAsk, QuickEnd, Note, NoteLost
  <1>3. UNCHANGED <<changes, real>> \/ (changes < MaxChanges /\ changes' = changes + 1)
    <2>1. ASSUME NEW t \in Writers, StartVm(t) \/ StopVm(t)
          PROVE  changes < MaxChanges /\ changes' = changes + 1
      BY <2>1 DEF StartVm, StopVm, StatusIs, Usable
    <2>2. ASSUME NEW t \in Writers, DeployVm(t)
          PROVE  changes < MaxChanges /\ changes' = changes + 1
      BY <2>2 DEF DeployVm
    <2>3. QED
      BY <2>1, <2>2
         DEF InvNext, Change, FullBegin, CleanupBegin, QuickBegin, PassStep, PassStart, Lookup,
             Insert, InsertTwice, PassLocked, PassFinish, Stale, Orphans, QuickAsk, QuickEnd,
             Note, NoteLost
  <1>4. misses' \in 0..MaxMisses /\ misses' >= misses
    BY <1>1, <1>2, InvAssumption DEF Missing
  <1>5. /\ changes' \in 0..MaxChanges /\ changes' >= changes
        /\ changes' = changes => real' = real
    BY <1>1, <1>3, InvAssumption
  <1>6. real' \in [Guests -> Real]
    BY <1>1 DEF InvNext, Change, FullBegin, CleanupBegin, Asked, DeployVm, StartVm, StopVm,
           QuickBegin, PassStep, PassStart, Lookup, Insert, InsertTwice, PassLocked, PassFinish,
           Stale, Orphans, QuickAsk, QuickEnd, Note, NoteLost, Real
  <1>7. row' \in [Guests -> Row]
    <2>1. ASSUME NEW t \in Writers, PassFinish(t) \/ Note(t) PROVE row' \in [Guests -> Row]
      <3>1. pass[t].answer \in [Guests -> Row]
        BY PassFields DEF InvIInv, InvTypeOK
      <3>2. QED
        BY <1>1, <2>1, <3>1 DEF PassFinish, Note, Row
    <2>2. QED
      BY <1>1, <2>1
         DEF InvNext, Change, FullBegin, CleanupBegin, DeployVm, StartVm, StopVm, StatusIs,
             QuickBegin, PassStep, PassStart, Lookup, Insert, InsertTwice, PassLocked, Stale,
             Orphans, QuickAsk, QuickEnd, NoteLost
  <1>8. owned' \subseteq Guests
    <2>1. ASSUME NEW t \in Writers, Orphans(t) PROVE owned' \subseteq owned
      BY <2>1 DEF Orphans
    <2>2. ASSUME NEW t \in Writers, DeployVm(t) PROVE owned' \subseteq Guests
      BY <1>1, <2>2 DEF DeployVm
    <2>3. QED
      BY <1>1, <2>1, <2>2
         DEF InvNext, Change, FullBegin, CleanupBegin, StartVm, StopVm, StatusIs, QuickBegin,
             PassStep, PassStart, Lookup, Insert, InsertTwice, PassLocked, PassFinish, Stale,
             QuickAsk, QuickEnd, Note, NoteLost
  <1>9. invWriter' \in Writers \cup {NoOne}
    BY <1>1 DEF InvNext, Change, FullBegin, CleanupBegin, DeployVm, StartVm, StopVm, StatusIs,
           QuickBegin, PassStep, PassStart, Lookup, Insert, InsertTwice, PassLocked, PassFinish,
           Stale, Orphans, QuickAsk, QuickEnd, Note, NoteLost
  <1>10. QED
    BY <1>4, <1>5, <1>6, <1>7, <1>8, <1>9

(* A step of t takes the write lock from nobody, and writes no row while
   another thread holds it.                                                  *)
LEMMA LockHolds ==
    ASSUME InvIInv, NEW t \in Writers, ThreadStep(t), NEW u \in Writers, u # t, invWriter = u
    PROVE  invWriter' = u /\ row' = row
  <1>1. ~Free(t)
    BY InvAssumption DEF Free
  <1>2. QED
    BY <1>1 DEF ThreadStep, FullBegin, CleanupBegin, DeployVm, StartVm, StopVm, StatusIs,
           QuickBegin, PassStep, PassStart, Lookup, Insert, InsertTwice, PassLocked, PassFinish,
           Stale, Orphans, QuickAsk, QuickEnd, Note, NoteLost

LEMMA LookupKeepsRows ==
    ASSUME NEW t \in Writers, ThreadStep(t), InvIInv, pass'[t].pc = "missing"
    PROVE  row' = row
  <1>1. CASE PassFinish(t)
    <2>1. After(t).pc # "missing" /\ pass'[t] = After(t)
      BY <1>1, AfterIs DEF PassFinish, PassAt, InvIInv
    <2>2. QED
      BY <2>1
  <1>2. CASE Note(t)
    <2>1. pass'[t] = IdlePass
      BY <1>2 DEF Note
    <2>2. QED
      BY <2>1, IdlePassIs
  <1>3. QED
    BY <1>1, <1>2
       DEF ThreadStep, FullBegin, CleanupBegin, DeployVm, StartVm, StopVm, StatusIs, QuickBegin,
           PassStep, PassStart, Lookup, Insert, InsertTwice, PassLocked, Stale, Orphans, QuickAsk,
           QuickEnd, NoteLost

LEMMA InvSteps == ASSUME InvIInv, [InvNext]_invVars PROVE InvIInv'
  <1>0. misses \in Nat /\ changes \in Nat
    BY DEF InvIInv, InvTypeOK
  <1>1. CASE UNCHANGED invVars
    BY <1>1 DEF invVars, InvIInv, InvTypeOK, Guarded, AllSure
  <1>2. CASE Change
    <2>1. InvTypeOK'
      BY <1>2, InvPlainTypes DEF InvNext, Change, InvIInv, InvTypeOK
    <2>2. \A t \in Writers : PassKept(pass[t])' /\ Guarded(t)'
      BY <1>2 DEF Change, InvIInv, Guarded, PassKept
    <2>3. changes' # 0
      BY <1>0, <1>2 DEF Change
    <2>4. QED
      BY <2>1, <2>2, <2>3 DEF InvIInv, AllSure
  <1>3. ASSUME NEW t \in Writers, ThreadStep(t) PROVE InvIInv'
    <2>1. Moved(t) /\ InvNext
      BY <1>3, ThreadMoves DEF InvNext, ThreadStep
    <2>2. InvTypeOK'
      BY <2>1, InvPlainTypes DEF Moved, InvTypeOK
    <2>3. ASSUME NEW u \in Writers PROVE PassKept(pass'[u]) /\ Guarded(u)'
      <3>1. CASE u = t
        <4>1. pass'[t].pc = "missing" => row' = row
          BY <1>3, LookupKeepsRows
        <4>2. QED
          BY <2>1, <3>1, <4>1 DEF Moved, Guarded
      <3>2. CASE u # t
        <4>1. Alike(pass[u], pass'[u]) /\ PassKept(pass[u]) /\ Guarded(u)
          BY <2>1, <3>2 DEF Moved, InvIInv
        <4>2. invWriter = u => invWriter' = u /\ row' = row
          BY <1>3, <3>2, LockHolds
        <4>3. PassKept(pass'[u])
          BY <4>1, AlikeKeeps
        <4>4. QED
          BY <4>1, <4>2, <4>3 DEF Alike, Guarded
      <3>3. QED
        BY <3>1, <3>2
    <2>4. AllSure'
      <3>1. SUFFICES ASSUME misses' = 0, changes' = 0, NEW u \in Writers
                     PROVE  Sure(pass'[u], real')
        BY DEF AllSure
      <3>2. misses = 0 /\ changes = 0 /\ real' = real
        BY <1>0, <2>1, <3>1, InvPlainTypes
      <3>3. \A v \in Writers : Sure(pass[v], real)
        BY <3>2 DEF InvIInv, AllSure
      <3>4. CASE u = t
        BY <2>1, <3>1, <3>2, <3>3, <3>4 DEF Moved, Sure
      <3>5. CASE u # t
        BY <2>1, <3>2, <3>3, <3>5 DEF Moved, Alike, Sure, Cares
      <3>6. QED
        BY <3>4, <3>5
    <2>5. QED
      BY <2>2, <2>3, <2>4 DEF InvIInv
  <1>4. QED
    BY <1>1, <1>2, <1>3 DEF InvNext, ThreadStep

LEMMA InvAlways == InvSpec => []InvIInv
  <1>1. ASSUME InvInit PROVE InvIInv
    <2>1. 0 \in 0..MaxChanges /\ 0 \in 0..MaxMisses
      BY InvAssumption
    <2>2. InvTypeOK
      BY <1>1, <2>1, IdlePassIs DEF InvInit, InvTypeOK, Real, Row
    <2>3. \A t \in Writers : pass[t] = IdlePass
      BY <1>1 DEF InvInit
    <2>4. QED
      BY <2>2, <2>3, IdlePassIs DEF InvIInv, Guarded, AllSure, Sure
  <1>2. InvIInv /\ [InvNext]_invVars => InvIInv'
    BY InvSteps
  <1>3. QED
    BY <1>1, <1>2, PTL DEF InvSpec

-----------------------------------------------------------------------------
(* The tables may hold what their types say, whatever runs of either do
   (inventory_service.py; background_sync.py).                               *)
THEOREM TablesTyped == InvSpec /\ CatSpec => []TablesTypeOK
  <1>1. InvIInv /\ CatIInv => TablesTypeOK
    BY DEF InvIInv, CatIInv, TablesTypeOK
  <1>2. QED
    BY <1>1, InvAlways, CatTypeAlways, PTL

(* However many VMs, clusters, syncers and clerks: a pass deletes no row of a
   VM its own answer names (inventory_service.py, persist_vm_inventory), and the
   clean-up takes no assignment of a VM that is there unless a node did not answer
   or Proxmox changed (sync.py, cleanup_orphaned_records).                   *)
THEOREM NamedRowsStay == InvSpec => RowsGo
  <1>1. ASSUME InvIInv, [InvNext]_invVars
        PROVE  [\A g \in Guests :
                  row[g] # "none" /\ row'[g] = "none" =>
                     \E t \in Writers :
                        /\ pass[t].pc = "lookup" /\ pass[t].clean
                        /\ pass[t].answer[g] = "none"
                        /\ HostOf[g] \in Seen(t)
                        /\ pass'[t] # pass[t]]_invVars
    <2>1. SUFFICES ASSUME InvNext, NEW g \in Guests, row[g] # "none", row'[g] = "none"
                   PROVE  \E t \in Writers :
                             /\ pass[t].pc = "lookup" /\ pass[t].clean
                             /\ pass[t].answer[g] = "none"
                             /\ HostOf[g] \in Seen(t)
                             /\ pass'[t] # pass[t]
      BY <1>1
    <2>2. PICK t \in Writers : PassFinish(t) \/ Note(t)
      BY <2>1 DEF InvNext, Change, FullBegin, CleanupBegin, DeployVm, StartVm, StopVm, StatusIs,
             QuickBegin, PassStep, PassStart, Lookup, Insert, InsertTwice, PassLocked, Stale,
             Orphans, QuickAsk, QuickEnd, NoteLost
    <2>3. PassKept(pass[t])
      BY <1>1 DEF InvIInv
    <2>4. CASE Note(t)
      <3>1. pass[t].mine \subseteq Known(pass[t].answer)
        BY <2>3, <2>4 DEF Note, PassAt, PassKept
      <3>2. QED
        BY <2>1, <2>4, <3>1 DEF Note, Known
    <2>5. CASE PassFinish(t)
      <3>1. /\ pass[t].pc = "lookup"
            /\ Known(pass[t].answer) = pass[t].mine
        BY <2>3, <2>5 DEF PassFinish, PassAt, PassKept
      <3>2. pass[t].clean /\ g \in Gone(t)
        BY <2>1, <2>5, <3>1 DEF PassFinish, Known
      <3>3. HostOf[g] \in Seen(t) /\ pass[t].answer[g] = "none"
        BY <3>1, <3>2 DEF Gone, Known
      <3>4. pass'[t].pc # "lookup"
        BY <1>1, <2>5, <3>1, AfterIs DEF PassFinish, InvIInv
      <3>5. QED
        BY <3>1, <3>2, <3>3, <3>4
    <2>6. QED
      BY <2>2, <2>4, <2>5
  <1>2. ASSUME InvIInv, [InvNext]_invVars
        PROVE  [\A g \in owned \ owned' :
                  \/ real[g] = "absent"
                  \/ HostOf[g] # LooksIn[g]
                  \/ misses > 0
                  \/ changes > 0]_invVars
    <2>1. SUFFICES ASSUME InvNext, NEW g \in owned \ owned', real[g] # "absent",
                          HostOf[g] = LooksIn[g], ~(misses > 0), ~(changes > 0)
                   PROVE  FALSE
      BY <1>2
    <2>2. misses = 0 /\ changes = 0 /\ g \in Guests
      BY <1>2, <2>1 DEF InvIInv, InvTypeOK
    <2>3. PICK t \in Writers : Orphans(t)
      BY <2>1 DEF InvNext, Change, FullBegin, CleanupBegin, DeployVm, StartVm, StopVm, StatusIs,
             QuickBegin, PassStep, PassStart, Lookup, Insert, InsertTwice, PassLocked, PassFinish,
             Stale, QuickAsk, QuickEnd, Note, NoteLost
    <2>4. Sure(pass[t], real) /\ Cares(pass[t])
      BY <1>2, <2>2, <2>3 DEF InvIInv, AllSure, Orphans, PassAt, Cares
    <2>5. g \in Known(pass[t].answer)
      BY <2>1, <2>2, <2>4 DEF Sure, Known
    <2>6. QED
      BY <2>1, <2>3, <2>5 DEF Orphans
  <1>3. QED
    BY <1>1, <1>2, InvAlways, PTL DEF InvSpec, RowsGo, PassKeepsNamed, OrphansAreGone

=============================================================================
