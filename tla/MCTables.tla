------------------------------ MODULE MCTables -------------------------------
(* The tables that must agree with Proxmox, one at a time: "part" names the   *)
(* table whose writers run, the rest stays as it begins.  Three copy what     *)
(* Proxmox shows (templates and ISOs are two parts of Catalog), the fourth    *)
(* is the classes' VMID prefixes.                                             *)
EXTENDS Tables, VmidPrefix

VARIABLE part

all == <<part, invVars, catVars, vars>>

OneCluster == [g \in Guests |-> "A"]
Itself     == [g \in Guests |-> {g}]

SiteOf  == [t1 |-> "n1", t2 |-> "n2", f1 |-> "n1", f2 |-> "n2"]
SameVol == [f1 |-> "v", f2 |-> "v"]
OneByOne == {"create", "deploy", "delete"}
TplPart == {"tpl_full", "tpl_quick", "tpl_route"}
IsoPart == {"iso_full", "iso_quick"}

MCInit ==
    /\ part \in {"vms", "templates", "isos", "prefix"}
    /\ InvInit /\ (part # "vms" => \A g \in Guests : real[g] = "absent")
    /\ CatInit /\ Init
    /\ part # "templates" => there \cap Tpls = {}
    /\ part # "isos" => there \cap Isos = {}

Only(p) ==
    /\ part = p /\ part' = part
    /\ p # "vms" => UNCHANGED invVars
    /\ p \notin {"templates", "isos"} => UNCHANGED catVars
    /\ p # "prefix" => UNCHANGED vars

(* The passes and items of one part of the catalogue. *)
Within(ops, others) ==
    /\ there' \cap others = {}
    /\ \A w \in Workers : sweep'[w] = IdleSweep \/ sweep'[w].op \in ops
TplStep(A) == Only("templates") /\ A /\ Within(TplPart, Isos)
IsoStep(A) == Only("isos") /\ A /\ Within(IsoPart, Tpls)

(* A bound of the run: a creation waits for an id there is not. *)
IdsUsedUp == MaxClass \in stored

MCNext ==
    \/ Only("vms") /\ InvNext
    \/ TplStep(CatNext)
    \/ IsoStep(CatNext)
    \/ Only("prefix") /\ Next
    \/ Only("prefix") /\ IdsUsedUp /\ UNCHANGED all

(* InvFair and CatFair, each for its own part. *)
MCFair ==
    /\ \A t \in Writers : WF_all(Only("vms") /\ PassStep(t))
    /\ \A t \in Syncers : SF_all(Only("vms") /\ FullBegin(t))
    /\ \A w \in Workers : WF_all(TplStep(SweepStep(w))) /\ WF_all(IsoStep(SweepStep(w)))
    /\ SF_all(TplStep(SweepBegin(SyncDaemon, "tpl_full")))
    /\ SF_all(IsoStep(SweepBegin(SyncDaemon, "iso_full")))

MCSpec == MCInit /\ [][MCNext]_all /\ MCFair

(* Settles, TemplatesSettle and IsosSettle as one formula: once Proxmox is    *)
(* quiet and answers, the tables come to show it and stay so                  *)
(* (inventory_service.py, persist_vm_inventory; background_sync.py).          *)
TablesSettle == <>[](InventoryShows /\ TemplatesShow /\ IsosShow)
=============================================================================
