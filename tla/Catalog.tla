------------------------------- MODULE Catalog -------------------------------
(***************************************************************************)
(* The catalogue: the tables templates and iso_images, which the sync       *)
(* daemon, the routes that trigger a sync and those who make a template or  *)
(* upload an ISO keep in step with what the nodes have, and the classes'    *)
(* choice of a template.                                                    *)
(*                                                                          *)
(* A pass asks node after node, with autoflush off: what it adds, updates   *)
(* and removes waits in its session for one commit at the end.              *)
(*                                                                          *)
(* Templates registered as a class's own (is_class_template), whose rows a  *)
(* full pass never removes, are left out: only a request to the route       *)
(* /api/classes/templates that says so makes one, and no page sends it.     *)
(***************************************************************************)
EXTENDS Naturals, FiniteSets

CONSTANTS
    Nodes, NoNode,
    Tpls,          \* templates; (cluster, node, vmid) is unique in the table
    Isos,          \* ISO files of the nodes
    Site,          \* [Tpls \cup Isos -> Nodes]
    Volid,         \* [Isos -> Volids]: a node's name is no part of it
    Volids,        \* unique in the table
    Labs,          \* classes
    NoTpl,
    Workers,       \* threads that run passes
    SyncDaemon,    \* one of them
    CatOps,        \* bound: what they run
    MaxEvents,     \* bound: changes on the nodes and choices of classes
    MaxSilences    \* bound: nodes that do not answer, commits that find a lock

AllCatOps == {"tpl_full", "tpl_quick", "tpl_route", "iso_full", "iso_quick"}
TplOps    == {"tpl_full", "tpl_quick", "tpl_route"}

ASSUME CatAssumption ==
    /\ Site \in [Tpls \cup Isos -> Nodes]
    /\ Volid \in [Isos -> Volids]
    /\ Tpls \cap (Isos \cup Volids) = {}
    /\ NoNode \notin Nodes /\ NoTpl \notin Tpls \cup Isos
    /\ SyncDaemon \in Workers
    /\ CatOps \subseteq AllCatOps
    /\ MaxEvents \in Nat /\ MaxSilences \in Nat

VARIABLES
    there,     \* what the nodes have
    tpl,       \* templates that have a row
    iso,       \* the node in the row of an ISO, NoNode when there is no row
    choice,    \* classes.template_id
    sweep,     \* the passes
    events, silences

catVars == <<there, tpl, iso, choice, sweep, events, silences>>

Sweep == [pc: {"idle", "scan", "remove", "commit"},
          op: AllCatOps,
          todo: SUBSET (Nodes \cup Volids),
          found: SUBSET (Tpls \cup Volids),
          add: SUBSET (Tpls \cup Volids),
          twice: BOOLEAN,                       \* one of them is added twice
          upd: SUBSET (Tpls \cup Volids),
          gone: SUBSET (Tpls \cup Volids),
          at: [Volids -> Nodes \cup {NoNode}]]
IdleSweep == [pc |-> "idle", op |-> "tpl_full", todo |-> {}, found |-> {}, add |-> {},
              twice |-> FALSE, upd |-> {}, gone |-> {}, at |-> [v \in Volids |-> NoNode]]

CatTypeOK ==
    /\ there \subseteq Tpls \cup Isos
    /\ tpl \subseteq Tpls
    /\ iso \in [Volids -> Nodes \cup {NoNode}]
    /\ choice \in [Labs -> Tpls \cup {NoTpl}]
    /\ sweep \in [Workers -> Sweep]
    /\ events \in 0..MaxEvents /\ silences \in 0..MaxSilences

CatInit ==
    /\ there \in SUBSET (Tpls \cup Isos)
    /\ tpl = there \cap Tpls
    /\ iso = [v \in Volids |-> NoNode]
    /\ choice \in [Labs -> tpl \cup {NoTpl}]
    /\ sweep = [w \in Workers |-> IdleSweep]
    /\ events = 0 /\ silences = 0

-----------------------------------------------------------------------------
Silence == silences < MaxSilences /\ silences' = silences + 1
Event   == events < MaxEvents /\ events' = events + 1
Listed  == tpl \cup {v \in Volids : iso[v] # NoNode}
Of(op)  == IF op \in TplOps THEN Tpls ELSE Volids

(* What node n has: templates, or ISOs by their volid. *)
Held(n, op) ==
    IF op \in TplOps THEN {k \in there \cap Tpls : Site[k] = n}
    ELSE {Volid[f] : f \in {f \in there \cap Isos : Site[f] = n}}

-----------------------------------------------------------------------------
(* The nodes, the users and the classes.                                     *)

Appear ==
    /\ Event
    /\ \E k \in (Tpls \cup Isos) \ there : there' = there \cup {k}
    /\ UNCHANGED <<tpl, iso, choice, sweep, silences>>

Vanish ==
    /\ Event
    /\ \E k \in there : there' = there \ {k}
    /\ UNCHANGED <<tpl, iso, choice, sweep, silences>>

(* A template is made and registered, or found registered already. *)
create_template ==
    /\ Event
    /\ \E k \in Tpls \ there : there' = there \cup {k} /\ tpl' = tpl \cup {k}
    /\ UNCHANGED <<iso, choice, sweep, silences>>

(* An uploaded file replaces one of its name on the node; its row moves to   *)
(* this node, if it can be written.                                          *)
api_upload_iso ==
    /\ Event
    /\ \E f \in Isos :
          /\ there' = there \cup {f}
          /\ \/ iso' = [iso EXCEPT ![Volid[f]] = Site[f]] /\ UNCHANGED silences
             \/ Silence /\ UNCHANGED iso
    /\ UNCHANGED <<tpl, choice, sweep>>

Choose ==
    /\ Event
    /\ \E c \in Labs, k \in tpl : choice' = [choice EXCEPT ![c] = k]
    /\ UNCHANGED <<there, tpl, iso, sweep, silences>>

-----------------------------------------------------------------------------
(* A pass of thread w.                                                       *)

Sweep0(op) ==
    [IdleSweep EXCEPT !.pc = "scan", !.op = op, !.at = iso,
                      !.todo = IF op = "iso_quick" THEN Listed \cap Volids ELSE Nodes]

Set(w, s) == sweep' = [sweep EXCEPT ![w] = s]

SweepBegin(w, op) ==
    /\ sweep[w].pc = "idle" /\ op \in CatOps
    /\ Set(w, Sweep0(op))
    /\ UNCHANGED <<there, tpl, iso, choice, events, silences>>

(* Variant: only what has no row counts as found. *)
HeardNewOnly(s, n) ==
    LET held == Held(n, s.op)
        new  == held \ Listed
    IN  [s EXCEPT !.todo = @ \ {n}, !.found = @ \cup new,
                  !.add = @ \cup new, !.twice = @ \/ new \cap s.add # {},
                  !.upd = @ \cup (held \cap Listed),
                  !.at = [v \in Volids |-> IF v \in held THEN n ELSE s.at[v]]]

(* Node n answers: what has no committed row is added, what has one is       *)
(* updated.  What the pass itself has added is not seen, so an ISO that two  *)
(* nodes have and that has no row is added twice.                            *)
Heard(s, n) ==
    LET held == Held(n, s.op)
        new  == held \ Listed
    IN  [s EXCEPT !.todo = @ \ {n}, !.found = @ \cup held,
                  !.add = @ \cup new, !.twice = @ \/ new \cap s.add # {},
                  !.upd = @ \cup (held \cap Listed),
                  !.at = [v \in Volids |-> IF v \in held THEN n ELSE s.at[v]]]

SweepNode(w) ==
    /\ sweep[w].pc = "scan" /\ sweep[w].op \in {"tpl_full", "tpl_quick", "iso_full"}
    /\ \E n \in sweep[w].todo :
          \/ Set(w, Heard(sweep[w], n)) /\ UNCHANGED silences
          \/ Silence /\ Set(w, [sweep[w] EXCEPT !.todo = @ \ {n}])
    /\ UNCHANGED <<there, tpl, iso, choice, events>>

(* The route of the templates page asks the cluster for all nodes at once,   *)
(* and removes nothing.                                                      *)
SweepCluster(w) ==
    LET s    == sweep[w]
        held == there \cap Tpls
    IN  /\ s.pc = "scan" /\ s.op = "tpl_route" /\ s.todo # {}
        /\ \/ /\ Set(w, [s EXCEPT !.todo = {}, !.add = held \ tpl, !.upd = held \cap tpl])
              /\ UNCHANGED silences
           \/ Silence /\ Set(w, IdleSweep)
        /\ UNCHANGED <<there, tpl, iso, choice, events>>

(* The quick verification asks the node of each ISO's row. *)
SweepIso(w) ==
    /\ sweep[w].pc = "scan" /\ sweep[w].op = "iso_quick"
    /\ \E v \in sweep[w].todo :
          \/ /\ v \in Held(sweep[w].at[v], "iso_quick")
             /\ Set(w, [sweep[w] EXCEPT !.todo = @ \ {v}, !.upd = @ \cup {v}])
             /\ UNCHANGED silences
          \/ /\ v \notin Held(sweep[w].at[v], "iso_quick")
             /\ Set(w, [sweep[w] EXCEPT !.todo = @ \ {v}, !.gone = @ \cup {v}])
             /\ UNCHANGED silences
          \/ Silence /\ Set(w, [sweep[w] EXCEPT !.todo = @ \ {v}])
    /\ UNCHANGED <<there, tpl, iso, choice, events>>

SweepScanned(w) ==
    /\ sweep[w].pc = "scan" /\ sweep[w].todo = {}
    /\ Set(w, [sweep[w] EXCEPT !.pc = IF sweep[w].op \in {"tpl_full", "iso_full"}
                                      THEN "remove" ELSE "commit"])
    /\ UNCHANGED <<there, tpl, iso, choice, events, silences>>

(* A full pass removes every row it has not found, whether its node has      *)
(* answered or not.                                                          *)
SweepRemove(w) ==
    /\ sweep[w].pc = "remove"
    /\ Set(w, [sweep[w] EXCEPT !.pc = "commit",
                  !.gone = (Listed \cap Of(sweep[w].op)) \ sweep[w].found])
    /\ UNCHANGED <<there, tpl, iso, choice, events, silences>>

(* The commit is refused when a row is added twice or was added by another   *)
(* thread meanwhile, or a row to be updated is gone.                         *)
Refused(s) == s.twice \/ s.add \cap Listed # {} \/ ~(s.upd \subseteq Listed)

(* The classes of a removed template are left without one. *)
SweepCommit(w) ==
    LET s == sweep[w] IN
    /\ s.pc = "commit"
    /\ ~Refused(s)
    /\ tpl' = (tpl \cup (s.add \cap Tpls)) \ s.gone
    /\ iso' = [v \in Volids |-> IF v \in s.gone THEN NoNode
                                ELSE IF v \in s.add \cup s.upd THEN s.at[v] ELSE iso[v]]
    /\ choice' = [c \in Labs |-> IF choice[c] \in s.gone THEN NoTpl ELSE choice[c]]
    /\ Set(w, IdleSweep)
    /\ UNCHANGED <<there, events, silences>>

(* A refused commit is an error and all of the pass is lost.  So it is when  *)
(* the database was locked: the rollback empties the session, the retry      *)
(* commits nothing, and the pass counts as complete.                         *)
SweepLost(w) ==
    /\ sweep[w].pc = "commit"
    /\ (Refused(sweep[w]) /\ UNCHANGED silences) \/ Silence
    /\ Set(w, IdleSweep)
    /\ UNCHANGED <<there, tpl, iso, choice, events>>

-----------------------------------------------------------------------------
SweepStep(w) ==
    \/ SweepNode(w) \/ SweepCluster(w) \/ SweepIso(w) \/ SweepScanned(w)
    \/ SweepRemove(w) \/ SweepCommit(w) \/ SweepLost(w)

CatNext ==
    \/ Appear \/ Vanish \/ create_template \/ api_upload_iso \/ Choose
    \/ \E w \in Workers :
          SweepStep(w) \/ \E op \in CatOps : SweepBegin(w, op)

CatSpec == CatInit /\ [][CatNext]_catVars

(* No pass stops half-way, and the sync daemon runs each kind again and again. *)
CatFair ==
    /\ \A w \in Workers : WF_catVars(SweepStep(w))
    /\ \A op \in CatOps : SF_catVars(SweepBegin(SyncDaemon, op))

-----------------------------------------------------------------------------
(* Properties.                                                               *)

(* Once the nodes are quiet and answer, the table of templates comes to show *)
(* them and stays so, whatever passes with older answers have yet to commit  *)
(* (background_sync.py, sync_templates_from_proxmox).                        *)
TemplatesShow == tpl = there \cap Tpls
TemplatesSettle == <>[]TemplatesShow

(* So does the table of ISOs, unless an ISO without a row is on two nodes:   *)
(* every full pass then adds it twice, is refused and lost with all it had   *)
(* found, and no ISO of any node is listed again                             *)
(* (background_sync.py, sync_isos_from_proxmox).                             *)
HoldersOf(v) == {n \in Nodes : v \in Held(n, "iso_full")}
Blocked == \E v \in Volids : iso[v] = NoNode /\ Cardinality(HoldersOf(v)) > 1
IsosShow == Blocked \/ \A v \in Volids : iso[v] = NoNode <=> HoldersOf(v) = {}
IsosSettle == <>[]IsosShow

(* A class loses a template that exists only when a node did not answer, or  *)
(* the template had been away meanwhile, which takes two events              *)
(* (background_sync.py, sync_templates_from_proxmox).                        *)
KeptWhenHeard ==
    [][\A c \in Labs :
          choice[c] \in there /\ choice'[c] = NoTpl => silences > 0 \/ events > 1]_catVars
=============================================================================
