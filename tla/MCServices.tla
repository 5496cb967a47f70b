----------------------------- MODULE MCServices ------------------------------
(* The background services and the deployments that run as threads of their   *)
(* own, one at a time: "part" names the module whose steps are taken, the     *)
(* variables of the others stay as they begin.                                *)
EXTENDS Daemons, AutoShutdown, LinkedClones, StudentLoop

VARIABLE part

all == <<part, daemonVars, autoVars, cloneVars, vars>>

Limits   == [background_sync |-> 2, auto_shutdown |-> 2, ip_scanner |-> 2]
Silences == [background_sync |-> 2, auto_shutdown |-> 1, ip_scanner |-> 2]

(* Hours that do not wrap past midnight, hours that do, hours up to midnight  *)
(* and none.                                                                  *)
FourSettings == {[restrict |-> TRUE, start |-> 1, end |-> 3, auto |-> FALSE],
                 [restrict |-> TRUE, start |-> 3, end |-> 1, auto |-> TRUE],
                 [restrict |-> TRUE, start |-> 2, end |-> 0, auto |-> FALSE],
                 [restrict |-> FALSE, start |-> 2, end |-> 2, auto |-> TRUE]}

(* One class has a prefix, the other takes VMIDs from FirstVmid on. *)
OnePrefix == [c1 |-> 1, c2 |-> 0]

CommandsAndProbe == {"command", "probe"}

Parts == {"daemon", "auto", "clones", "loop"}

MCInit ==
    /\ part \in Parts
    /\ DaemonInit /\ (part # "daemon" => daemon = "background_sync")
    /\ AutoInit /\ (part # "auto" => hour = 0 /\ ~setting.restrict)
    /\ CloneInit
    /\ Init

Only(p) ==
    /\ part = p /\ part' = part
    /\ p # "daemon" => UNCHANGED daemonVars
    /\ p # "auto"   => UNCHANGED autoVars
    /\ p # "clones" => UNCHANGED cloneVars
    /\ p # "loop"   => UNCHANGED vars

MCNext ==
    \/ Only("daemon") /\ DaemonNext
    \/ Only("auto") /\ AutoNext
    \/ Only("clones") /\ CloneNext
    \/ Only("loop") /\ Next

(* DaemonFair, AutoFair, CloneFair and FairSpec, each for its own part. *)
MCFair ==
    /\ WF_all(Only("daemon") /\ Tick)
    /\ WF_all(Only("daemon") /\ Check)
    /\ \A a \in Apps : WF_all(Only("daemon") /\ AppLaunch(a))
    /\ WF_all(Only("auto") /\ AutoStep)
    /\ \A v \in LabVms : SF_all(Only("auto") /\ ShutDown(v))
    /\ \A c \in Labs : WF_all(Only("clones") /\ CloneStep(c))
    /\ \A r \in Requests : WF_all(Only("loop") /\ Step(r))

MCSpec == MCInit /\ [][MCNext]_all /\ MCFair
=============================================================================
