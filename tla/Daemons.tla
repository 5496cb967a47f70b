------------------------------ MODULE Daemons ------------------------------
(***************************************************************************)
(* The background daemons, what the health service knows of them, and the   *)
(* monitor that restarts them.  The daemons share nothing but the two locks *)
(* under which their records are changed; the module follows one of them,   *)
(* any of the three.                                                        *)
(*                                                                          *)
(* Time is counted in rounds of the monitor (30 seconds): each tick makes   *)
(* one check due.  The restart function runs in the monitor's thread; the   *)
(* start functions also run when an application object is created, which    *)
(* the program does once and every change of a class's settings that        *)
(* recreates student VMs does again, in a thread of its own.  A start is two *)
(* steps, the test whether the daemon runs and the start of the thread.     *)
(***************************************************************************)
EXTENDS Naturals, FiniteSets

CONSTANTS
    Watched,      \* the daemons a run follows
    MaxAge,       \* [Watched -> Nat]: the oldest report of a healthy daemon
    MaxRestarts,  \* [Watched -> Nat]: max_restarts_per_hour
    Hour,         \* an hour
    Apps,         \* the applications that may be created at the same time
    MaxBreaks     \* bound: how often a worker dies, hangs or cannot be started,
                  \* or the daemons are registered again

AllDaemons     == {"background_sync", "auto_shutdown", "ip_scanner"}
MaxConsecutive == 3
Starters       == Apps \cup {"monitor"}

ASSUME DaemonAssumption ==
    /\ Watched \subseteq AllDaemons
    /\ MaxAge \in [Watched -> Nat \ {0}]
    /\ MaxRestarts \in [Watched -> Nat \ {0}]
    /\ Hour \in Nat \ {0}
    /\ IsFiniteSet(Apps) /\ "monitor" \notin Apps
    /\ MaxBreaks \in Nat

VARIABLES
    daemon,     \* the daemon this behaviour is about
    flag,       \* _sync_running, shutdown_daemon_active
    workers,    \* its threads: how many work, how many hang
    last,       \* _background_scanner_thread: what the last one started does
    health,     \* its record in the health service
    entry,      \* its record in the monitor's registry
    restarts,   \* _restart_stats: how long ago each attempt was
    starting,   \* who is inside the start function
    due,        \* the monitor has slept its 30 seconds
    breaks      \* faults so far

daemonVars ==
    <<daemon, flag, workers, last, health, entry, restarts, starting, due, breaks>>

(* Ages are cut off where no comparison tells them apart any more. *)
Oldest  == MaxAge[daemon] + MaxConsecutive
Never   == Oldest + 1
Workers == [works: Nat, hangs: Nat]
Health  == [status: {"stopped", "running"}, sync: Nat, check: Nat, error: BOOLEAN]
Entry   == [failures: 0..MaxConsecutive,
            status: {"unknown", "healthy", "unhealthy", "restarting", "failed_max_restarts"}]
FreshEntry == [failures |-> 0, status |-> "unknown"]

DaemonTypeOK ==
    /\ daemon \in Watched
    /\ flag \in BOOLEAN
    /\ workers \in Workers
    /\ last \in {"gone", "works", "hangs"}
    /\ health \in Health
    /\ health.sync \in 0..Never /\ health.check \in 0..Never
    /\ entry \in Entry
    /\ entry.status = "healthy" => entry.failures = 0
    /\ restarts \subseteq 0..Hour
    /\ starting \in [Starters -> BOOLEAN]
    /\ due \in BOOLEAN
    /\ breaks \in 0..MaxBreaks

(* create_app is about to start the daemon and to register it. *)
DaemonInit ==
    /\ daemon \in Watched
    /\ flag = FALSE
    /\ workers = [works |-> 0, hangs |-> 0]
    /\ last = "gone"
    /\ health = [status |-> "stopped", sync |-> Never, check |-> Never, error |-> FALSE]
    /\ entry = FreshEntry
    /\ restarts = {}
    /\ starting = [s \in Starters |-> FALSE]
    /\ due = TRUE
    /\ breaks = 0

-----------------------------------------------------------------------------
Breaking == breaks < MaxBreaks /\ breaks' = breaks + 1

Alive  == workers.works + workers.hangs
Inside == {s \in Starters : starting[s]}

(* The thread that goes from one state to the next is the last one started   *)
(* or an older one.                                                          *)
Goes(from, to) ==
    \/ last = from /\ last' = to
    \/ /\ workers[from] > (IF last = from THEN 1 ELSE 0)
       /\ UNCHANGED last

Older(a) == IF a < Oldest THEN a + 1 ELSE a

(* update_daemon_sync and update_daemon_check: the time is set, error or no. *)
Report(h, failed) ==
    IF daemon = "auto_shutdown" THEN [h EXCEPT !.check = 0, !.error = failed]
                                ELSE [h EXCEPT !.sync = 0, !.error = failed]
MonitorReport(h, failed) == [h EXCEPT !.sync = 0, !.error = failed]

(* is_daemon_healthy: the check's age hides the sync's.                      *)
AgeOf(h) == IF h.check # Never THEN h.check ELSE h.sync
Healthy(h) == h.status = "running" /\ AgeOf(h) <= MaxAge[daemon]

(* Variant: the scanner asks the health service whether it runs.             *)
AlreadyRunningByStatus ==
    IF daemon = "ip_scanner" THEN health.status = "running" ELSE flag

(* start_background_sync sets the flag where it tests it,                    *)
(* start_auto_shutdown_daemon after the thread has started, and              *)
(* start_background_ip_scanner asks the last thread it started itself.       *)
AlreadyRunning == IF daemon = "ip_scanner" THEN last # "gone" ELSE flag

(* Variant: background_sync sets its flag once its thread has started.       *)
EnterUnmarked(s) ==
    /\ starting' = [starting EXCEPT ![s] = TRUE]
    /\ UNCHANGED flag
    /\ health' = IF daemon = "background_sync" THEN health
                                               ELSE [health EXCEPT !.status = "running"]

Enter(s) ==
    /\ starting' = [starting EXCEPT ![s] = TRUE]
    /\ flag' = (flag \/ daemon = "background_sync")
    /\ health' = IF daemon = "background_sync" THEN health
                                               ELSE [health EXCEPT !.status = "running"]

(* The new thread of background_sync registers itself. *)
Launched ==
    /\ workers' = [workers EXCEPT !.works = @ + 1]
    /\ last' = "works"
    /\ flag' = (flag \/ daemon = "auto_shutdown")
(* The thread is stored before it is started. *)
NotLaunched ==
    /\ Breaking
    /\ last' = "gone"
    /\ UNCHANGED <<workers, flag>>
Registered(h) == [h EXCEPT !.status = "running"]

-----------------------------------------------------------------------------
(* The application.                                                          *)

(* create_app: the first call of the program, or the ones of                 *)
(* recreate_student_vms_with_new_specs, starts the daemon...                 *)
AppStart(a) ==
    /\ ~starting[a]
    /\ ~AlreadyRunning
    /\ Enter(a)
    /\ UNCHANGED <<daemon, workers, last, entry, restarts, due, breaks>>

AppLaunch(a) ==
    /\ starting[a]
    /\ starting' = [starting EXCEPT ![a] = FALSE]
    /\ \/ /\ Launched
          /\ health' = Registered(health)
          /\ UNCHANGED breaks
       \/ /\ NotLaunched
          /\ UNCHANGED health
    /\ UNCHANGED <<daemon, entry, restarts, due>>

(* ...and registers it with the monitor, over the record it has there. *)
Register ==
    /\ ~starting["monitor"]
    /\ Breaking
    /\ entry' = FreshEntry
    /\ UNCHANGED <<daemon, flag, workers, last, health, restarts, starting, due>>

-----------------------------------------------------------------------------
(* The daemon's own rounds.                                                  *)

Round ==
    /\ workers.works > 0
    /\ \E failed \in BOOLEAN : health' = Report(health, failed)
    /\ UNCHANGED <<daemon, flag, workers, last, entry, restarts, starting, due, breaks>>

(* A remote call that does not come back, or does after a long time. *)
Hang ==
    /\ workers.works > 0
    /\ Breaking
    /\ workers' = [works |-> workers.works - 1, hangs |-> workers.hangs + 1]
    /\ Goes("works", "hangs")
    /\ UNCHANGED <<daemon, flag, health, entry, restarts, starting, due>>

Return ==
    /\ workers.hangs > 0
    /\ workers' = [works |-> workers.works + 1, hangs |-> workers.hangs - 1]
    /\ Goes("hangs", "works")
    /\ UNCHANGED <<daemon, flag, health, entry, restarts, starting, due, breaks>>

(* The thread ends; nothing says so to the health service or to the flag. *)
Die ==
    /\ workers.works > 0
    /\ Breaking
    /\ workers' = [workers EXCEPT !.works = @ - 1]
    /\ Goes("works", "gone")
    /\ UNCHANGED <<daemon, flag, health, entry, restarts, starting, due>>

-----------------------------------------------------------------------------
(* The monitor.                                                              *)

(* A start is over long before the monitor's next check. *)
Tick ==
    /\ ~due
    /\ \A s \in Starters : ~starting[s]
    /\ due' = TRUE
    /\ health' = [health EXCEPT
           !.sync = IF health.sync = Never THEN Never ELSE Older(health.sync),
           !.check = IF health.check = Never THEN Never ELSE Older(health.check)]
    /\ restarts' = {a + 1 : a \in {b \in restarts : b < Hour}}
    /\ UNCHANGED <<daemon, flag, workers, last, entry, starting, breaks>>

(* Variant: a passed check leaves the count of failures.                     *)
CheckHealthyKeeps ==
    /\ due
    /\ ~starting["monitor"]
    /\ Healthy(health)
    /\ due' = FALSE
    /\ entry' = [entry EXCEPT !.status = "healthy"]
    /\ UNCHANGED <<daemon, flag, workers, last, health, restarts, starting, breaks>>

CheckHealthy ==
    /\ due
    /\ ~starting["monitor"]
    /\ Healthy(health)
    /\ due' = FALSE
    /\ entry' = [failures |-> 0, status |-> "healthy"]
    /\ UNCHANGED <<daemon, flag, workers, last, health, restarts, starting, breaks>>

Counted == IF entry.failures < MaxConsecutive THEN entry.failures + 1 ELSE entry.failures
InHour  == {a \in restarts : a < Hour}

Exhausted == Cardinality(InHour) >= MaxRestarts[daemon]

CheckFails ==
    /\ due
    /\ ~starting["monitor"]
    /\ ~Healthy(health)
    /\ Counted < MaxConsecutive
    /\ due' = FALSE
    /\ entry' = [failures |-> Counted, status |-> "unhealthy"]
    /\ UNCHANGED <<daemon, flag, workers, last, health, restarts, starting, breaks>>

Refuse ==
    /\ due
    /\ ~starting["monitor"]
    /\ ~Healthy(health)
    /\ Counted >= MaxConsecutive
    /\ Exhausted
    /\ due' = FALSE
    /\ entry' = [failures |-> Counted, status |-> "failed_max_restarts"]
    /\ health' = MonitorReport(health, TRUE)
    /\ restarts' = InHour
    /\ UNCHANGED <<daemon, flag, workers, last, starting, breaks>>

(* What _attempt_restart does when the restart function came back, and when  *)
(* it raised.                                                                *)
Restarted(h) ==
    /\ entry' = [failures |-> 0, status |-> "restarting"]
    /\ health' = MonitorReport(h, FALSE)
RestartFailed(h) ==
    /\ entry' = [failures |-> MaxConsecutive, status |-> "unhealthy"]
    /\ health' = MonitorReport(h, TRUE)

(* The attempt is recorded, then the restart function is called.  It returns *)
(* at once, a success, when the daemon is marked as running.                 *)
Attempt ==
    /\ due
    /\ ~starting["monitor"]
    /\ ~Healthy(health)
    /\ Counted >= MaxConsecutive
    /\ ~Exhausted
    /\ due' = FALSE
    /\ restarts' = InHour \cup {0}
    /\ \/ AlreadyRunning /\ Restarted(health) /\ UNCHANGED <<flag, starting>>
       \/ /\ ~AlreadyRunning
          /\ Enter("monitor")
          /\ UNCHANGED entry
    /\ UNCHANGED <<daemon, workers, last, breaks>>

MonitorLaunch ==
    /\ starting["monitor"]
    /\ starting' = [starting EXCEPT !["monitor"] = FALSE]
    /\ \/ /\ Launched
          /\ Restarted(Registered(health))
          /\ UNCHANGED breaks
       \/ /\ NotLaunched
          /\ RestartFailed(health)
    /\ UNCHANGED <<daemon, restarts, due>>

Check == CheckHealthy \/ CheckFails \/ Refuse \/ Attempt \/ MonitorLaunch

DaemonNext ==
    \/ \E a \in Apps : AppStart(a) \/ AppLaunch(a)
    \/ Register
    \/ Round \/ Hang \/ Return \/ Die
    \/ Tick \/ Check

DaemonSpec == DaemonInit /\ [][DaemonNext]_daemonVars

(* The monitor's thread sleeps and checks for as long as the program runs,   *)
(* and whoever is inside a start function comes out of it.                   *)
DaemonFair ==
    /\ WF_daemonVars(Tick) /\ WF_daemonVars(Check)
    /\ \A a \in Apps : WF_daemonVars(AppLaunch(a))

-----------------------------------------------------------------------------
(* Properties.                                                               *)

(* There is never more than one thread of background_sync, whoever starts it *)
(* when.  auto_shutdown has as many as callers entered its start function    *)
(* before the first of them set the flag, which nobody takes down again.     *)
(* The scanner asks its last thread only, so each time that one dies or      *)
(* cannot be started, as many as there are callers at once may be added to   *)
(* the older ones (background_sync.py, start_background_sync;                *)
(* auto_shutdown_service.py, start_auto_shutdown_daemon; proxmox_service.py, *)
(* start_background_ip_scanner).                                             *)
FewWorkers ==
    Alive + Cardinality(Inside) <= CASE daemon = "background_sync" -> 1
                                     [] daemon = "auto_shutdown" -> Cardinality(Starters)
                                     [] OTHER -> Cardinality(Starters) * (breaks + 1)

(* In no hour does the monitor try more than max_restarts_per_hour restarts, *)
(* whether they fail, are refused by a flag or succeed                       *)
(* (daemon_monitor.py, _attempt_restart).                                    *)
RestartLimit == Cardinality(InHour) <= MaxRestarts[daemon]

(* A restart is tried only after three checks without a report in between: a *)
(* slow round now and then, or late checks added up over a day, do not       *)
(* restart a daemon that works (daemon_monitor.py, _check_all_daemons).      *)
AttemptNeedsSilence ==
    [][Attempt => health.status = "stopped" \/ AgeOf(health) >= Oldest]_daemonVars

(* A daemon whose thread is gone gets another one, whatever the limit on     *)
(* restarts and failed starts in between, if its start function does not     *)
(* stop at a flag that says it runs (daemon_monitor.py, _attempt_restart).   *)
Recovers ==
    Alive = 0 /\ (daemon = "ip_scanner" \/ (daemon = "auto_shutdown" /\ ~flag))
        ~> Alive > 0

(* The threads of a daemon and the attempts to restart it
   (daemon_monitor.py).                                                      *)
DaemonInv == DaemonTypeOK /\ FewWorkers /\ RestartLimit
=============================================================================
