---------------------------- MODULE AutoShutdown ----------------------------
(***************************************************************************)
(* The rounds of the auto-shutdown daemon over the students' VMs of one     *)
(* class: VMs that run outside the allowed hours are shut down, and VMs     *)
(* whose CPU has been idle for long enough are meant to be.                 *)
(*                                                                          *)
(* A round works on the settings it read when it began and on the hour it   *)
(* read when it came to the class; the clock, the settings and the VMs go   *)
(* on meanwhile.  A day has Day hours.                                      *)
(***************************************************************************)
EXTENDS Naturals

CONSTANTS
    LabVms,        \* the students' VMs of the class
    Located,       \* those whose row names a node
    Day,           \* hours in a day
    Settings       \* bound: the settings a run switches between

Hours   == 0..(Day - 1)
Setting == [restrict: BOOLEAN, start: Hours, end: Hours, auto: BOOLEAN]

ASSUME AutoAssumption ==
    /\ Located \subseteq LabVms
    /\ Day \in Nat \ {0}
    /\ Settings \subseteq Setting

VARIABLES
    setting,    \* the class's settings
    hour,       \* the clock
    power,      \* the VMs: do they run, and is their CPU idle
    patrol      \* the daemon's round

autoVars == <<setting, hour, power, patrol>>

Power   == [runs: BOOLEAN, idle: BOOLEAN]
Patrol  == [pc: {"asleep", "round"}, set: Setting, hour: Hours, todo: SUBSET LabVms]

AutoTypeOK ==
    /\ setting \in Setting
    /\ hour \in Hours
    /\ power \in [LabVms -> Power]
    /\ patrol \in Patrol

AutoInit ==
    /\ setting \in Settings
    /\ hour \in Hours
    /\ power = [v \in LabVms |-> [runs |-> FALSE, idle |-> FALSE]]
    /\ patrol = [pc |-> "asleep", set |-> setting, hour |-> 0, todo |-> {}]

-----------------------------------------------------------------------------
(* Variant: a range that passes midnight is taken for an ordinary one.       *)
is_within_allowed_hours_flat(h, start, end) == start <= h /\ h < end

is_within_allowed_hours(h, start, end) ==
    IF start <= end THEN start <= h /\ h < end
                    ELSE start <= h \/ h < end

(* The world: the clock, a teacher at the settings page, a student with a VM. *)
ClockStrikes ==
    /\ hour' = (hour + 1) % Day
    /\ UNCHANGED <<setting, power, patrol>>

update_class_settings ==
    /\ setting' \in Settings
    /\ UNCHANGED <<hour, power, patrol>>

UseVm(v) ==
    /\ power' \in {[power EXCEPT ![v].runs = ~@], [power EXCEPT ![v].idle = ~@]}
    /\ UNCHANGED <<setting, hour, patrol>>

(* Variant: the daemon goes on with the settings it read first.              *)
BeginRoundAsBefore ==
    /\ patrol.pc = "asleep"
    /\ patrol.set.restrict \/ patrol.set.auto
    /\ patrol' = [pc |-> "round", set |-> patrol.set, hour |-> hour, todo |-> LabVms]
    /\ UNCHANGED <<setting, hour, power>>

(* check_and_shutdown_idle_vms and check_class_vms. *)
BeginRound ==
    /\ patrol.pc = "asleep"
    /\ setting.restrict \/ setting.auto
    /\ patrol' = [pc |-> "round", set |-> setting, hour |-> hour, todo |-> LabVms]
    /\ UNCHANGED <<setting, hour, power>>

EndRound ==
    /\ patrol.pc = "round"
    /\ patrol.todo = {}
    /\ patrol' = [patrol EXCEPT !.pc = "asleep", !.hour = 0]
    /\ UNCHANGED <<setting, hour, power>>

Visit(v) ==
    /\ patrol.pc = "round"
    /\ v \in patrol.todo
    /\ patrol' = [patrol EXCEPT !.todo = @ \ {v}]
    /\ UNCHANGED <<setting, hour>>

Outside ==
    patrol.set.restrict
        /\ ~is_within_allowed_hours(patrol.hour, patrol.set.start, patrol.set.end)

(* shutdown_vm_outside_hours. *)
ShutDown(v) ==
    /\ Visit(v)
    /\ Outside
    /\ v \in Located
    /\ power[v].runs
    /\ power' = [power EXCEPT ![v].runs = FALSE]

(* The VM is off or has no node, a request failed, or the guest ignored it.  *)
LeaveOn(v) ==
    /\ Visit(v)
    /\ Outside
    /\ UNCHANGED power

(* check_vm_and_shutdown_if_idle.  The first time a VM is seen idle its      *)
(* entry in vm_idle_tracker is made with vm.cluster, which a row does not    *)
(* have: the error is logged, the tracker stays empty, and what the daemon   *)
(* does with an entry that is there is never reached.                        *)
CheckIdle(v) ==
    /\ Visit(v)
    /\ ~Outside
    /\ UNCHANGED power

AutoStep ==
    \/ BeginRound \/ EndRound
    \/ \E v \in LabVms : ShutDown(v) \/ LeaveOn(v) \/ CheckIdle(v)

AutoNext ==
    \/ ClockStrikes \/ update_class_settings
    \/ \E v \in LabVms : UseVm(v)
    \/ AutoStep

AutoSpec == AutoInit /\ [][AutoNext]_autoVars

(* The daemon's thread goes on, and a guest asked again and again to shut    *)
(* down does so in the end.                                                  *)
AutoFair ==
    /\ WF_autoVars(AutoStep)
    /\ \A v \in LabVms : SF_autoVars(ShutDown(v))

-----------------------------------------------------------------------------
(* Properties.                                                               *)

(* The daemon shuts a VM down only when the hour of its round is not one of  *)
(* those from the start of the range on, round the clock, up to its end      *)
(* (auto_shutdown_service.py, is_within_allowed_hours).                      *)
FromStart(h, start) == (h + Day - start) % Day
StopsOnlyOutside ==
    [][\A v \in LabVms :
          patrol' # patrol /\ power[v].runs /\ ~power'[v].runs =>
             /\ patrol.set.restrict
             /\ ~(FromStart(patrol.hour, patrol.set.start)
                     < FromStart(patrol.set.end, patrol.set.start))]_autoVars

(* A VM left running when the allowed hours are over is shut down, unless    *)
(* the hours come round again or the settings change first, however stale    *)
(* the hour and the settings of the round under way are                      *)
(* (auto_shutdown_service.py, check_class_vms).                              *)
Overdue(v) ==
    /\ setting.restrict
    /\ ~is_within_allowed_hours(hour, setting.start, setting.end)
    /\ power[v].runs
OutsideIsStopped == \A v \in Located : Overdue(v) ~> ~Overdue(v)
=============================================================================
