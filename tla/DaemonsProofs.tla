--------------------------- MODULE DaemonsProofs ---------------------------
(***************************************************************************)
(* Proofs about Daemons and AutoShutdown: for every limit on ages, restarts *)
(* and faults, how many threads a daemon has, how often the monitor tries   *)
(* to restart it, and that it tries only after three checks of silence; for *)
(* every length of the day and every settings, when a VM is shut down.      *)
(***************************************************************************)
EXTENDS Daemons, AutoShutdown, FiniteSetTheorems, TLAPS

USE DaemonAssumption DEF AllDaemons, MaxConsecutive, Starters

(* Callers inside the start function, counted. *)
LEMMA InsideCount ==
    ASSUME NEW f \in [Starters -> BOOLEAN]
    PROVE  /\ Cardinality(Starters) \in Nat /\ Cardinality(Starters) > 0
           /\ IsFiniteSet({x \in Starters : f[x]})
           /\ Cardinality({x \in Starters : f[x]}) \in Nat
           /\ Cardinality({x \in Starters : f[x]}) <= Cardinality(Starters)
           /\ Cardinality({x \in Starters : f[x]}) = 0 <=> \A x \in Starters : ~f[x]
  <1> DEFINE S == {x \in Starters : f[x]}
  <1>1. IsFiniteSet(Starters)
    BY FS_AddElement
  <1>2. IsFiniteSet(S) /\ Cardinality(S) <= Cardinality(Starters)
    BY <1>1, FS_Subset
  <1>3. Starters # {}
    OBVIOUS
  <1>4. /\ Cardinality(Starters) \in Nat /\ Cardinality(S) \in Nat
        /\ Cardinality(Starters) # 0
        /\ Cardinality(S) = 0 <=> S = {}
    BY <1>1, <1>2, <1>3, FS_EmptySet, FS_CardinalityType
  <1>5. S = {} <=> \A x \in Starters : ~f[x]
    OBVIOUS
  <1> HIDE DEF S
  <1>6. QED
    BY <1>2, <1>4, <1>5 DEF S

-----------------------------------------------------------------------------
(* The inductive invariant.                                                  *)

Nobody == \A s \in Starters : ~starting[s]

Threads ==
    /\ FewWorkers
    /\ last = "works" => workers.works > 0
    /\ last = "hangs" => workers.hangs > 0
    /\ daemon = "ip_scanner" /\ last = "gone" => Alive <= Cardinality(Starters) * breaks

(* A flag that is down means no thread; one of background_sync, nobody inside
   its start function either.                                                *)
FlagInv ==
    /\ daemon = "background_sync" /\ ~flag => Alive = 0 /\ Nobody
    /\ daemon = "auto_shutdown" /\ ~flag => Alive = 0

(* A daemon that never registered has no thread, and neither a report nor an
   attempt to restart it, but for background_sync, whose start may have failed
   or not be over yet.                                                       *)
Untouched ==
    /\ restarts = {} \/ (daemon = "background_sync" /\ starting["monitor"])
    /\ daemon # "background_sync" => ~flag /\ Nobody
StoppedInv ==
    /\ daemon # "auto_shutdown" => health.check = Never
    /\ health.status = "stopped" =>
          /\ Alive = 0
          /\ \/ health.sync = Never /\ health.check = Never /\ Untouched
             \/ /\ daemon = "background_sync" /\ flag
                /\ \/ Nobody
                   \/ health.sync = 0

(* Failures are counted only over checks with no report in between: if there
   was one, the next check passes.                                           *)
Silent(k) == IF k >= 3 THEN Oldest
             ELSE MaxAge[daemon] + k + (IF due THEN 1 ELSE 0)
Passes == AgeOf(health) + (IF due THEN 0 ELSE 1) <= MaxAge[daemon]
SilentInv ==
    /\ health.status = "running" /\ entry.failures > 0 =>
          Passes \/ AgeOf(health) >= Silent(entry.failures)
    /\ starting["monitor"] =>
          /\ ~due
          /\ entry.failures >= 2
          /\ health.status = "running" => Passes \/ AgeOf(health) >= Oldest

DInv == DaemonTypeOK /\ Threads /\ FlagInv /\ StoppedInv /\ SilentInv

LEMMA NumberTypes ==
    ASSUME daemon \in Watched
    PROVE  /\ MaxAge[daemon] \in Nat \ {0} /\ MaxRestarts[daemon] \in Nat \ {0}
           /\ Oldest = MaxAge[daemon] + 3 /\ Never = MaxAge[daemon] + 4
           /\ Oldest \in Nat /\ Never \in Nat
  BY DEF Oldest, Never

(* A report makes the next check pass, unless it leaves the age that counts. *)
LEMMA HealthFields ==
    ASSUME NEW h \in Health
    PROVE  /\ h.status \in {"stopped", "running"} /\ h.sync \in Nat /\ h.check \in Nat
           /\ h.error \in BOOLEAN
           /\ h = [status |-> h.status, sync |-> h.sync, check |-> h.check, error |-> h.error]
  BY DEF Health

LEMMA FieldSet ==
    ASSUME NEW h \in Health, NEW n \in Nat, NEW b \in BOOLEAN
    PROVE  /\ [h EXCEPT !.status = "running"] =
                 [status |-> "running", sync |-> h.sync, check |-> h.check, error |-> h.error]
           /\ [h EXCEPT !.sync = n] =
                 [status |-> h.status, sync |-> n, check |-> h.check, error |-> h.error]
           /\ [h EXCEPT !.check = n] =
                 [status |-> h.status, sync |-> h.sync, check |-> n, error |-> h.error]
           /\ [h EXCEPT !.error = b] =
                 [status |-> h.status, sync |-> h.sync, check |-> h.check, error |-> b]
  BY DEF Health

LEMMA ReportIs ==
    ASSUME NEW h \in Health, NEW failed \in BOOLEAN
    PROVE  /\ Report(h, failed) =
                 [status |-> h.status,
                  sync |-> IF daemon = "auto_shutdown" THEN h.sync ELSE 0,
                  check |-> IF daemon = "auto_shutdown" THEN 0 ELSE h.check,
                  error |-> failed]
           /\ MonitorReport(h, failed) =
                 [status |-> h.status, sync |-> 0, check |-> h.check, error |-> failed]
           /\ Registered(h) =
                 [status |-> "running", sync |-> h.sync, check |-> h.check, error |-> h.error]
  <1> DEFINE c == [h EXCEPT !.check = 0]
             s == [h EXCEPT !.sync = 0]
  <1>1. /\ c = [status |-> h.status, sync |-> h.sync, check |-> 0, error |-> h.error]
        /\ s = [status |-> h.status, sync |-> 0, check |-> h.check, error |-> h.error]
    BY FieldSet
  <1>2. /\ Report(h, failed) = IF daemon = "auto_shutdown" THEN [c EXCEPT !.error = failed]
                                                          ELSE [s EXCEPT !.error = failed]
        /\ MonitorReport(h, failed) = [s EXCEPT !.error = failed]
    BY DEF Report, MonitorReport
  <1> HIDE DEF c, s
  <1>3. c \in Health /\ s \in Health
    BY <1>1, HealthFields DEF Health
  <1>4. /\ [c EXCEPT !.error = failed] =
                 [status |-> h.status, sync |-> h.sync, check |-> 0, error |-> failed]
        /\ [s EXCEPT !.error = failed] =
                 [status |-> h.status, sync |-> 0, check |-> h.check, error |-> failed]
    BY <1>1, <1>3, FieldSet
  <1>5. QED
    BY <1>2, <1>4, FieldSet DEF Registered

LEMMA ReportAge ==
    ASSUME daemon \in Watched, NEW h \in Health, NEW failed \in BOOLEAN
    PROVE  /\ Report(h, failed) \in Health
           /\ MonitorReport(h, failed) \in Health
           /\ Registered(h) \in Health
           /\ AgeOf(MonitorReport(h, failed)) \in {0, AgeOf(h)}
           /\ AgeOf(Registered(h)) = AgeOf(h)
           /\ daemon = "auto_shutdown" \/ h.check = Never => AgeOf(Report(h, failed)) = 0
           /\ h.check = Never => AgeOf(MonitorReport(h, failed)) = 0
  <1> DEFINE r == Report(h, failed)
             m == MonitorReport(h, failed)
             g == Registered(h)
  <1>1. /\ r = [status |-> h.status,
                sync |-> IF daemon = "auto_shutdown" THEN h.sync ELSE 0,
                check |-> IF daemon = "auto_shutdown" THEN 0 ELSE h.check,
                error |-> failed]
        /\ m = [status |-> h.status, sync |-> 0, check |-> h.check, error |-> failed]
        /\ g = [status |-> "running", sync |-> h.sync, check |-> h.check, error |-> h.error]
    BY ReportIs
  <1> HIDE DEF r, m, g
  <1>2. r \in Health /\ m \in Health /\ g \in Health
    BY <1>1, HealthFields DEF Health
  <1>3. AgeOf(m) \in {0, AgeOf(h)} /\ AgeOf(g) = AgeOf(h)
    BY <1>1 DEF AgeOf
  <1>4. daemon = "auto_shutdown" \/ h.check = Never => AgeOf(r) = 0
    BY <1>1, NumberTypes DEF AgeOf
  <1>5. h.check = Never => AgeOf(m) = 0
    BY <1>1 DEF AgeOf
  <1>6. QED
    BY <1>2, <1>3, <1>4, <1>5 DEF r, m, g

-----------------------------------------------------------------------------
(* The threads and the flags.                                                *)

LEMMA TypeFacts ==
    ASSUME DaemonTypeOK
    PROVE  /\ daemon \in Watched /\ flag \in BOOLEAN
           /\ workers.works \in Nat /\ workers.hangs \in Nat
           /\ workers = [works |-> workers.works, hangs |-> workers.hangs]
           /\ last \in {"gone", "works", "hangs"}
           /\ health \in Health
           /\ starting["monitor"] \in BOOLEAN /\ breaks \in Nat
           /\ entry.failures \in 0..3
  BY DEF DaemonTypeOK, Workers, Entry

(* What the bounds on threads come to. *)
Bound(n) == CASE daemon = "background_sync" -> 1
              [] daemon = "auto_shutdown" -> Cardinality(Starters)
              [] OTHER -> Cardinality(Starters) * (n + 1)

LEMMA InsideFacts ==
    ASSUME DaemonTypeOK
    PROVE  /\ Cardinality(Starters) \in Nat /\ Cardinality(Starters) > 0
           /\ Cardinality(Inside) \in Nat
           /\ Cardinality(Inside) <= Cardinality(Starters)
           /\ Cardinality(Inside) = 0 <=> Nobody
  BY InsideCount DEF DaemonTypeOK, Inside, Nobody

LEMMA BoundsGrow ==
    ASSUME NEW n \in Nat, DaemonTypeOK
    PROVE  /\ Cardinality(Starters) * n \in Nat
           /\ Cardinality(Starters) * (n + 1) = Cardinality(Starters) * n + Cardinality(Starters)
  <1> DEFINE c == Cardinality(Starters)
  <1>1. c \in Nat
    BY InsideFacts
  <1> HIDE DEF c
  <1>2. c * n \in Nat /\ c * (n + 1) = c * n + c
    BY <1>1
  <1>3. QED
    BY <1>2 DEF c

(* One more inside its start function, or one less. *)
LEMMA StartingStep ==
    ASSUME DaemonTypeOK, NEW s \in Starters, NEW b \in BOOLEAN,
           starting' = [starting EXCEPT ![s] = b]
    PROVE  /\ starting'[s] = b
           /\ \A t \in Starters \ {s} : starting'[t] = starting[t]
           /\ starting' \in [Starters -> BOOLEAN]
  BY DEF DaemonTypeOK

LEMMA InsideStep ==
    ASSUME DaemonTypeOK, NEW s \in Starters, NEW b \in BOOLEAN, starting[s] = ~b,
           starting' = [starting EXCEPT ![s] = b]
    PROVE  /\ Cardinality(Inside') = Cardinality(Inside) + (IF b THEN 1 ELSE -1)
           /\ Cardinality(Inside') \in Nat
           /\ Cardinality(Inside') <= Cardinality(Starters)
           /\ Nobody' <=> Cardinality(Inside') = 0
  <1>1. /\ starting'[s] = b
        /\ \A t \in Starters \ {s} : starting'[t] = starting[t]
        /\ starting' \in [Starters -> BOOLEAN]
    BY StartingStep
  <1>2. /\ IsFiniteSet(Inside) /\ IsFiniteSet(Inside')
        /\ Cardinality(Inside) \in Nat /\ Cardinality(Inside') \in Nat
        /\ Cardinality(Inside') <= Cardinality(Starters)
        /\ Nobody' <=> Cardinality(Inside') = 0
    BY <1>1, InsideCount DEF Inside, DaemonTypeOK, Nobody
  <1>3. CASE b
    <2>1. Inside' = Inside \cup {s} /\ s \notin Inside
      BY <1>1, <1>3 DEF Inside
    <2>2. QED
      BY <1>2, <1>3, <2>1, FS_AddElement
  <1>4. CASE ~b
    <2>1. Inside = Inside' \cup {s} /\ s \notin Inside'
      BY <1>1, <1>4 DEF Inside
    <2>2. Cardinality(Inside) = Cardinality(Inside') + 1
      BY <1>2, <2>1, FS_AddElement
    <2>3. QED
      BY <1>2, <1>4, <2>2
  <1>5. QED
    BY <1>3, <1>4

LEMMA EnterThreads ==
    ASSUME DaemonTypeOK, Threads, FlagInv, NEW s \in Starters, ~starting[s],
           ~AlreadyRunning, Enter(s), UNCHANGED <<daemon, workers, last, breaks>>
    PROVE  Threads' /\ FlagInv' /\ starting' \in [Starters -> BOOLEAN] /\ flag' \in BOOLEAN
  <1>1. /\ starting'[s] = TRUE /\ starting' \in [Starters -> BOOLEAN]
    BY StartingStep DEF Enter
  <1>2. /\ Cardinality(Inside') = Cardinality(Inside) + 1
        /\ Cardinality(Inside') \in Nat /\ Cardinality(Inside') <= Cardinality(Starters)
    <2>1. starting[s] = ~TRUE /\ starting' = [starting EXCEPT ![s] = TRUE]
      BY DEF Enter, DaemonTypeOK
    <2>2. QED
      BY <2>1, InsideStep, InsideFacts
  <1>3. flag' = (flag \/ daemon = "background_sync") /\ Alive' = Alive /\ Alive \in Nat
    BY TypeFacts DEF Enter, Alive
  <1>4. daemon \in {"background_sync", "auto_shutdown", "ip_scanner"}
    BY DEF DaemonTypeOK
  <1>5. FewWorkers'
    <2>1. CASE daemon = "background_sync"
      <3>1. Alive = 0 /\ Nobody
        BY <2>1 DEF AlreadyRunning, FlagInv
      <3>2. QED
        BY <1>2, <1>3, <2>1, <3>1, InsideFacts DEF FewWorkers
    <2>2. CASE daemon = "auto_shutdown"
      <3>1. Alive = 0
        BY <2>2 DEF AlreadyRunning, FlagInv
      <3>2. QED
        BY <1>2, <1>3, <2>2, <3>1, InsideFacts DEF FewWorkers
    <2>3. CASE daemon = "ip_scanner"
      <3>1. Alive <= Cardinality(Starters) * breaks
        BY <2>3, TypeFacts DEF AlreadyRunning, Threads
      <3>2. Alive + Cardinality(Inside') <= Cardinality(Starters) * (breaks + 1)
        BY <1>2, <1>3, <3>1, InsideFacts, BoundsGrow, TypeFacts
      <3>3. QED
        BY <1>3, <2>3, <3>2 DEF FewWorkers
    <2>4. QED
      BY <1>4, <2>1, <2>2, <2>3
  <1>6. Threads'
    BY <1>3, <1>5 DEF Threads
  <1>7. FlagInv'
    BY <1>3, <1>4 DEF FlagInv, AlreadyRunning
  <1>8. QED
    BY <1>1, <1>3, <1>6, <1>7, TypeFacts

LEMMA LaunchThreads ==
    ASSUME DaemonTypeOK, Threads, FlagInv, NEW s \in Starters, starting[s],
           starting' = [starting EXCEPT ![s] = FALSE], UNCHANGED daemon,
           \/ Launched /\ UNCHANGED breaks
           \/ NotLaunched
    PROVE  /\ Threads' /\ FlagInv'
           /\ workers' \in Workers /\ flag' \in BOOLEAN
           /\ last' \in {"gone", "works", "hangs"}
           /\ starting' \in [Starters -> BOOLEAN]
  <1>1. starting' \in [Starters -> BOOLEAN]
    BY StartingStep
  <1>2. daemon \in {"background_sync", "auto_shutdown", "ip_scanner"}
    BY DEF DaemonTypeOK
  <1>3. /\ Cardinality(Inside') = Cardinality(Inside) - 1
        /\ Cardinality(Inside') \in Nat /\ Cardinality(Inside) \in Nat
        /\ Nobody' <=> Cardinality(Inside') = 0
        /\ ~Nobody
    <2>1. starting[s] = ~FALSE
      BY DEF DaemonTypeOK
    <2>2. QED
      BY <2>1, InsideStep, InsideFacts DEF Nobody
  <1>4. Alive \in Nat
    BY TypeFacts DEF Alive
  <1>5. CASE Launched /\ UNCHANGED breaks
    <2>1. /\ workers' = [works |-> workers.works + 1, hangs |-> workers.hangs]
          /\ flag' = (flag \/ daemon = "auto_shutdown")
          /\ last' = "works"
      BY <1>5, TypeFacts DEF Launched
    <2>2. workers'.works > 0 /\ Alive' = Alive + 1
      BY <2>1, TypeFacts DEF Alive
    <2>3. Alive' + Cardinality(Inside') = Alive + Cardinality(Inside)
      BY <1>3, <1>4, <2>2
    <2>4. FewWorkers'
      BY <1>5, <2>3 DEF Threads, FewWorkers
    <2>5. Threads'
      BY <2>1, <2>2, <2>4 DEF Threads
    <2>6. FlagInv'
      BY <1>2, <1>3, <2>1 DEF FlagInv
    <2>7. workers' \in Workers /\ flag' \in BOOLEAN
      BY <2>1, TypeFacts DEF Workers
    <2>8. QED
      BY <1>1, <2>1, <2>5, <2>6, <2>7
  <1>6. CASE NotLaunched
    <2>1. breaks' = breaks + 1 /\ last' = "gone" /\ UNCHANGED <<workers, flag>>
      BY <1>6 DEF NotLaunched, Breaking
    <2>2. Alive' = Alive /\ Alive + Cardinality(Inside) <= Bound(breaks)
      BY <2>1 DEF Alive, Threads, FewWorkers, Bound
    <2>3. /\ Alive' + Cardinality(Inside') <= Bound(breaks')
          /\ daemon = "ip_scanner" => Alive' <= Cardinality(Starters) * breaks'
      BY <1>2, <1>3, <1>4, <2>1, <2>2, BoundsGrow, InsideFacts, TypeFacts DEF Bound
    <2>4. Threads'
      BY <2>1, <2>3 DEF Threads, FewWorkers, Bound
    <2>5. FlagInv'
      BY <1>3, <2>1, <2>2 DEF FlagInv
    <2>6. QED
      BY <1>1, <2>1, <2>4, <2>5, TypeFacts DEF Workers
  <1>7. QED
    BY <1>5, <1>6

(* A thread hangs, comes back or ends. *)
LEMMA GoThreads ==
    ASSUME DaemonTypeOK, Threads, FlagInv, UNCHANGED <<daemon, flag, starting>>,
           Hang \/ Return \/ Die
    PROVE  /\ Threads' /\ FlagInv' /\ workers' \in Workers
           /\ last' \in {"gone", "works", "hangs"}
  <1>1. \/ /\ Goes("works", "hangs") /\ workers.works > 0 /\ breaks' = breaks + 1
           /\ workers' = [works |-> workers.works - 1, hangs |-> workers.hangs + 1]
        \/ /\ Goes("hangs", "works") /\ workers.hangs > 0 /\ breaks' = breaks
           /\ workers' = [works |-> workers.works + 1, hangs |-> workers.hangs - 1]
        \/ /\ Goes("works", "gone") /\ workers.works > 0 /\ breaks' = breaks + 1
           /\ workers' = [works |-> workers.works - 1, hangs |-> workers.hangs]
    BY TypeFacts DEF Hang, Return, Die, Breaking
  <1>2. workers' \in Workers /\ last' \in {"gone", "works", "hangs"}
    BY <1>1, TypeFacts DEF Workers, Goes
  <1>3. /\ last' = "works" => workers'.works > 0
        /\ last' = "hangs" => workers'.hangs > 0
    BY <1>1, TypeFacts DEF Goes, Threads
  <1>4. /\ Alive' <= Alive /\ Alive' \in Nat /\ Alive \in Nat
        /\ breaks' \in {breaks, breaks + 1}
        /\ last' = "gone" => last = "gone" \/ breaks' = breaks + 1
    BY <1>1, TypeFacts DEF Alive, Goes
  <1>5. Cardinality(Inside') = Cardinality(Inside) /\ (Nobody' <=> Nobody)
    BY DEF Inside, Nobody
  <1>6. Alive + Cardinality(Inside) <= Bound(breaks)
    BY DEF Threads, FewWorkers, Bound
  <1>7. daemon \in {"background_sync", "auto_shutdown", "ip_scanner"}
    BY DEF DaemonTypeOK
  <1>8. /\ Alive' + Cardinality(Inside') <= Bound(breaks')
        /\ daemon = "ip_scanner" /\ last' = "gone" =>
              Alive' <= Cardinality(Starters) * breaks'
    <2>1. CASE breaks' = breaks
      BY <1>4, <1>5, <1>6, <1>7, <2>1, BoundsGrow, InsideFacts, TypeFacts DEF Bound, Threads
    <2>2. CASE breaks' = breaks + 1
      BY <1>4, <1>5, <1>6, <1>7, <2>2, BoundsGrow, InsideFacts, TypeFacts DEF Bound
    <2>3. QED
      BY <1>4, <2>1, <2>2
  <1>9. Threads'
    BY <1>3, <1>8 DEF Threads, FewWorkers, Bound
  <1>10. FlagInv'
    BY <1>4, <1>5 DEF FlagInv
  <1>11. QED
    BY <1>2, <1>9, <1>10

LEMMA ThreadsNext ==
    ASSUME DaemonTypeOK, Threads, FlagInv, DaemonNext
    PROVE  /\ Threads' /\ FlagInv'
           /\ daemon' = daemon
           /\ workers' \in Workers /\ flag' \in BOOLEAN
           /\ last' \in {"gone", "works", "hangs"}
           /\ starting' \in [Starters -> BOOLEAN]
  <1>1. ASSUME NEW a \in Apps, AppStart(a)
        PROVE  /\ Threads' /\ FlagInv' /\ starting' \in [Starters -> BOOLEAN]
               /\ flag' \in BOOLEAN /\ UNCHANGED <<daemon, workers, last>>
    BY <1>1, EnterThreads DEF AppStart
  <1>2. ASSUME NEW a \in Apps, AppLaunch(a)
        PROVE  /\ Threads' /\ FlagInv' /\ workers' \in Workers /\ flag' \in BOOLEAN
               /\ last' \in {"gone", "works", "hangs"} /\ UNCHANGED daemon
               /\ starting' \in [Starters -> BOOLEAN]
    BY <1>2, LaunchThreads DEF AppLaunch
  <1>3. CASE MonitorLaunch
    BY <1>3, LaunchThreads DEF MonitorLaunch
  <1>4. CASE UNCHANGED <<daemon, flag, workers, last, starting>> /\ breaks' \in {breaks, breaks + 1}
    <2>1. Alive' = Alive /\ Alive \in Nat /\ Inside' = Inside /\ (Nobody' <=> Nobody)
      BY <1>4, TypeFacts DEF Alive, Inside, Nobody
    <2>2. Alive + Cardinality(Inside) <= Bound(breaks)
      BY DEF Threads, FewWorkers, Bound
    <2>3. Cardinality(Starters) * breaks' >= Cardinality(Starters) * breaks
          /\ Cardinality(Starters) * (breaks' + 1) >= Cardinality(Starters) * (breaks + 1)
      BY <1>4, BoundsGrow, InsideFacts, TypeFacts
    <2>4. Alive' + Cardinality(Inside') <= Bound(breaks')
      BY <1>4, <2>1, <2>2, <2>3, BoundsGrow, InsideFacts, TypeFacts DEF Bound
    <2>5. daemon = "ip_scanner" /\ last = "gone" => Alive' <= Cardinality(Starters) * breaks'
      BY <1>4, <2>1, <2>3, BoundsGrow, InsideFacts, TypeFacts DEF Threads
    <2>6. Threads'
      BY <1>4, <2>4, <2>5 DEF Threads, FewWorkers, Bound
    <2>7. FlagInv'
      BY <1>4, <2>1 DEF FlagInv
    <2>8. QED
      BY <1>4, <2>6, <2>7, TypeFacts DEF DaemonTypeOK
  <1>5. CASE Attempt
    <2>1. CASE AlreadyRunning /\ UNCHANGED <<flag, starting>>
      BY <1>4, <1>5, <2>1, TypeFacts DEF Attempt
    <2>2. CASE ~AlreadyRunning /\ Enter("monitor")
      BY <1>5, <2>2, EnterThreads, TypeFacts DEF Attempt, DaemonTypeOK
    <2>3. QED
      BY <1>5, <2>1, <2>2 DEF Attempt
  <1>6. CASE Register \/ Round \/ Tick \/ CheckHealthy \/ CheckFails \/ Refuse
    <2>1. UNCHANGED <<daemon, flag, workers, last, starting>> /\ breaks' \in {breaks, breaks + 1}
      BY <1>6 DEF Register, Round, Tick, CheckHealthy, CheckFails, Refuse, Breaking
    <2>2. QED
      BY <1>4, <2>1
  <1>7. CASE Hang \/ Return \/ Die
    <2>1. UNCHANGED <<daemon, flag, starting>>
      BY <1>7 DEF Hang, Return, Die
    <2>2. QED
      BY <1>7, <2>1, GoThreads, TypeFacts DEF DaemonTypeOK
  <1>8. QED
    BY <1>1, <1>2, <1>3, <1>5, <1>6, <1>7, TypeFacts DEF DaemonNext, Check, DaemonTypeOK

-----------------------------------------------------------------------------
(* The attempts of the last hour.                                            *)

LEMMA HourFinite ==
    ASSUME DaemonTypeOK
    PROVE  IsFiniteSet(InHour) /\ Cardinality(InHour) \in Nat
  <1>1. IsFiniteSet(0..Hour)
    BY FS_Interval
  <1>2. InHour \in SUBSET (0..Hour)
    BY DEF DaemonTypeOK, InHour
  <1>3. IsFiniteSet(InHour)
    BY <1>1, <1>2, FS_Subset
  <1>4. QED
    BY <1>3, FS_CardinalityType

(* Attempts grow older, and none comes back into the hour. *)
LEMMA HourPasses ==
    ASSUME DaemonTypeOK, restarts' = {a + 1 : a \in {b \in restarts : b < Hour}}
    PROVE  Cardinality(InHour') <= Cardinality(InHour)
  <1> DEFINE S == {a \in InHour : a + 1 < Hour}
             f == [a \in S |-> a + 1]
  <1>1. InHour' = {a + 1 : a \in S}
    BY DEF InHour, DaemonTypeOK
  <1>2. IsFiniteSet(S) /\ Cardinality(S) <= Cardinality(InHour)
    BY HourFinite, FS_Subset
  <1>3. f \in Surjection(S, InHour')
    BY <1>1 DEF Surjection
  <1> HIDE DEF S, f
  <1>4. IsFiniteSet(InHour') /\ Cardinality(InHour') <= Cardinality(S)
    BY <1>2, <1>3, FS_Surjection
  <1>5. Cardinality(InHour') \in Nat /\ Cardinality(S) \in Nat
    BY <1>2, <1>4, FS_CardinalityType
  <1>6. QED
    BY <1>2, <1>4, <1>5, HourFinite

LEMMA LimitNext ==
    ASSUME DaemonTypeOK, RestartLimit, DaemonNext, daemon' = daemon
    PROVE  RestartLimit' /\ restarts' \in SUBSET (0..Hour)
  <1>1. CASE Tick
    <2>1. restarts' = {a + 1 : a \in {b \in restarts : b < Hour}}
      BY <1>1 DEF Tick
    <2>2. restarts' \in SUBSET (0..Hour)
      BY <2>1 DEF DaemonTypeOK
    <2>3. restarts' \in SUBSET (0..Hour) /\ InHour' \in SUBSET (0..Hour)
      BY <2>2 DEF InHour
    <2>4. Cardinality(InHour') \in Nat
      <3>1. IsFiniteSet(0..Hour)
        BY FS_Interval
      <3>2. IsFiniteSet(InHour')
        BY <2>3, <3>1, FS_Subset
      <3>3. QED
        BY <3>2, FS_CardinalityType
    <2>5. Cardinality(InHour') <= MaxRestarts[daemon]
      BY <2>1, <2>4, HourPasses, HourFinite, NumberTypes DEF RestartLimit, DaemonTypeOK
    <2>6. QED
      BY <2>2, <2>5 DEF RestartLimit
  <1>2. CASE Attempt
    <2>1. restarts' = InHour \cup {0}
      BY <1>2 DEF Attempt
    <2>2. restarts' \in SUBSET (0..Hour) /\ InHour' = InHour \cup {0}
      <3>1. \A a \in InHour : a \in 0..Hour /\ a < Hour
        BY DEF DaemonTypeOK, InHour
      <3>2. restarts' \in SUBSET (0..Hour)
        BY <2>1, <3>1
      <3>3. InHour' = {a \in InHour \cup {0} : a < Hour}
        BY <2>1 DEF InHour
      <3>4. QED
        BY <3>1, <3>2, <3>3
    <2>3. Cardinality(InHour \cup {0}) \in {Cardinality(InHour), Cardinality(InHour) + 1}
      <3>1. Cardinality(InHour \cup {0}) =
               IF 0 \in InHour THEN Cardinality(InHour) ELSE Cardinality(InHour) + 1
        BY HourFinite, FS_AddElement
      <3>2. QED
        BY <3>1
    <2>4. ~(Cardinality(InHour) >= MaxRestarts[daemon])
      BY <1>2 DEF Attempt, Exhausted
    <2>5. Cardinality(InHour \cup {0}) <= MaxRestarts[daemon]
      BY <2>3, <2>4, HourFinite, NumberTypes DEF DaemonTypeOK
    <2>6. QED
      BY <2>2, <2>5 DEF RestartLimit
  <1>3. CASE Refuse
    <2>1. restarts' = InHour
      BY <1>3 DEF Refuse
    <2>2. restarts' \in SUBSET (0..Hour) /\ InHour' = InHour
      <3>1. \A a \in InHour : a \in 0..Hour /\ a < Hour
        BY DEF DaemonTypeOK, InHour
      <3>2. InHour' = {a \in InHour : a < Hour}
        BY <2>1 DEF InHour
      <3>3. QED
        BY <2>1, <3>1, <3>2
    <2>3. QED
      BY <2>2 DEF RestartLimit
  <1>4. CASE UNCHANGED restarts
    BY <1>4 DEF RestartLimit, InHour, DaemonTypeOK
  <1>5. QED
    BY <1>1, <1>2, <1>3, <1>4 DEF DaemonNext, Check, AppStart, AppLaunch, Register, Round,
       Hang, Return, Die, CheckHealthy, CheckFails, MonitorLaunch

-----------------------------------------------------------------------------
(* What the health service and the monitor's registry say.                   *)

(* Their types, and that a daemon whose thread never ran has nothing to hide. *)
HealthType == health \in Health /\ health.sync <= Never /\ health.check <= Never
EntryType  == entry \in Entry /\ (entry.status = "healthy" => entry.failures = 0)

LEMMA HealthOf ==
    ASSUME NEW st \in {"stopped", "running"}, NEW sy \in Nat, NEW ch \in Nat,
           NEW er \in BOOLEAN, daemon' = daemon, sy <= Never, ch <= Never,
           health' = [status |-> st, sync |-> sy, check |-> ch, error |-> er]
    PROVE  /\ HealthType'
           /\ health'.status = st /\ health'.sync = sy /\ health'.check = ch
           /\ Never' = Never /\ Oldest' = Oldest
           /\ AgeOf(health)' = IF ch # Never THEN ch ELSE sy
  BY DEF HealthType, Health, AgeOf, Never, Oldest

LEMMA EntryOf ==
    ASSUME NEW k \in 0..3,
           NEW st \in {"unknown", "unhealthy", "restarting", "failed_max_restarts"},
           entry' = [failures |-> k, status |-> st]
    PROVE  EntryType' /\ entry'.failures = k
  BY DEF EntryType, Entry

LEMMA RecordFacts ==
    ASSUME DInv
    PROVE  /\ health.sync <= Never /\ health.check <= Never
           /\ health.status \in {"stopped", "running"}
           /\ health.sync \in Nat /\ health.check \in Nat /\ health.error \in BOOLEAN
           /\ health = [status |-> health.status, sync |-> health.sync,
                        check |-> health.check, error |-> health.error]
           /\ entry.failures \in 0..3 /\ entry \in Entry
           /\ daemon \in Watched /\ due \in BOOLEAN
           /\ MaxAge[daemon] \in Nat \ {0}
           /\ Oldest = MaxAge[daemon] + 3 /\ Never = MaxAge[daemon] + 4
  BY HealthFields, TypeFacts, NumberTypes DEF DInv, DaemonTypeOK

(* What remains to be kept when the threads and the attempts are. *)
Records == HealthType /\ EntryType /\ due \in BOOLEAN /\ StoppedInv /\ SilentInv

(* Steps that leave both records alone. *)
LEMMA RecordsSame ==
    ASSUME DInv, UNCHANGED <<daemon, health, entry, due>>,
           health.status = "running", UNCHANGED starting
    PROVE  Records'
  <1>1. /\ Never' = Never /\ Oldest' = Oldest /\ AgeOf(health)' = AgeOf(health)
        /\ Passes' = Passes /\ \A k \in 0..3 : Silent(k)' = Silent(k)
    BY DEF Never, Oldest, AgeOf, Passes, Silent
  <1>2. HealthType' /\ EntryType' /\ due' \in BOOLEAN
    BY RecordFacts, <1>1 DEF HealthType, EntryType, DInv, DaemonTypeOK, Health
  <1>3. StoppedInv'
    BY <1>1 DEF StoppedInv, DInv
  <1>4. SilentInv'
    BY <1>1, RecordFacts DEF SilentInv, DInv
  <1>5. QED
    BY <1>2, <1>3, <1>4 DEF Records

(* The same for any new records. *)
AgeIn(sy, ch) == IF ch # Never THEN ch ELSE sy
PassesAt(age) == age + (IF due' THEN 0 ELSE 1) <= MaxAge[daemon]

LEMMA RecordsFrom ==
    ASSUME DInv, daemon' = daemon, due' \in BOOLEAN,
           NEW st \in {"stopped", "running"}, NEW sy \in Nat, NEW ch \in Nat,
           NEW er \in BOOLEAN, NEW k \in 0..3, sy <= Never, ch <= Never,
           health' = [status |-> st, sync |-> sy, check |-> ch, error |-> er],
           EntryType', entry'.failures = k,
           daemon # "auto_shutdown" => ch = Never,
           st = "stopped" =>
              /\ Alive' = 0
              /\ \/ sy = Never /\ ch = Never /\ Untouched'
                 \/ /\ daemon = "background_sync" /\ flag'
                    /\ \/ Nobody'
                       \/ sy = 0,
           st = "running" /\ k > 0 =>
              \/ PassesAt(AgeIn(sy, ch))
              \/ AgeIn(sy, ch) >= IF k >= 3 THEN Oldest
                                  ELSE MaxAge[daemon] + k + (IF due' THEN 1 ELSE 0),
           starting'["monitor"] =>
              /\ ~due' /\ k >= 2
              /\ st = "running" => PassesAt(AgeIn(sy, ch)) \/ AgeIn(sy, ch) >= Oldest
    PROVE  Records'
  <1>1. /\ HealthType'
        /\ health'.status = st /\ health'.sync = sy /\ health'.check = ch
        /\ Never' = Never /\ Oldest' = Oldest
        /\ AgeOf(health)' = AgeIn(sy, ch)
    BY HealthOf DEF AgeIn
  <1>2. Passes' <=> PassesAt(AgeIn(sy, ch))
    BY <1>1 DEF Passes, PassesAt
  <1>3. Silent(k)' = IF k >= 3 THEN Oldest
                     ELSE MaxAge[daemon] + k + (IF due' THEN 1 ELSE 0)
    BY <1>1 DEF Silent
  <1>4. StoppedInv'
    BY <1>1 DEF StoppedInv
  <1>5. SilentInv'
    BY <1>1, <1>2, <1>3 DEF SilentInv
  <1>6. QED
    BY <1>1, <1>4, <1>5 DEF Records

(* Two conclusions about any reported age. *)
LEMMA ZeroPasses ==
    ASSUME DInv
    PROVE  PassesAt(0)
  BY RecordFacts DEF PassesAt

(* Rounds of the daemon: the next check passes. *)
LEMMA RoundRecords == ASSUME DInv, Round PROVE Records'
  <1>1. PICK failed \in BOOLEAN : health' = Report(health, failed)
    BY DEF Round
  <1>2. UNCHANGED <<daemon, flag, workers, entry, starting, due>> /\ workers.works > 0
    BY DEF Round
  <1>3. health.status = "running"
    BY <1>2, RecordFacts, TypeFacts DEF DInv, StoppedInv, Alive
  <1> DEFINE sy == IF daemon = "auto_shutdown" THEN health.sync ELSE 0
             ch == IF daemon = "auto_shutdown" THEN 0 ELSE health.check
  <1>4. health' = [status |-> "running", sync |-> sy, check |-> ch, error |-> failed]
    BY <1>1, <1>3, ReportIs, TypeFacts DEF DInv
  <1>5. sy \in Nat /\ ch \in Nat /\ sy <= Never /\ ch <= Never
    BY RecordFacts
  <1>6. daemon # "auto_shutdown" => ch = Never
    BY DEF DInv, StoppedInv
  <1>7. AgeIn(sy, ch) = 0
    BY <1>6, RecordFacts DEF AgeIn
  <1>8. EntryType' /\ entry'.failures = entry.failures /\ due' \in BOOLEAN
    BY <1>2, RecordFacts DEF EntryType, DInv, DaemonTypeOK
  <1>9. starting'["monitor"] => ~due' /\ entry.failures >= 2
    BY <1>2 DEF DInv, SilentInv
  <1> HIDE DEF sy, ch
  <1>10. QED
    BY <1>2, <1>4, <1>5, <1>6, <1>7, <1>8, <1>9, ZeroPasses, RecordFacts, RecordsFrom

(* The monitor's clock. *)
LEMMA TickRecords == ASSUME DInv, Tick PROVE Records'
  <1> DEFINE sy == IF health.sync = Never THEN Never ELSE Older(health.sync)
             ch == IF health.check = Never THEN Never ELSE Older(health.check)
  <1>1. /\ ~due /\ due' = TRUE
        /\ Nobody /\ Nobody' /\ ~starting["monitor"]
        /\ UNCHANGED <<daemon, flag, workers, entry, starting>>
    BY DEF Tick, Nobody
  <1>2. health' = [status |-> health.status, sync |-> sy, check |-> ch,
                   error |-> health.error]
    <2> DEFINE h == [health EXCEPT !.sync = sy]
    <2>1. health' = [h EXCEPT !.check = ch]
      BY DEF Tick
    <2>2. sy \in Nat /\ ch \in Nat
      BY RecordFacts DEF Older
    <2> HIDE DEF sy, ch
    <2>3. h = [status |-> health.status, sync |-> sy, check |-> health.check,
               error |-> health.error]
      BY <2>2, FieldSet, TypeFacts DEF DInv
    <2> HIDE DEF h
    <2>4. h \in Health
      BY <2>2, <2>3, RecordFacts DEF Health
    <2>5. [h EXCEPT !.check = ch] =
             [status |-> h.status, sync |-> h.sync, check |-> ch, error |-> h.error]
      BY <2>2, <2>4, FieldSet
    <2>6. QED
      BY <2>1, <2>3, <2>5
  <1>3. /\ sy \in Nat /\ ch \in Nat /\ sy <= Never /\ ch <= Never
        /\ sy = Never <=> health.sync = Never
        /\ ch = Never <=> health.check = Never
    BY RecordFacts DEF Older
  <1>4. AgeIn(sy, ch) \in {AgeOf(health), AgeOf(health) + 1}
           /\ (AgeIn(sy, ch) = AgeOf(health) => AgeOf(health) >= Oldest)
    BY RecordFacts DEF Older, AgeIn, AgeOf
  <1>5. EntryType' /\ entry'.failures = entry.failures
    BY <1>1, RecordFacts DEF EntryType, DInv, DaemonTypeOK
  <1>6. daemon # "auto_shutdown" => ch = Never
    BY <1>3 DEF DInv, StoppedInv
  <1>7. health.status = "stopped" =>
           /\ Alive' = 0
           /\ \/ sy = Never /\ ch = Never /\ Untouched'
              \/ daemon = "background_sync" /\ flag'
    <2>1. restarts = {} => restarts' = {}
      BY DEF Tick
    <2>2. QED
      BY <1>1, <1>3, <2>1 DEF DInv, StoppedInv, Alive, Untouched, Nobody
  <1>8. AgeOf(health) \in Nat
    BY RecordFacts DEF AgeOf
  <1>9. health.status = "running" /\ entry.failures > 0 =>
           \/ PassesAt(AgeIn(sy, ch))
           \/ AgeIn(sy, ch) >= IF entry.failures >= 3 THEN Oldest
                               ELSE MaxAge[daemon] + entry.failures + (IF due' THEN 1 ELSE 0)
    BY <1>1, <1>4, <1>8, RecordFacts DEF DInv, SilentInv, Silent, Passes, PassesAt
  <1> HIDE DEF sy, ch
  <1>10. QED
    BY <1>1, <1>2, <1>3, <1>5, <1>6, <1>7, <1>9, RecordFacts, RecordsFrom

(* Steps that register the daemon again or leave its flag and threads be. *)
LEMMA QuietRecords ==
    ASSUME DInv, Register \/ Hang \/ Return \/ Die \/ CheckHealthy PROVE Records'
  <1>1. CASE Hang \/ Return \/ Die
    <2>1. UNCHANGED <<daemon, flag, health, entry, starting, due>>
      BY <1>1 DEF Hang, Return, Die
    <2>2. workers.works > 0 \/ workers.hangs > 0
      BY <1>1 DEF Hang, Return, Die
    <2>3. health.status = "running"
      BY <2>2, RecordFacts, TypeFacts DEF DInv, StoppedInv, Alive
    <2>4. QED
      BY <2>1, <2>3, RecordsSame
  <1>2. CASE Register \/ CheckHealthy
    <2>1. /\ UNCHANGED <<daemon, flag, workers, health, starting>>
          /\ ~starting["monitor"] /\ due' \in BOOLEAN
      BY <1>2, RecordFacts DEF Register, CheckHealthy
    <2>2. EntryType' /\ entry'.failures = 0
      BY <1>2 DEF Register, CheckHealthy, FreshEntry, EntryType, Entry
    <2>3. health.status = "stopped" =>
             /\ Alive' = 0
             /\ \/ health.sync = Never /\ health.check = Never /\ Untouched'
                \/ /\ daemon = "background_sync" /\ flag'
                   /\ \/ Nobody'
                      \/ health.sync = 0
      BY <1>2, <2>1 DEF Register, CheckHealthy, DInv, StoppedInv, Alive, Untouched, Nobody
    <2>4. health' = [status |-> health.status, sync |-> health.sync,
                     check |-> health.check, error |-> health.error]
      BY <2>1, RecordFacts
    <2>5. daemon # "auto_shutdown" => health.check = Never
      BY DEF DInv, StoppedInv
    <2>6. QED
      BY <2>1, <2>2, <2>3, <2>4, <2>5, RecordFacts, RecordsFrom
  <1>3. QED
    BY <1>1, <1>2

(* A check that fails: the age it saw is over the limit, and one more tick
   was due for each of the failures counted. *)
LEMMA OverAge ==
    ASSUME DInv, due, ~Healthy(health), health.status = "running"
    PROVE  /\ AgeOf(health) \in Nat /\ AgeOf(health) > MaxAge[daemon]
           /\ ~Passes
           /\ entry.failures > 0 => AgeOf(health) >= Silent(entry.failures)
           /\ AgeOf(health) >= MaxAge[daemon] + Counted
  <1>1. AgeOf(health) \in Nat /\ AgeOf(health) > MaxAge[daemon]
    BY RecordFacts DEF Healthy, AgeOf
  <1>2. ~Passes
    BY <1>1, RecordFacts DEF Passes
  <1>3. entry.failures > 0 => AgeOf(health) >= Silent(entry.failures)
    BY <1>2 DEF DInv, SilentInv
  <1>4. AgeOf(health) >= MaxAge[daemon] + Counted
    BY <1>1, <1>3, RecordFacts DEF Silent, Counted
  <1>5. QED
    BY <1>1, <1>2, <1>3, <1>4

LEMMA FailRecords == ASSUME DInv, CheckFails PROVE Records'
  <1>1. /\ due /\ ~due' /\ due' \in BOOLEAN /\ ~Healthy(health) /\ ~starting["monitor"]
        /\ UNCHANGED <<daemon, flag, workers, health, starting>>
    BY DEF CheckFails
  <1>2. Counted \in 1..2 /\ EntryType' /\ entry'.failures = Counted
    <2>1. Counted \in 1..2
      BY RecordFacts DEF CheckFails, Counted
    <2>2. entry' = [failures |-> Counted, status |-> "unhealthy"]
      BY DEF CheckFails
    <2>3. QED
      BY <2>1, <2>2, EntryOf
  <1>3. health.status = "running" =>
           AgeOf(health) >= IF Counted >= 3 THEN Oldest
                            ELSE MaxAge[daemon] + Counted + (IF due' THEN 1 ELSE 0)
    BY <1>1, <1>2, OverAge, RecordFacts
  <1>4. health.status = "stopped" =>
           /\ Alive' = 0
           /\ \/ health.sync = Never /\ health.check = Never /\ Untouched'
              \/ /\ daemon = "background_sync" /\ flag'
                 /\ \/ Nobody'
                    \/ health.sync = 0
    BY <1>1 DEF DInv, StoppedInv, Alive, Untouched, Nobody, CheckFails
  <1>5. health' = [status |-> health.status, sync |-> health.sync,
                   check |-> health.check, error |-> health.error]
    BY <1>1, RecordFacts
  <1>6. daemon # "auto_shutdown" => health.check = Never
    BY DEF DInv, StoppedInv
  <1>7. AgeIn(health.sync, health.check) = AgeOf(health)
    BY DEF AgeIn, AgeOf
  <1>8. QED
    BY <1>1, <1>2, <1>3, <1>4, <1>5, <1>6, <1>7, RecordFacts, RecordsFrom

(* The monitor writes its own report, over the check's if there is one: the
   next check passes, or the age that was too old stays. *)
LEMMA RefuseRecords == ASSUME DInv, Refuse PROVE Records'
  <1>1. /\ due /\ ~due' /\ due' \in BOOLEAN /\ ~Healthy(health) /\ ~starting["monitor"]
        /\ UNCHANGED <<daemon, flag, workers, starting>>
    BY DEF Refuse
  <1>2. Counted = 3 /\ EntryType' /\ entry'.failures = Counted
    <2>1. Counted = 3
      BY RecordFacts DEF Refuse, Counted
    <2>2. entry' = [failures |-> Counted, status |-> "failed_max_restarts"]
      BY DEF Refuse
    <2>3. QED
      BY <2>1, <2>2, EntryOf
  <1>3. health' = [status |-> health.status, sync |-> 0, check |-> health.check,
                   error |-> TRUE]
    BY ReportIs, RecordFacts, TypeFacts DEF Refuse, DInv
  <1>4. health.status = "running" =>
           PassesAt(AgeIn(0, health.check)) \/ AgeIn(0, health.check) >= Oldest
    <2>1. CASE health.check = Never
      BY <2>1, ZeroPasses DEF AgeIn
    <2>2. CASE health.check # Never
      BY <1>1, <1>2, <2>2, OverAge, RecordFacts DEF AgeIn, AgeOf
    <2>3. QED
      BY <2>1, <2>2
  <1>5. health.status = "stopped" =>
           /\ Alive' = 0 /\ daemon = "background_sync" /\ flag'
           /\ \/ Nobody'
              \/ health.sync = 0
    <2>1. restarts # {}
      <3>1. Cardinality(InHour) >= MaxRestarts[daemon]
        BY DEF Refuse, Exhausted
      <3>2. Cardinality({}) = 0
        BY FS_EmptySet
      <3>3. restarts = {} => InHour = {}
        BY DEF InHour
      <3>4. QED
        BY <3>1, <3>2, <3>3, RecordFacts
    <2>2. QED
      BY <1>1, <2>1 DEF DInv, StoppedInv, Alive, Untouched, Nobody
  <1>6. daemon # "auto_shutdown" => health.check = Never
    BY DEF DInv, StoppedInv
  <1> DEFINE sy == 0
             er == TRUE
  <1>7. /\ sy \in Nat /\ er \in BOOLEAN /\ sy <= Never
        /\ health' = [status |-> health.status, sync |-> sy, check |-> health.check,
                      error |-> er]
        /\ health.status = "running" =>
             PassesAt(AgeIn(sy, health.check)) \/ AgeIn(sy, health.check) >= Oldest
        /\ health.status = "stopped" =>
             /\ Alive' = 0 /\ daemon = "background_sync" /\ flag'
             /\ (Nobody') \/ sy = 0
    BY <1>3, <1>4, <1>5, RecordFacts
  <1> HIDE DEF sy, er
  <1>8. QED
    BY <1>1, <1>2, <1>6, <1>7, RecordFacts, RecordsFrom

(* The monitor calls the start function: nothing happens if the daemon is
   marked as running... *)
LEMMA RefusedStartRecords ==
    ASSUME DInv, Attempt, AlreadyRunning, Restarted(health), UNCHANGED <<flag, starting>>
    PROVE  Records'
  <1>1. /\ ~due' /\ due' \in BOOLEAN /\ ~starting'["monitor"]
        /\ UNCHANGED <<daemon, flag, workers, starting>>
    BY DEF Attempt
  <1>2. EntryType' /\ entry'.failures = 0
    BY EntryOf DEF Restarted
  <1> DEFINE sy == 0
             er == FALSE
             k  == 0
  <1>3. health' = [status |-> health.status, sync |-> sy, check |-> health.check,
                   error |-> er]
    BY ReportIs, RecordFacts, TypeFacts DEF Restarted, DInv
  <1>4. health.status = "stopped" =>
           /\ Alive' = 0 /\ daemon = "background_sync" /\ flag'
           /\ (Nobody') \/ sy = 0
    <2>1. daemon \in {"background_sync", "auto_shutdown", "ip_scanner"}
      BY RecordFacts
    <2>2. QED
      BY <1>1, <2>1, RecordFacts, TypeFacts DEF AlreadyRunning, DInv, Threads, StoppedInv, Alive, Untouched, Nobody
  <1>5. daemon # "auto_shutdown" => health.check = Never
    BY DEF DInv, StoppedInv
  <1>6. sy \in Nat /\ er \in BOOLEAN /\ sy <= Never /\ k \in 0..3 /\ ~(k > 0)
    BY RecordFacts
  <1>7. entry'.failures = k
    BY <1>2
  <1> HIDE DEF sy, er, k
  <1>8. QED
    BY <1>1, <1>2, <1>3, <1>4, <1>5, <1>6, <1>7, RecordFacts, RecordsFrom

(* ...and otherwise the start begins, after checks that all saw too old a
   report, or none. *)
LEMMA BegunRecords ==
    ASSUME DInv, Attempt, ~AlreadyRunning, Enter("monitor"), UNCHANGED entry
    PROVE  Records'
  <1>1. /\ due /\ ~due' /\ due' \in BOOLEAN /\ ~Healthy(health)
        /\ starting'["monitor"] /\ ~starting["monitor"]
        /\ UNCHANGED <<daemon, workers, entry>>
    BY StartingStep DEF Attempt, Enter, DInv, DaemonTypeOK
  <1>2. daemon \in {"background_sync", "auto_shutdown", "ip_scanner"}
    BY RecordFacts
  <1>3. Counted = 3 /\ entry.failures >= 2 /\ entry.failures \in 0..3
    BY RecordFacts DEF Attempt, Counted
  <1>4. EntryType' /\ entry'.failures = entry.failures
    BY <1>1, RecordFacts DEF EntryType, DInv, DaemonTypeOK
  <1> DEFINE st == IF daemon = "background_sync" THEN health.status ELSE "running"
  <1>5. health' = [status |-> st, sync |-> health.sync, check |-> health.check,
                   error |-> health.error]
    BY FieldSet, RecordFacts, TypeFacts DEF Enter, DInv
  <1>6. AgeIn(health.sync, health.check) = AgeOf(health)
    BY DEF AgeIn, AgeOf
  <1>7. st = "running" => AgeOf(health) >= Oldest
    <2>1. CASE health.status = "running"
      BY <1>1, <1>3, <2>1, OverAge, RecordFacts
    <2>2. CASE health.status = "stopped" /\ daemon # "background_sync"
      BY <2>2, RecordFacts DEF DInv, StoppedInv, AgeOf
    <2>3. QED
      BY <2>1, <2>2, RecordFacts
  <1>8. st = "stopped" =>
           /\ Alive' = 0
           /\ health.sync = Never /\ health.check = Never /\ Untouched'
    <2>1. CASE daemon = "background_sync"
      BY <1>1, <2>1 DEF AlreadyRunning, DInv, Threads, StoppedInv, Alive, Untouched, Nobody, FlagInv
    <2>2. CASE daemon # "background_sync"
      BY <2>2
    <2>3. QED
      BY <2>1, <2>2
  <1>9. st \in {"stopped", "running"}
    BY RecordFacts
  <1>10. daemon # "auto_shutdown" => health.check = Never
    BY DEF DInv, StoppedInv
  <1>11. AgeOf(health) \in Nat
    BY RecordFacts DEF AgeOf
  <1>12. st = "running" => AgeOf(health) >= IF entry.failures >= 3 THEN Oldest
                          ELSE MaxAge[daemon] + entry.failures + (IF due' THEN 1 ELSE 0)
    BY <1>1, <1>3, <1>7, <1>11, RecordFacts
  <1> HIDE DEF st
  <1>13. QED
    BY <1>1, <1>3, <1>4, <1>5, <1>6, <1>7, <1>8, <1>9, <1>10, <1>12, RecordFacts, RecordsFrom

(* The application enters the start function... *)
LEMMA AppStartRecords == ASSUME DInv, NEW a \in Apps, AppStart(a) PROVE Records'
  <1>1. /\ starting'["monitor"] = starting["monitor"] /\ starting'[a]
        /\ UNCHANGED <<daemon, workers, entry, restarts, due>>
        /\ ~AlreadyRunning /\ Enter(a)
    BY StartingStep DEF AppStart, Enter, DInv, DaemonTypeOK
  <1>2. daemon \in {"background_sync", "auto_shutdown", "ip_scanner"}
    BY RecordFacts
  <1>3. EntryType' /\ entry'.failures = entry.failures /\ due' \in BOOLEAN
    BY <1>1, RecordFacts DEF EntryType, DInv, DaemonTypeOK
  <1> DEFINE st == IF daemon = "background_sync" THEN health.status ELSE "running"
  <1>4. health' = [status |-> st, sync |-> health.sync, check |-> health.check,
                   error |-> health.error]
    BY <1>1, FieldSet, RecordFacts, TypeFacts DEF Enter, DInv
  <1>5. AgeIn(health.sync, health.check) = AgeOf(health) /\ AgeOf(health) \in Nat
    BY RecordFacts DEF AgeIn, AgeOf
  <1>6. health.status = "stopped" =>
           health.sync = Never /\ health.check = Never /\ AgeOf(health) >= Oldest
    BY <1>1, RecordFacts DEF DInv, StoppedInv, AgeOf, AlreadyRunning
  <1>7. st = "stopped" =>
           /\ Alive' = 0
           /\ health.sync = Never /\ health.check = Never /\ Untouched'
    BY <1>1, <1>2 DEF AlreadyRunning, DInv, Threads, StoppedInv, Alive, Untouched, Nobody
  <1>8. st = "running" /\ entry.failures > 0 =>
           \/ PassesAt(AgeOf(health))
           \/ AgeOf(health) >= IF entry.failures >= 3 THEN Oldest
                          ELSE MaxAge[daemon] + entry.failures + (IF due' THEN 1 ELSE 0)
    <2>1. CASE health.status = "running"
      BY <1>1, <2>1, RecordFacts DEF DInv, SilentInv, Silent, Passes, PassesAt
    <2>2. CASE health.status = "stopped"
      BY <1>1, <1>3, <1>5, <1>6, <2>2, RecordFacts
    <2>3. QED
      BY <2>1, <2>2, RecordFacts
  <1>9. starting'["monitor"] =>
           /\ ~due' /\ entry.failures >= 2
           /\ st = "running" => PassesAt(AgeOf(health)) \/ AgeOf(health) >= Oldest
    BY <1>1, <1>6, RecordFacts DEF DInv, SilentInv, Passes, PassesAt
  <1>10. st \in {"stopped", "running"} /\ (daemon # "auto_shutdown" => health.check = Never)
    BY RecordFacts DEF DInv, StoppedInv
  <1> HIDE DEF st
  <1>11. QED
    BY <1>1, <1>3, <1>4, <1>5, <1>7, <1>8, <1>9, <1>10, RecordFacts, RecordsFrom

(* ...and leaves it, with a new thread or without one. *)
LEMMA AppLaunchRecords == ASSUME DInv, NEW a \in Apps, AppLaunch(a) PROVE Records'
  <1>1. /\ starting'["monitor"] = starting["monitor"] /\ ~starting'[a]
        /\ starting[a]
        /\ UNCHANGED <<daemon, entry, restarts, due>>
    BY StartingStep DEF AppLaunch, DInv, DaemonTypeOK
  <1>2. PICK st \in {"stopped", "running"} :
           /\ st = "stopped" => health.status = "stopped" /\ UNCHANGED <<workers, flag>>
           /\ health.status = "running" => st = "running"
           /\ health' = [status |-> st, sync |-> health.sync, check |-> health.check,
                         error |-> health.error]
    <2>1. CASE Launched /\ health' = Registered(health)
      <3>1. health' = [status |-> "running", sync |-> health.sync, check |-> health.check,
                       error |-> health.error]
        BY <2>1, ReportIs, RecordFacts, TypeFacts DEF DInv
      <3>2. QED
        BY <3>1
    <2>2. CASE UNCHANGED <<workers, flag, health>>
      BY <2>2, RecordFacts
    <2>3. QED
      BY <2>1, <2>2 DEF AppLaunch, NotLaunched
  <1>3. EntryType' /\ entry'.failures = entry.failures /\ due' \in BOOLEAN
    BY <1>1, RecordFacts DEF EntryType, DInv, DaemonTypeOK
  <1>4. AgeIn(health.sync, health.check) = AgeOf(health) /\ AgeOf(health) \in Nat
    BY RecordFacts DEF AgeIn, AgeOf
  <1>5. health.status = "stopped" => health.check = Never /\ (health.sync = Never \/ health.sync = 0)
    BY <1>1, RecordFacts DEF DInv, StoppedInv, Untouched, Nobody
  <1>6. health.status = "stopped" => PassesAt(AgeOf(health)) \/ AgeOf(health) = Never
    BY <1>5, ZeroPasses DEF AgeOf
  <1>7. st = "stopped" =>
           /\ Alive' = 0
           /\ \/ health.sync = Never /\ health.check = Never /\ Untouched'
              \/ daemon = "background_sync" /\ flag' /\ health.sync = 0
    BY <1>1, <1>2 DEF DInv, StoppedInv, Alive, Untouched, Nobody
  <1>8. st = "running" /\ entry.failures > 0 =>
           \/ PassesAt(AgeOf(health))
           \/ AgeOf(health) >= IF entry.failures >= 3 THEN Oldest
                          ELSE MaxAge[daemon] + entry.failures + (IF due' THEN 1 ELSE 0)
    <2>1. CASE health.status = "running"
      BY <1>1, <2>1, RecordFacts DEF DInv, SilentInv, Silent, Passes, PassesAt
    <2>2. CASE health.status = "stopped"
      BY <1>1, <1>3, <1>4, <1>6, <2>2, RecordFacts
    <2>3. QED
      BY <2>1, <2>2, RecordFacts
  <1>9. starting'["monitor"] =>
           /\ ~due' /\ entry.failures >= 2
           /\ st = "running" => PassesAt(AgeOf(health)) \/ AgeOf(health) >= Oldest
    BY <1>1, <1>6, RecordFacts DEF DInv, SilentInv, Passes, PassesAt
  <1>10. daemon # "auto_shutdown" => health.check = Never
    BY DEF DInv, StoppedInv
  <1>11. QED
    BY <1>1, <1>2, <1>3, <1>4, <1>7, <1>8, <1>9, <1>10, RecordFacts, RecordsFrom

(* The start the monitor began is over. *)
LEMMA MonitorLaunchRecords == ASSUME DInv, MonitorLaunch PROVE Records'
  <1>1. /\ ~starting'["monitor"] /\ \A a \in Apps : starting'[a] = starting[a]
        /\ starting["monitor"]
        /\ UNCHANGED <<daemon, restarts, due>>
    BY StartingStep DEF MonitorLaunch, DInv, DaemonTypeOK
  <1>2. PICK st \in {"stopped", "running"}, k \in {0, 3}, er \in BOOLEAN :
           /\ st = "stopped" => health.status = "stopped" /\ UNCHANGED <<workers, flag>>
           /\ k = 3 => st = health.status
           /\ EntryType' /\ entry'.failures = k
           /\ health' = [status |-> st, sync |-> 0, check |-> health.check, error |-> er]
    <2>1. CASE Launched /\ Restarted(Registered(health))
      <3> DEFINE g == Registered(health)
      <3>1. g = [status |-> "running", sync |-> health.sync, check |-> health.check,
                 error |-> health.error]
        BY ReportIs, RecordFacts, TypeFacts DEF DInv
      <3>2. g \in Health
        BY ReportAge, RecordFacts, TypeFacts DEF DInv
      <3>3. health' = MonitorReport(g, FALSE)
        BY <2>1 DEF Restarted
      <3> HIDE DEF g
      <3>4. health' = [status |-> g.status, sync |-> 0, check |-> g.check, error |-> FALSE]
        BY <3>2, <3>3, ReportIs
      <3>5. health' = [status |-> "running", sync |-> 0, check |-> health.check,
                       error |-> FALSE]
        BY <3>1, <3>4
      <3>6. EntryType' /\ entry'.failures = 0
        BY <2>1, EntryOf DEF Restarted
      <3> DEFINE st == "running"
                 k  == 0
                 er == FALSE
      <3>7. /\ st = "stopped" => health.status = "stopped" /\ UNCHANGED <<workers, flag>>
            /\ k = 3 => st = health.status
            /\ EntryType' /\ entry'.failures = k
            /\ health' = [status |-> st, sync |-> 0, check |-> health.check, error |-> er]
            /\ st \in {"stopped", "running"} /\ k \in {0, 3} /\ er \in BOOLEAN
        BY <3>5, <3>6
      <3> HIDE DEF st, k, er
      <3>8. QED
        BY <3>7
    <2>2. CASE RestartFailed(health) /\ UNCHANGED <<workers, flag>>
      <3>1. health' = [status |-> health.status, sync |-> 0, check |-> health.check,
                       error |-> TRUE]
        BY <2>2, ReportIs, RecordFacts, TypeFacts DEF RestartFailed, DInv
      <3>2. EntryType' /\ entry'.failures = 3
        BY <2>2, EntryOf DEF RestartFailed
      <3>3. QED
        BY <2>2, <3>1, <3>2, RecordFacts
    <2>3. QED
      BY <2>1, <2>2 DEF MonitorLaunch, NotLaunched
  <1>3. due' \in BOOLEAN
    BY <1>1, RecordFacts
  <1> DEFINE sy == 0
  <1>4. AgeIn(sy, health.check) \in {0, AgeOf(health)}
    BY DEF AgeIn, AgeOf
  <1>5. st = "stopped" =>
           /\ Alive' = 0 /\ daemon = "background_sync" /\ flag'
           /\ (Nobody') \/ sy = 0
    <2>1. CASE health.status = "stopped" /\ UNCHANGED <<workers, flag>>
      BY <1>1, <2>1 DEF DInv, StoppedInv, Alive, Untouched, Nobody, FlagInv
    <2>2. QED
      BY <1>2, <2>1
  <1>6. st = "running" /\ k > 0 =>
           \/ PassesAt(AgeIn(sy, health.check))
           \/ AgeIn(sy, health.check) >= IF k >= 3 THEN Oldest
                          ELSE MaxAge[daemon] + k + (IF due' THEN 1 ELSE 0)
    <2>1. CASE AgeIn(sy, health.check) = 0
      BY <2>1, ZeroPasses
    <2>2. CASE AgeIn(sy, health.check) = AgeOf(health) /\ st = "running" /\ k = 3
      BY <1>1, <1>2, <2>2, RecordFacts DEF DInv, SilentInv, Passes, PassesAt
    <2>3. QED
      BY <1>2, <1>4, <2>1, <2>2
  <1>7. /\ daemon # "auto_shutdown" => health.check = Never
        /\ sy \in Nat /\ sy <= Never /\ k \in 0..3
        /\ health' = [status |-> st, sync |-> sy, check |-> health.check, error |-> er]
    BY <1>2, RecordFacts DEF DInv, StoppedInv
  <1> HIDE DEF sy
  <1>8. QED
    BY <1>1, <1>2, <1>3, <1>5, <1>6, <1>7, RecordFacts, RecordsFrom

LEMMA RecordsNext == ASSUME DInv, DaemonNext PROVE Records'
  <1>1. CASE Attempt
    BY <1>1, RefusedStartRecords, BegunRecords DEF Attempt
  <1>2. QED
    BY <1>1, QuietRecords, RoundRecords, TickRecords, FailRecords, RefuseRecords,
       AppStartRecords, AppLaunchRecords, MonitorLaunchRecords DEF DaemonNext, Check

LEMMA BreaksNext == ASSUME DInv, DaemonNext PROVE breaks' \in 0..MaxBreaks
  <1>1. breaks \in 0..MaxBreaks
    BY DEF DInv, DaemonTypeOK
  <1>2. breaks' = breaks \/ Breaking
    BY DEF DaemonNext, Check, AppStart, AppLaunch, Register, Round, Hang, Return, Die, Tick,
           CheckHealthy, CheckFails, Refuse, Attempt, MonitorLaunch, NotLaunched
  <1>3. QED
    BY <1>1, <1>2 DEF Breaking

LEMMA DInvNext ==
    ASSUME DInv, RestartLimit, [DaemonNext]_daemonVars
    PROVE  DInv' /\ RestartLimit'
  <1>1. CASE DaemonNext
    <2>1. /\ Threads' /\ FlagInv' /\ daemon' = daemon
          /\ workers' \in Workers /\ flag' \in BOOLEAN
          /\ last' \in {"gone", "works", "hangs"}
          /\ starting' \in [Starters -> BOOLEAN]
      BY <1>1, ThreadsNext DEF DInv
    <2>2. RestartLimit' /\ restarts' \in SUBSET (0..Hour)
      BY <1>1, <2>1, LimitNext DEF DInv
    <2>3. Records'
      BY <1>1, RecordsNext
    <2>4. breaks' \in 0..MaxBreaks
      BY <1>1, BreaksNext
    <2>5. health'.sync \in 0..Never' /\ health'.check \in 0..Never'
      <3>1. Never' \in Nat
        BY <2>1, RecordFacts DEF Never, Oldest
      <3>2. QED
        BY <2>3, <3>1 DEF Records, HealthType, Health
    <2>6. DaemonTypeOK'
      BY <2>1, <2>2, <2>3, <2>4, <2>5, RecordFacts DEF DaemonTypeOK, Records, HealthType, EntryType
    <2>7. QED
      BY <2>1, <2>2, <2>3, <2>6 DEF DInv, Records
  <1>2. CASE UNCHANGED daemonVars
    <2>1. /\ UNCHANGED <<daemon, flag, workers, last, health, entry, restarts, starting, due, breaks>>
      BY <1>2 DEF daemonVars
    <2>2. DaemonTypeOK'
      BY <2>1 DEF DInv, DaemonTypeOK, Never, Oldest
    <2>3. Threads' /\ FlagInv'
      BY <2>1 DEF DInv, Threads, FewWorkers, FlagInv, Alive, Inside, Nobody
    <2>4. StoppedInv'
      BY <2>1 DEF DInv, StoppedInv, Untouched, Nobody, Alive, Never, Oldest
    <2>5. SilentInv'
      BY <2>1 DEF DInv, SilentInv, Passes, Silent, AgeOf, Never, Oldest
    <2>6. RestartLimit'
      BY <2>1 DEF RestartLimit, InHour
    <2>7. QED
      BY <2>2, <2>3, <2>4, <2>5, <2>6 DEF DInv
  <1>3. QED
    BY <1>1, <1>2

LEMMA DInvInit == ASSUME DaemonInit PROVE DInv /\ RestartLimit
  <1>1. /\ daemon \in Watched /\ flag = FALSE /\ restarts = {} /\ due = TRUE /\ breaks = 0
        /\ workers = [works |-> 0, hangs |-> 0] /\ last = "gone"
        /\ health = [status |-> "stopped", sync |-> Never, check |-> Never, error |-> FALSE]
        /\ entry = [failures |-> 0, status |-> "unknown"]
        /\ starting = [s \in Starters |-> FALSE]
    BY DEF DaemonInit, FreshEntry
  <1>2. health \in Health /\ workers \in Workers /\ entry \in Entry
    BY <1>1, NumberTypes DEF Health, Workers, Entry
  <1>3. DaemonTypeOK
    <2>1. /\ health.sync \in 0..Never /\ health.check \in 0..Never
          /\ entry.status # "healthy"
      BY <1>1, NumberTypes
    <2>2. restarts \subseteq 0..Hour /\ starting \in [Starters -> BOOLEAN]
      BY <1>1
    <2>3. breaks \in 0..MaxBreaks
      BY <1>1
    <2>4. QED
      BY <1>1, <1>2, <2>1, <2>2, <2>3 DEF DaemonTypeOK
  <1>4. Threads /\ FlagInv /\ StoppedInv /\ SilentInv
    <2>1. /\ workers.works = 0 /\ workers.hangs = 0
          /\ health.sync = Never /\ health.check = Never /\ health.status = "stopped"
          /\ Nobody /\ entry.failures = 0 /\ Alive = 0
      BY <1>1 DEF Nobody, Alive
    <2>2. Threads /\ FlagInv
      <3>1. /\ Cardinality(Inside) = 0 /\ Cardinality(Starters) \in Nat
            /\ Cardinality(Starters) > 0
        BY <1>3, <2>1, InsideFacts
      <3>2. /\ Cardinality(Starters) * breaks = 0
            /\ Cardinality(Starters) * (breaks + 1) = Cardinality(Starters)
        BY <1>1, <1>3, <3>1, BoundsGrow
      <3>3. QED
        BY <1>1, <2>1, <3>1, <3>2 DEF Threads, FewWorkers, FlagInv
    <2>3. StoppedInv
      <3>1. Alive = 0 /\ Untouched
        BY <1>1, <2>1 DEF Untouched, Alive
      <3>2. QED
        BY <2>1, <3>1 DEF StoppedInv
    <2>4. SilentInv
      BY <2>1 DEF SilentInv, Nobody
    <2>5. QED
      BY <2>2, <2>3, <2>4
  <1>5. RestartLimit
    <2>1. InHour = {}
      BY <1>1 DEF InHour
    <2>2. QED
      BY <1>1, <2>1, FS_EmptySet, NumberTypes DEF RestartLimit
  <1>6. QED
    BY <1>3, <1>4, <1>5 DEF DInv

LEMMA DInvAlways == DaemonSpec => [](DInv /\ RestartLimit)
  <1>1. DaemonInit => DInv /\ RestartLimit
    BY DInvInit
  <1>2. DInv /\ RestartLimit /\ [DaemonNext]_daemonVars => (DInv /\ RestartLimit)'
    BY DInvNext
  <1>3. QED
    BY <1>1, <1>2, PTL DEF DaemonSpec

(* For every age limit, hour, number of faults and of applications created at
   once: one thread of background_sync, as many of the others as FewWorkers
   counts, no more attempts in an hour than allowed (background_sync.py,
   start_background_sync; daemon_monitor.py, _attempt_restart). *)
THEOREM DaemonsAreFew == DaemonSpec => []DaemonInv
  <1>1. DInv /\ RestartLimit => DaemonInv
    BY DEF DInv, Threads, DaemonInv
  <1>2. QED
    BY <1>1, DInvAlways, PTL

(* No restart is tried before three checks in a row saw no report
   (daemon_monitor.py, _check_all_daemons). *)
THEOREM SilenceFirst == DaemonSpec => AttemptNeedsSilence
  <1>1. DInv /\ [DaemonNext]_daemonVars =>
           [Attempt => health.status = "stopped" \/ AgeOf(health) >= Oldest]_daemonVars
    <2> SUFFICES ASSUME DInv, Attempt
                 PROVE  health.status = "stopped" \/ AgeOf(health) >= Oldest
      OBVIOUS
    <2>1. due /\ ~Healthy(health) /\ Counted = 3
      BY RecordFacts DEF Attempt, Counted
    <2>2. QED
      BY <2>1, OverAge, RecordFacts
  <1>2. QED
    BY <1>1, DInvAlways, PTL DEF DaemonSpec, AttemptNeedsSilence

-----------------------------------------------------------------------------
(* The auto-shutdown daemon.                                                 *)

(* Hours after the start of the range, round the clock. *)
LEMMA RoundTheClock ==
    ASSUME AutoAssumption, NEW h \in Hours, NEW s \in Hours
    PROVE  FromStart(h, s) = IF h >= s THEN h - s ELSE h + Day - s
  <1>1. Day \in Nat \ {0} /\ h \in 0..(Day - 1) /\ s \in 0..(Day - 1)
    BY DEF AutoAssumption, Hours
  <1>2. CASE h >= s
    <2> DEFINE d == h - s
    <2>1. d \in 0..(Day - 1) /\ h + Day - s = d + Day
      BY <1>1, <1>2
    <2> HIDE DEF d
    <2>2. (d + Day) % Day = d
      BY <1>1, <2>1
    <2>3. QED
      BY <1>2, <2>1, <2>2 DEF FromStart, d
  <1>3. CASE h < s
    <2> DEFINE d == h + Day - s
    <2>1. d \in 0..(Day - 1)
      BY <1>1, <1>3
    <2> HIDE DEF d
    <2>2. d % Day = d
      BY <1>1, <2>1
    <2>3. QED
      BY <1>1, <1>3, <2>2 DEF FromStart, d
  <1>4. QED
    BY <1>1, <1>2, <1>3

(* The daemon's two comparisons are the walk round the clock. *)
LEMMA WithinIsBefore ==
    ASSUME AutoAssumption, NEW h \in Hours, NEW s \in Hours, NEW e \in Hours
    PROVE  is_within_allowed_hours(h, s, e) <=> FromStart(h, s) < FromStart(e, s)
  <1>1. Day \in Nat \ {0} /\ h \in 0..(Day - 1) /\ s \in 0..(Day - 1) /\ e \in 0..(Day - 1)
    BY DEF AutoAssumption, Hours
  <1>2. QED
    BY <1>1, RoundTheClock DEF is_within_allowed_hours

LEMMA AutoTypeNext ==
    ASSUME AutoAssumption, AutoTypeOK, [AutoNext]_autoVars
    PROVE  AutoTypeOK'
  <1>1. Day \in Nat \ {0}
    BY DEF AutoAssumption
  <1>2. CASE ClockStrikes
    <2>1. hour' \in Hours
      BY <1>1, <1>2 DEF ClockStrikes, AutoTypeOK, Hours
    <2>2. QED
      BY <1>2, <2>1 DEF ClockStrikes, AutoTypeOK
  <1>3. CASE update_class_settings
    BY <1>3 DEF update_class_settings, AutoTypeOK, AutoAssumption
  <1>4. ASSUME NEW v \in LabVms, UseVm(v) PROVE AutoTypeOK'
    <2>1. power' \in [LabVms -> Power]
      <3>1. \A q \in Power, b \in BOOLEAN :
               [q EXCEPT !.runs = b] \in Power /\ [q EXCEPT !.idle = b] \in Power
        BY DEF Power
      <3>2. /\ power[v] \in Power
            /\ (~power[v].runs) \in {TRUE, FALSE} /\ (~power[v].idle) \in {TRUE, FALSE}
        BY DEF AutoTypeOK
      <3> DEFINE r == [power[v] EXCEPT !.runs = ~power[v].runs]
                 i == [power[v] EXCEPT !.idle = ~power[v].idle]
      <3>3. power' = [power EXCEPT ![v] = r] \/ power' = [power EXCEPT ![v] = i]
        <4>1. \/ power' = [power EXCEPT ![v].runs = ~@]
              \/ power' = [power EXCEPT ![v].idle = ~@]
          BY <1>4 DEF UseVm
        <4>2. QED
          BY <4>1, Zenon
      <3>4. r \in Power /\ i \in Power
        BY <3>1, <3>2
      <3> HIDE DEF r, i
      <3>5. QED
        BY <3>3, <3>4 DEF AutoTypeOK
    <2>2. QED
      BY <1>4, <2>1 DEF UseVm, AutoTypeOK
  <1>5. CASE BeginRound
    <2>1. patrol' \in Patrol
      BY <1>5 DEF BeginRound, Patrol, AutoTypeOK
    <2>2. QED
      BY <1>5, <2>1 DEF BeginRound, AutoTypeOK
  <1>6. CASE EndRound
    <2>1. 0 \in Hours
      BY <1>1 DEF Hours
    <2>2. patrol' \in Patrol
      BY <1>6, <2>1 DEF EndRound, Patrol, AutoTypeOK
    <2>3. QED
      BY <1>6, <2>2 DEF EndRound, AutoTypeOK
  <1>7. ASSUME NEW v \in LabVms, ShutDown(v) \/ LeaveOn(v) \/ CheckIdle(v)
        PROVE  AutoTypeOK'
    <2>1. patrol' \in Patrol
      BY <1>7 DEF ShutDown, LeaveOn, CheckIdle, Visit, Patrol, AutoTypeOK
    <2>2. power' \in [LabVms -> Power]
      BY <1>7 DEF ShutDown, LeaveOn, CheckIdle, Power, AutoTypeOK
    <2>3. QED
      BY <1>7, <2>1, <2>2 DEF ShutDown, LeaveOn, CheckIdle, Visit, AutoTypeOK
  <1>8. CASE UNCHANGED autoVars
    BY <1>8 DEF autoVars, AutoTypeOK
  <1>9. QED
    BY <1>2, <1>3, <1>4, <1>5, <1>6, <1>7, <1>8 DEF AutoNext, AutoStep

LEMMA AutoTypeInit == ASSUME AutoAssumption, AutoInit PROVE AutoTypeOK
  <1>1. 0 \in Hours
    BY DEF AutoAssumption, Hours
  <1>2. setting \in Setting
    BY DEF AutoInit, AutoAssumption
  <1>3. QED
    BY <1>1, <1>2 DEF AutoInit, AutoTypeOK, Power, Patrol

LEMMA AutoTypeAlways == AutoSpec => []AutoTypeOK
  <1>1. AutoInit => AutoTypeOK
    BY AutoTypeInit, AutoAssumption
  <1>2. AutoTypeOK /\ [AutoNext]_autoVars => AutoTypeOK'
    BY AutoTypeNext, AutoAssumption
  <1>3. QED
    BY <1>1, <1>2, PTL DEF AutoSpec

(* For every length of the day, every range and every order of the clock, the
   settings page and the daemon: no VM is shut down within the allowed hours
   of its round (auto_shutdown_service.py, is_within_allowed_hours). *)
THEOREM OnlyOutside == AutoSpec => StopsOnlyOutside
  <1>1. AutoTypeOK /\ [AutoNext]_autoVars =>
          [\A v \in LabVms :
              patrol' # patrol /\ power[v].runs /\ ~power'[v].runs =>
                 /\ patrol.set.restrict
                 /\ ~(FromStart(patrol.hour, patrol.set.start)
                         < FromStart(patrol.set.end, patrol.set.start))]_autoVars
    <2> SUFFICES ASSUME AutoTypeOK, AutoNext, NEW v \in LabVms,
                        patrol' # patrol, power[v].runs, ~power'[v].runs
                 PROVE  /\ patrol.set.restrict
                        /\ ~(FromStart(patrol.hour, patrol.set.start)
                                < FromStart(patrol.set.end, patrol.set.start))
      OBVIOUS
    <2>1. PICK w \in LabVms : ShutDown(w)
      BY DEF AutoNext, AutoStep, ClockStrikes, update_class_settings, UseVm, BeginRound,
             EndRound, LeaveOn, CheckIdle
    <2>2. /\ patrol.set.restrict
          /\ ~is_within_allowed_hours(patrol.hour, patrol.set.start, patrol.set.end)
      BY <2>1 DEF ShutDown, Outside
    <2>3. patrol.hour \in Hours /\ patrol.set.start \in Hours /\ patrol.set.end \in Hours
      BY DEF AutoTypeOK, Patrol, Setting
    <2>4. QED
      BY <2>2, <2>3, WithinIsBefore, AutoAssumption
  <1>2. QED
    BY <1>1, AutoTypeAlways, PTL DEF AutoSpec, StopsOnlyOutside
=============================================================================
