--------------------------- MODULE SshPoolProofs ---------------------------
(***************************************************************************)
(* Proofs about SshPool for every number of hosts, threads and executors,   *)
(* every limit and every timeout: the pool never holds more connections     *)
(* than MAX_CONNECTIONS and never one under two hosts, and a connection     *)
(* leaves it open only from a full pool.                                    *)
(***************************************************************************)
EXTENDS SshPool, FiniteSetTheorems, TLAPS

USE SshAssumption

(* What SshPoolInv says of the pool. *)
Pool == [Hosts -> Executors \cup {NoExecutor}]
Sound(p) ==
    /\ p \in Pool
    /\ Cardinality(InPool(p)) <= MaxConnections
    /\ \A g, h \in Hosts : p[g] = p[h] /\ p[g] # NoExecutor => g = h

(* q is p without some of its entries. *)
Shrinks(p, q) == q \in Pool /\ \A h \in Hosts : q[h] \in {p[h], NoExecutor}

LEMMA InvIsSound == SshPoolInv <=> SshTypeOK /\ Sound(pool)
  BY DEF SshPoolInv, SshTypeOK, Sound, Pool

LEMMA EntriesFinite ==
    ASSUME NEW p
    PROVE  IsFiniteSet(InPool(p)) /\ Cardinality(InPool(p)) \in Nat
  <1>1. InPool(p) \in SUBSET Hosts
    BY DEF InPool
  <1>2. IsFiniteSet(InPool(p))
    BY <1>1, FS_Subset
  <1>3. QED
    BY <1>2, FS_CardinalityType

LEMMA ShrinksIsSound ==
    ASSUME NEW p, NEW q, Sound(p), Shrinks(p, q)
    PROVE  Sound(q) /\ Cardinality(InPool(q)) <= Cardinality(InPool(p))
  <1>1. InPool(q) \in SUBSET InPool(p)
    BY DEF InPool, Shrinks
  <1>2. Cardinality(InPool(q)) <= Cardinality(InPool(p))
    BY <1>1, EntriesFinite, FS_Subset
  <1>3. Cardinality(InPool(q)) <= MaxConnections
    BY <1>2, EntriesFinite DEF Sound
  <1>4. \A g, h \in Hosts : q[g] = q[h] /\ q[g] # NoExecutor => g = h
    BY DEF Sound, Shrinks
  <1>5. QED
    BY <1>2, <1>3, <1>4 DEF Sound, Shrinks

(* Dropping an entry, and the stale ones. *)
LEMMA DropShrinks ==
    ASSUME NEW p \in Pool, NEW h \in Hosts
    PROVE  Shrinks(p, Put(p, h, NoExecutor))
  BY DEF Pool, Shrinks, Put

LEMMA FreshShrinks ==
    ASSUME pool \in Pool
    PROVE  Shrinks(pool, Fresh)
  BY DEF Pool, Shrinks, Fresh

LEMMA ShrinksTwice ==
    ASSUME NEW p, NEW q, NEW r, Shrinks(p, q), Shrinks(q, r)
    PROVE  Shrinks(p, r)
  BY DEF Shrinks

(* There is always an entry to push out, and room for one more without it. *)
LEMMA RoomIsMade ==
    ASSUME NEW p, Sound(p), NEW room \in MakeRoom(p)
    PROVE  Shrinks(p, room) /\ Cardinality(InPool(room)) < MaxConnections
  <1>1. CASE Cardinality(InPool(p)) < MaxConnections
    <2>1. room = p
      BY <1>1 DEF MakeRoom
    <2>2. QED
      BY <1>1, <2>1 DEF Sound, Shrinks
  <1>2. CASE ~(Cardinality(InPool(p)) < MaxConnections)
    <2>1. PICK h \in InPool(p) : room = Put(p, h, NoExecutor)
      BY <1>2 DEF MakeRoom
    <2>2. h \in Hosts /\ p \in Pool
      BY DEF InPool, Sound
    <2>3. Shrinks(p, room)
      BY <2>1, <2>2, DropShrinks
    <2>4. InPool(room) = InPool(p) \ {h}
      BY <2>1, <2>2 DEF InPool, Put, Pool
    <2>5. Cardinality(InPool(room)) = Cardinality(InPool(p)) - 1
      BY <2>4, EntriesFinite, FS_RemoveElement
    <2>6. Cardinality(InPool(p)) <= MaxConnections
      BY DEF Sound
    <2>7. QED
      BY <2>3, <2>5, <2>6, EntriesFinite
  <1>3. QED
    BY <1>1, <1>2

(* An executor that no entry has may be entered where there is room. *)
LEMMA EntryIsSound ==
    ASSUME NEW p, Sound(p), Cardinality(InPool(p)) < MaxConnections,
           NEW h \in Hosts, NEW x \in Executors, \A g \in Hosts : p[g] # x
    PROVE  Sound(Put(p, h, x))
  <1>1. p \in Pool
    BY DEF Sound
  <1>2. Put(p, h, x) \in Pool
    BY <1>1 DEF Put, Pool
  <1>3. InPool(Put(p, h, x)) = InPool(p) \cup {h}
    BY <1>1 DEF InPool, Put, Pool
  <1> DEFINE n == Cardinality(InPool(p))
  <1>4. n \in Nat /\ Cardinality(InPool(p) \cup {h}) \in {n, n + 1}
    <2>1. IsFiniteSet(InPool(p)) /\ n \in Nat
      BY EntriesFinite
    <2>2. Cardinality(InPool(p) \cup {h}) = IF h \in InPool(p) THEN n ELSE n + 1
      BY <2>1, FS_AddElement
    <2>3. QED
      BY <2>1, <2>2
  <1>5. Cardinality(InPool(Put(p, h, x))) <= MaxConnections
    <2>1. n < MaxConnections
      OBVIOUS
    <2>2. Cardinality(InPool(Put(p, h, x))) \in {n, n + 1}
      BY <1>3, <1>4
    <2> HIDE DEF n
    <2>3. QED
      BY <1>4, <2>1, <2>2
  <1>6. ASSUME NEW f \in Hosts, NEW g \in Hosts, Put(p, h, x)[f] = Put(p, h, x)[g],
               Put(p, h, x)[f] # NoExecutor
        PROVE  f = g
    BY <1>1, <1>6 DEF Sound, Put, Pool
  <1>7. QED
    BY <1>2, <1>5, <1>6 DEF Sound

(* The pool a new connection is entered in. *)
LEMMA OpenFindsRoom ==
    ASSUME Sound(pool), NEW h \in Hosts, NEW room \in MakeRoom(Put(Fresh, h, NoExecutor))
    PROVE  /\ Sound(room)
           /\ Shrinks(pool, room)
           /\ Cardinality(InPool(room)) < MaxConnections
  <1> DEFINE left == Put(Fresh, h, NoExecutor)
  <1>1. Shrinks(pool, Fresh)
    BY FreshShrinks DEF Sound
  <1>2. Shrinks(Fresh, left)
    BY <1>1, DropShrinks DEF Shrinks
  <1>3. Shrinks(pool, left)
    BY <1>1, <1>2, ShrinksTwice
  <1>4. Sound(left)
    BY <1>3, ShrinksIsSound
  <1> HIDE DEF left
  <1>5. room \in MakeRoom(left)
    BY DEF left
  <1>6. Shrinks(left, room) /\ Cardinality(InPool(room)) < MaxConnections
    BY <1>4, <1>5, RoomIsMade
  <1>7. QED
    BY <1>3, <1>4, <1>6, ShrinksTwice, ShrinksIsSound

-----------------------------------------------------------------------------
(* Types.                                                                    *)

LEMMA LinkTypes ==
    ASSUME SshTypeOK
    PROVE  StaleLink \in [Executors -> Link]
  BY DEF SshTypeOK, StaleLink, Link

LEMMA HoldType ==
    ASSUME SshTypeOK, NEW t \in Threads, NEW u \in Uses, NEW x \in Executors, Hold(t, u, x)
    PROVE  /\ thread' \in [Threads -> Thread]
           /\ \A s \in Threads : thread'[s].pc = "off" <=> thread'[s].has = NoExecutor
  BY DEF SshTypeOK, Hold, Thread, ThreadPC

LEMMA GetType ==
    ASSUME SshTypeOK, NEW t \in Threads, NEW u \in Uses, NEW x \in Executors, Get(t, u, x)
    PROVE  /\ thread' \in [Threads -> Thread]
           /\ \A s \in Threads : thread'[s].pc = "off" <=> thread'[s].has = NoExecutor
           /\ cached' \in [Threads -> Executors \cup {NoExecutor}]
  <1>1. cached' \in [Threads -> Executors \cup {NoExecutor}]
    BY DEF Get, SshTypeOK
  <1>2. QED
    BY <1>1, HoldType DEF Get

LEMMA LeaveType ==
    ASSUME SshTypeOK, NEW t \in Threads, Leave(t)
    PROVE  /\ thread' \in [Threads -> Thread]
           /\ \A s \in Threads : thread'[s].pc = "off" <=> thread'[s].has = NoExecutor
           /\ cached' \in [Threads -> Executors \cup {NoExecutor}]
           /\ thread'[t].pc = "off"
  <1>1. Off \in Thread /\ Off.pc = "off" /\ Off.has = NoExecutor
    BY DEF Off, Thread, ThreadPC, Uses
  <1> HIDE DEF Off
  <1>2. QED
    BY <1>1 DEF SshTypeOK, Leave

LEMMA GoType ==
    ASSUME SshTypeOK, NEW t \in Threads, thread[t].pc # "off",
           NEW pc \in {"ready", "running", "failed"},
           thread' = [thread EXCEPT ![t].pc = pc]
    PROVE  /\ thread' \in [Threads -> Thread]
           /\ \A s \in Threads : thread'[s].pc = "off" <=> thread'[s].has = NoExecutor
  BY DEF SshTypeOK, Thread, ThreadPC

LEMMA HasExecutor ==
    ASSUME SshTypeOK, NEW t \in Threads, thread[t].pc # "off"
    PROVE  thread[t].has \in Executors
  BY DEF SshTypeOK, Thread

LEMMA ReuseKeeps ==
    ASSUME SshTypeOK, Sound(pool), NEW t \in Threads, NEW u \in Uses, NEW h \in Hosts,
           Reuse(t, u, h)
    PROVE  SshTypeOK' /\ Sound(pool)'
  <1>1. Shrinks(pool, Fresh)
    BY FreshShrinks DEF Sound
  <1>2. Sound(Fresh)
    BY <1>1, ShrinksIsSound
  <1>3. Fresh[h] \in Executors
    BY <1>1 DEF Reuse, Shrinks, Pool
  <1>4. pool' = Fresh
    BY DEF Reuse
  <1>5. pool' \in Pool
    BY <1>2, <1>4 DEF Sound
  <1>6. idle' \in [Hosts -> 0..(IdleLimit + 1)]
    BY DEF Reuse, SshTypeOK, LastUsed
  <1>7. link' \in [Executors -> Link]
    BY LinkTypes DEF Reuse, Link
  <1>8. Get(t, u, Fresh[h])
    BY DEF Reuse
  <1>9. Sound(pool)'
    BY <1>2, <1>4 DEF Sound, InPool
  <1>10. QED
    BY <1>3, <1>5, <1>6, <1>7, <1>8, <1>9, GetType DEF SshTypeOK, Pool

LEMMA OpenKeeps ==
    ASSUME SshTypeOK, Sound(pool), NEW t \in Threads, NEW u \in Uses, NEW h \in Hosts,
           Open(t, u, h)
    PROVE  SshTypeOK' /\ Sound(pool)'
  <1> DEFINE left == Put(Fresh, h, NoExecutor)
             before(room) == PushedOut(Put(StaleLink, Fresh[h], "dead"), left, room)
  <1>1. PICK x \in Executors, room \in MakeRoom(left) :
           /\ Unused(x)
           /\ \/ /\ pool' = Put(room, h, x)
                 /\ link' = Put(before(room), x, "up")
                 /\ Get(t, u, x)
              \/ /\ pool' = room
                 /\ link' = before(room)
                 /\ UNCHANGED <<thread, cached>>
           /\ idle' = LastUsed(pool', h)
    BY DEF Open
  <1>2. /\ Sound(room)
        /\ Shrinks(pool, room)
        /\ Cardinality(InPool(room)) < MaxConnections
    BY OpenFindsRoom
  <1>3. before(room) \in [Executors -> Link]
    BY LinkTypes DEF PushedOut, Put, Link
  <1>4. Put(before(room), x, "up") \in [Executors -> Link]
    BY <1>3 DEF Put, Link
  <1>5. idle' \in [Hosts -> 0..(IdleLimit + 1)]
    BY <1>1 DEF SshTypeOK, LastUsed
  <1> HIDE DEF left, before
  <1>6. \A g \in Hosts : room[g] # x
    BY <1>1, <1>2 DEF Unused, Shrinks
  <1>7. CASE pool' = Put(room, h, x) /\ link' = Put(before(room), x, "up") /\ Get(t, u, x)
    <2>1. Sound(Put(room, h, x))
      BY <1>2, <1>6, EntryIsSound
    <2>2. Sound(pool)' /\ pool' \in Pool
      BY <1>7, <2>1 DEF Sound, InPool
    <2>3. QED
      BY <1>4, <1>5, <1>7, <2>2, GetType DEF SshTypeOK, Pool
  <1>8. CASE pool' = room /\ link' = before(room) /\ UNCHANGED <<thread, cached>>
    <2>1. Sound(pool)' /\ pool' \in Pool
      BY <1>2, <1>8 DEF Sound, InPool
    <2>2. QED
      BY <1>3, <1>5, <1>8, <2>1 DEF SshTypeOK, Pool
  <1>9. QED
    BY <1>1, <1>7, <1>8

(* Every other step leaves the pool alone. *)
LEMMA StepKeepsType ==
    ASSUME SshTypeOK, NEW t \in Threads, SshStep(t)
    PROVE  SshTypeOK' /\ UNCHANGED pool
  <1>1. CASE Connect(t)
    <2>1. thread[t].has \in Executors
      BY <1>1, HasExecutor DEF Connect
    <2>2. link' \in [Executors -> Link]
      BY <1>1, <2>1 DEF Connect, SshTypeOK, Link
    <2>3. PICK pc \in {"ready", "failed"} : thread' = [thread EXCEPT ![t].pc = pc]
      BY <1>1 DEF Connect
    <2>4. QED
      BY <1>1, <2>2, <2>3, GoType DEF Connect, SshTypeOK
  <1>2. CASE Execute(t) \/ Executed(t)
    <2>1. PICK pc \in {"ready", "running", "failed"} :
             thread' = [thread EXCEPT ![t].pc = pc]
      BY <1>2 DEF Execute, Executed
    <2>2. QED
      BY <1>2, <2>1, GoType DEF Execute, Executed, SshTypeOK
  <1>3. CASE EndOpen(t)
    BY <1>3, LeaveType DEF EndOpen, SshTypeOK
  <1>4. CASE EndClosed(t)
    <2>1. link' \in [Executors -> Link]
      BY <1>4 DEF EndClosed, Close, SshTypeOK, Link
    <2>2. QED
      BY <1>4, <2>1, LeaveType DEF EndClosed, Close, SshTypeOK
  <1>5. CASE Again(t)
    <2>1. cached[t] \in Executors /\ "cache" \in Uses
      BY <1>5 DEF Again, SshTypeOK, Uses
    <2>2. QED
      BY <1>5, <2>1, HoldType DEF Again, SshTypeOK
  <1>6. QED
    BY <1>1, <1>2, <1>3, <1>4, <1>5 DEF SshStep

LEMMA SoundNext == SshPoolInv /\ [SshNext]_sshVars => SshPoolInv'
  <1> SUFFICES ASSUME SshTypeOK, Sound(pool), [SshNext]_sshVars
               PROVE  SshTypeOK' /\ Sound(pool)'
    BY InvIsSound DEF SshPoolInv, SshTypeOK, Sound, Pool
  <1>1. ASSUME NEW t \in Threads, NEW u \in Uses, NEW h \in Hosts,
               Reuse(t, u, h) \/ Open(t, u, h)
        PROVE  SshTypeOK' /\ Sound(pool)'
    BY <1>1, ReuseKeeps, OpenKeeps
  <1>2. ASSUME NEW t \in Threads, SshStep(t)
        PROVE  SshTypeOK' /\ Sound(pool)'
    BY <1>2, StepKeepsType DEF Sound, InPool
  <1>3. ASSUME NEW x \in Executors, Drop(x)
        PROVE  SshTypeOK' /\ Sound(pool)'
    BY <1>3 DEF Drop, SshTypeOK, Sound, InPool, Link
  <1>4. CASE Tick
    <2>1. idle' \in [Hosts -> 0..(IdleLimit + 1)]
      BY <1>4 DEF Tick, SshTypeOK
    <2>2. QED
      BY <1>4, <2>1 DEF Tick, SshTypeOK, Sound, InPool
  <1>5. CASE UNCHANGED sshVars
    BY <1>5 DEF sshVars, SshTypeOK, Sound, InPool
  <1>6. QED
    BY <1>1, <1>2, <1>3, <1>4, <1>5 DEF SshNext

LEMMA SoundInit == SshInit => SshPoolInv
  <1> SUFFICES ASSUME SshInit
               PROVE  SshTypeOK /\ Sound(pool)
    BY InvIsSound
  <1>1. SshTypeOK
    BY DEF SshInit, SshTypeOK, Off, Thread, ThreadPC, Uses, Link
  <1>2. InPool(pool) = {}
    BY DEF SshInit, InPool
  <1>3. QED
    BY <1>1, <1>2, FS_EmptySet DEF SshInit, Sound, Pool

(* However many hosts and threads there are, whatever goes stale, fails to
   reconnect or is pushed out: at most MAX_CONNECTIONS connections, each under
   one host.  (ssh_executor.py, get_executor)                                *)
THEOREM PoolIsBounded == SshSpec => []SshPoolInv
  BY SoundInit, SoundNext, PTL DEF SshSpec

-----------------------------------------------------------------------------
(* How connections end.                                                      *)

LEMMA StaleOrAsItWas ==
    ASSUME NEW x \in Executors
    PROVE  StaleLink[x] = link[x] \/ (StaleLink[x] = "none" /\ \E h \in Hosts : TooOld(h) /\ pool[h] = x)
  BY DEF StaleLink

(* The links after get_executor: as the clean-up left them, but for the entry
   that is handed out, one that could not reconnect and a new one.           *)
LEMMA GetLinks ==
    ASSUME SshTypeOK, NEW t \in Threads, NEW u \in Uses, NEW h \in Hosts,
           Reuse(t, u, h) \/ Open(t, u, h), NEW x \in Executors
    PROVE  \/ link'[x] = StaleLink[x]
           \/ link'[x] = "up" /\ (x = Fresh[h] \/ Unused(x))
           \/ link'[x] = "dead"
  <1>1. CASE Reuse(t, u, h)
    BY <1>1 DEF Reuse
  <1>2. CASE Open(t, u, h)
    BY <1>2, LinkTypes DEF Open, PushedOut, Put
  <1>3. QED
    BY <1>1, <1>2

LEMMA CutStep ==
    ASSUME SshTypeOK, [SshNext]_sshVars, NEW t \in Threads,
           thread[t].pc = "running", link[thread[t].has] = "up",
           link'[thread[t].has] = "none"
    PROVE  \/ \E h \in Hosts : TooOld(h) /\ pool[h] = thread[t].has
           \/ \E u \in Threads \ {t} :
                 /\ thread[u].has = thread[t].has
                 /\ thread[u].use # "keep"
                 /\ thread'[u].pc = "off"
  <1> DEFINE x == thread[t].has
  <1>1. x \in Executors
    BY HasExecutor
  <1>2. CASE \E s \in Threads, u \in Uses, h \in Hosts : Reuse(s, u, h) \/ Open(s, u, h)
    BY <1>1, <1>2, GetLinks, StaleOrAsItWas
  <1>3. ASSUME NEW s \in Threads, EndClosed(s)
        PROVE  /\ s # t
               /\ thread[s].has = x
               /\ thread[s].use # "keep"
               /\ thread'[s].pc = "off"
    <2>1. thread[s].pc \in {"ready", "failed"} /\ thread[s].use # "keep"
      BY <1>3 DEF EndClosed
    <2>2. link' = [link EXCEPT ![thread[s].has] = "none"]
      BY <1>3 DEF EndClosed, Close
    <2>3. thread'[s].pc = "off"
      BY <1>3, LeaveType DEF EndClosed, Close
    <2>4. thread[s].has = x
      BY <1>1, <2>2 DEF SshTypeOK
    <2>5. QED
      BY <2>1, <2>3, <2>4
  <1>4. ASSUME NEW s \in Threads, SshStep(s), ~EndClosed(s)
        PROVE  FALSE
    BY <1>1, <1>4 DEF SshStep, Again, Connect, Execute, Executed, EndOpen, SshTypeOK
  <1>5. CASE (\E y \in Executors : Drop(y)) \/ Tick \/ UNCHANGED sshVars
    BY <1>1, <1>5 DEF Drop, Tick, sshVars, SshTypeOK
  <1>6. QED
    BY <1>2, <1>3, <1>4, <1>5 DEF SshNext

LEMMA LeavesStep ==
    ASSUME SshTypeOK, Sound(pool), [SshNext]_sshVars, NEW g \in Hosts,
           pool[g] # NoExecutor, pool'[g] # pool[g], link'[pool[g]] = "up"
    PROVE  Cardinality(InPool(pool)) = MaxConnections /\ ~TooOld(g)
  <1>1. pool[g] \in Executors
    BY DEF SshTypeOK
  <1>2. ~Unused(pool[g])
    BY DEF Unused
  <1>3. ASSUME NEW t \in Threads, NEW u \in Uses, NEW h \in Hosts,
               Reuse(t, u, h) \/ Open(t, u, h)
        PROVE  ~TooOld(g)
    <2> SUFFICES ASSUME TooOld(g) PROVE FALSE
      OBVIOUS
    <2>1. StaleLink[pool[g]] = "none"
      BY <1>1 DEF StaleLink
    <2>2. Fresh[h] # pool[g]
      BY DEF Fresh, Sound
    <2>3. QED
      BY <1>1, <1>2, <1>3, <2>1, <2>2, GetLinks
  <1>4. ASSUME NEW t \in Threads, NEW u \in Uses, NEW h \in Hosts, Reuse(t, u, h)
        PROVE  FALSE
    BY <1>3, <1>4 DEF Reuse, Fresh
  <1>5. ASSUME NEW t \in Threads, NEW u \in Uses, NEW h \in Hosts, Open(t, u, h)
        PROVE  Cardinality(InPool(pool)) = MaxConnections
    <2> DEFINE left == Put(Fresh, h, NoExecutor)
    <2>1. ~TooOld(g) /\ Fresh[g] = pool[g]
      BY <1>3, <1>5 DEF Fresh
    <2>2. Shrinks(pool, Fresh) /\ Shrinks(Fresh, left)
      BY FreshShrinks, DropShrinks DEF Sound, Shrinks
    <2>3. Sound(Fresh) /\ Cardinality(InPool(Fresh)) <= Cardinality(InPool(pool))
      BY <2>2, ShrinksIsSound
    <2>4. Cardinality(InPool(left)) <= Cardinality(InPool(Fresh))
      BY <2>2, <2>3, ShrinksIsSound
    <2>5. PICK x \in Executors, room \in MakeRoom(left) : Unused(x) /\ pool' \in {room, Put(room, h, x)}
      BY <1>5 DEF Open
    <2>6. h # g
      <3> SUFFICES ASSUME h = g PROVE FALSE
        OBVIOUS
      <3>1. StaleLink[pool[g]] = "none"
        BY <1>5, <2>1 DEF Open
      <3>2. link'[pool[g]] = "dead"
        BY <1>1, <1>2, <1>5, <2>1, LinkTypes DEF Open, PushedOut, Put
      <3>3. QED
        BY <3>2
    <2>7. left[g] = pool[g]
      BY <2>1, <2>6 DEF Put, Fresh
    <2>8. room[g] # pool[g]
      BY <2>5, <2>6, OpenFindsRoom DEF Put, Shrinks, Pool
    <2>9. ~(Cardinality(InPool(left)) < MaxConnections)
      BY <2>5, <2>7, <2>8 DEF MakeRoom
    <2> HIDE DEF left
    <2>10. QED
      BY <2>3, <2>4, <2>9, EntriesFinite DEF Sound
  <1>6. (\E t \in Threads, u \in Uses, h \in Hosts : Reuse(t, u, h) \/ Open(t, u, h)) \/ UNCHANGED pool
    BY StepKeepsType DEF SshNext, Drop, Tick, sshVars
  <1>7. QED
    BY <1>3, <1>4, <1>5, <1>6

(* A connection that is in use ends for the two reasons there are, and one that
   is pushed out was pushed out of a full pool.  (ssh_executor.py, get_executor
   and disconnect)                                                           *)
THEOREM ConnectionsEndSo == SshSpec => ConnectionsEnd
  <1> DEFINE Cut ==
          \A t \in Threads :
             thread[t].pc = "running" /\ link[thread[t].has] = "up"
                 /\ link'[thread[t].has] = "none" =>
                \/ \E h \in Hosts : TooOld(h) /\ pool[h] = thread[t].has
                \/ \E u \in Threads \ {t} :
                      /\ thread[u].has = thread[t].has
                      /\ thread[u].use # "keep"
                      /\ thread'[u].pc = "off"
             Leaves ==
          \A h \in Hosts :
             pool[h] # NoExecutor /\ pool'[h] # pool[h] /\ link'[pool[h]] = "up" =>
                Cardinality(InPool(pool)) = MaxConnections /\ ~TooOld(h)
  <1>1. SshPoolInv /\ [SshNext]_sshVars => Cut /\ Leaves
    BY InvIsSound, CutStep, LeavesStep
  <1> HIDE DEF Cut, Leaves
  <1>2. SshSpec => [][Cut]_sshVars /\ [][Leaves]_sshVars
    BY <1>1, SoundInit, SoundNext, PTL DEF SshSpec
  <1>3. QED
    BY <1>2 DEF ConnectionsEnd, CutOnlyBy, LeavesOpenOnlyAtLimit, Cut, Leaves
=============================================================================
