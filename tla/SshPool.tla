------------------------------ MODULE SshPool ------------------------------
(***************************************************************************)
(* The pool of SSH connections to the Proxmox nodes.  One executor per      *)
(* (host, user) pair is shared by all the threads of the program.  A thread *)
(* uses it in one of three ways:                                            *)
(*   "keep"   get_pooled_ssh_executor_from_config, and leave it connected   *)
(*   "close"  the same, and disconnect() it at the end                      *)
(*   "cache"  get_cached_ssh_executor, connect(), and disconnect() at the   *)
(*            end, or, when an exception was raised, in most callers not    *)
(* get_cached_ssh_executor asks the pool once in a thread's life; later it  *)
(* hands out the thread's own executor, wherever the pool has got to.       *)
(* get_executor runs under the pool's lock: it is one step.  execute takes  *)
(* no lock: its start and its end are two, with anything in between.        *)
(* An executor's link is "none" when its client is None, "up" when the      *)
(* transport is active, and "dead" when there is a client without one: the  *)
(* connection dropped, or connect() failed after it had set the client.     *)
(***************************************************************************)
EXTENDS Naturals, FiniteSets

CONSTANTS
    Hosts,           \* the (host, username) pairs in use
    Threads,         \* request handlers and background threads
    Executors,       \* bound: executor objects alive at the same time
    NoExecutor,
    MaxConnections,  \* MAX_CONNECTIONS
    IdleLimit        \* _connection_timeout, in ticks of the clock

Uses == {"keep", "close", "cache"}
Link == {"none", "up", "dead"}

ASSUME SshAssumption ==
    /\ IsFiniteSet(Hosts)
    /\ NoExecutor \notin Executors
    /\ MaxConnections \in Nat \ {0}
    /\ IdleLimit \in Nat

VARIABLES
    pool,      \* _connections
    idle,      \* how long ago _last_used was, one tick past the limit at most
    link,      \* the connection of each executor
    thread,    \* where each thread is, and what it holds
    cached     \* _ssh_connection_cache.executor of each thread

sshVars == <<pool, idle, link, thread, cached>>

ThreadPC == {"off", "connect", "ready", "running", "failed"}
Thread   == [pc: ThreadPC, use: Uses, has: Executors \cup {NoExecutor}]
Off      == [pc |-> "off", use |-> "keep", has |-> NoExecutor]

SshTypeOK ==
    /\ pool \in [Hosts -> Executors \cup {NoExecutor}]
    /\ idle \in [Hosts -> 0..(IdleLimit + 1)]
    /\ link \in [Executors -> Link]
    /\ thread \in [Threads -> Thread]
    /\ cached \in [Threads -> Executors \cup {NoExecutor}]
    /\ \A t \in Threads : thread[t].pc = "off" <=> thread[t].has = NoExecutor

SshInit ==
    /\ pool = [h \in Hosts |-> NoExecutor]
    /\ idle = [h \in Hosts |-> 0]
    /\ link = [x \in Executors |-> "none"]
    /\ thread = [t \in Threads |-> Off]
    /\ cached = [t \in Threads |-> NoExecutor]

-----------------------------------------------------------------------------
Put(f, k, v) == [x \in DOMAIN f |-> IF x = k THEN v ELSE f[x]]
InPool(p) == {h \in Hosts : p[h] # NoExecutor}
Unused(x) ==
    /\ \A h \in Hosts : pool[h] # x
    /\ \A t \in Threads : thread[t].has # x /\ cached[t] # x
    /\ link[x] # "up"

(* _cleanup_stale_connections: idle entries are disconnected and dropped,    *)
(* whoever still runs a command on them.  idle counts from get_executor, not *)
(* from the last command.                                                    *)
TooOld(h) == pool[h] # NoExecutor /\ idle[h] > IdleLimit
Fresh    == [h \in Hosts |-> IF TooOld(h) THEN NoExecutor ELSE pool[h]]
StaleLink == [x \in Executors |-> IF \E h \in Hosts : TooOld(h) /\ pool[h] = x
                                  THEN "none" ELSE link[x]]

(* Variant: the limit is checked after the new connection is counted in.     *)
MakeRoomLate(p) ==
    IF Cardinality(InPool(p)) <= MaxConnections
    THEN {p}
    ELSE {Put(p, h, NoExecutor) : h \in InPool(p)}

(* At the limit the entry used longest ago goes. *)
MakeRoom(p) ==
    IF Cardinality(InPool(p)) < MaxConnections
    THEN {p}
    ELSE {Put(p, h, NoExecutor) :
             h \in {g \in InPool(p) : \A k \in InPool(p) : idle[k] <= idle[g]}}

(* Variant: the entry is disconnected.                                       *)
PushedOutClosed(links, p, room) ==
    [x \in Executors |-> IF \E h \in Hosts : p[h] = x /\ room[h] = NoExecutor
                         THEN "none" ELSE links[x]]

(* Closing it calls close(), which executors do not have: the error is       *)
(* caught, the connection stays.                                             *)
PushedOut(links, p, room) == links

Hold(t, u, x) ==
    thread' = [thread EXCEPT ![t] = [pc |-> IF u = "cache" THEN "connect" ELSE "ready",
                                     use |-> u, has |-> x]]

(* What the pool handed out; get_cached_ssh_executor remembers it. *)
Get(t, u, x) ==
    /\ Hold(t, u, x)
    /\ cached' = IF u = "cache" THEN [cached EXCEPT ![t] = x] ELSE cached

(* The thread goes on, or it ends and another takes its place. *)
Leave(t) ==
    /\ thread' = [thread EXCEPT ![t] = Off]
    /\ cached' \in {cached, [cached EXCEPT ![t] = NoExecutor]}

AsksPool(t, u) ==
    /\ thread[t].pc = "off"
    /\ u = "cache" => cached[t] = NoExecutor

(* The thread has an executor of its own: the pool is not asked. *)
Again(t) ==
    /\ thread[t].pc = "off"
    /\ cached[t] # NoExecutor
    /\ Hold(t, "cache", cached[t])
    /\ UNCHANGED <<pool, idle, link, cached>>

(* _last_used goes with its entry; h's is set to now. *)
LastUsed(p, h) == [g \in Hosts |-> IF g = h \/ p[g] = NoExecutor THEN 0 ELSE idle[g]]

(* The entry is there and is handed out: connected, or with a client whose   *)
(* transport is gone, on which connect() returns at once, or reconnected.    *)
Reuse(t, u, h) ==
    /\ AsksPool(t, u)
    /\ Fresh[h] # NoExecutor
    /\ pool' = Fresh
    /\ idle' = LastUsed(pool', h)
    /\ link' = [x \in Executors |-> IF x = Fresh[h] /\ StaleLink[x] = "none"
                                    THEN "up" ELSE StaleLink[x]]
    /\ Get(t, u, Fresh[h])

(* There is none, or the one there is was closed and cannot reconnect.       *)
Open(t, u, h) ==
    /\ AsksPool(t, u)
    /\ LET refused == Fresh[h] # NoExecutor
           left    == Put(Fresh, h, NoExecutor)
           before(room) == PushedOut(Put(StaleLink, Fresh[h], "dead"), left, room)
       IN  /\ refused => StaleLink[Fresh[h]] = "none"
           /\ \E x \in Executors, room \in MakeRoom(left) :
                 /\ Unused(x)
                 /\ \/ /\ pool' = Put(room, h, x)
                       /\ link' = Put(before(room), x, "up")
                       /\ Get(t, u, x)
                    \/ /\ pool' = room
                       /\ link' = before(room)
                       /\ UNCHANGED <<thread, cached>>
                 /\ idle' = LastUsed(pool', h)

(* connect() of a cached executor: only a client that is None is connected.  *)
Connect(t) ==
    /\ thread[t].pc = "connect"
    /\ \/ /\ link' = [link EXCEPT ![thread[t].has] = IF @ = "none" THEN "up" ELSE @]
          /\ thread' = [thread EXCEPT ![t].pc = "ready"]
       \/ /\ link[thread[t].has] = "none"
          /\ link' = [link EXCEPT ![thread[t].has] = "dead"]
          /\ thread' = [thread EXCEPT ![t].pc = "failed"]
    /\ UNCHANGED <<pool, idle, cached>>

Execute(t) ==
    /\ thread[t].pc = "ready"
    /\ thread' = [thread EXCEPT ![t].pc =
           IF link[thread[t].has] = "up" THEN "running" ELSE "failed"]
    /\ UNCHANGED <<pool, idle, link, cached>>

(* A channel whose client was closed or lost ends without an exit status.    *)
Executed(t) ==
    /\ thread[t].pc = "running"
    /\ thread' = [thread EXCEPT ![t].pc =
           IF link[thread[t].has] = "up" THEN "ready" ELSE "failed"]
    /\ UNCHANGED <<pool, idle, link, cached>>

Close(t) ==
    /\ link' = [link EXCEPT ![thread[t].has] = "none"]
    /\ Leave(t)
    /\ UNCHANGED <<pool, idle>>

(* The thread is done, or its command failed. *)
EndOpen(t) ==
    /\ thread[t].pc \in {"ready", "failed"}
    /\ thread[t].use = "keep" \/ (thread[t].use = "cache" /\ thread[t].pc = "failed")
    /\ Leave(t)
    /\ UNCHANGED <<pool, idle, link>>

EndClosed(t) ==
    /\ thread[t].pc \in {"ready", "failed"} /\ thread[t].use # "keep"
    /\ Close(t)

(* The network, the clock and close_all. *)
Drop(x) ==
    /\ link[x] = "up"
    /\ link' = [link EXCEPT ![x] = "dead"]
    /\ UNCHANGED <<pool, idle, thread, cached>>

Tick ==
    /\ \E h \in InPool(pool) : idle[h] <= IdleLimit
    /\ idle' = [h \in Hosts |-> IF pool[h] # NoExecutor /\ idle[h] <= IdleLimit
                                THEN idle[h] + 1 ELSE idle[h]]
    /\ UNCHANGED <<pool, link, thread, cached>>

SshStep(t) ==
    \/ Again(t) \/ Connect(t) \/ Execute(t) \/ Executed(t) \/ EndOpen(t) \/ EndClosed(t)

SshNext ==
    \/ \E t \in Threads, u \in Uses, h \in Hosts : Reuse(t, u, h) \/ Open(t, u, h)
    \/ \E t \in Threads : SshStep(t)
    \/ \E x \in Executors : Drop(x)
    \/ Tick

SshSpec == SshInit /\ [][SshNext]_sshVars
-----------------------------------------------------------------------------
(* Properties.                                                               *)

(* The pool never holds more than MAX_CONNECTIONS connections and no         *)
(* connection under two hosts, whichever entries went stale, could not       *)
(* reconnect or were pushed out on the way (ssh_executor.py, get_executor).  *)
SshPoolInv ==
    /\ SshTypeOK
    /\ Cardinality(InPool(pool)) <= MaxConnections
    /\ \A g, h \in Hosts : pool[g] = pool[h] /\ pool[g] # NoExecutor => g = h

(* A command in flight loses its client only to another request that closes  *)
(* the connection it shares, or to the clean-up once nobody has asked the    *)
(* pool for it for longer than the limit, as short as the commands since may *)
(* have been; being pushed out of the full pool does not end it              *)
(* (ssh_executor.py, get_executor and disconnect).                           *)
CutOnlyBy ==
    [][\A t \in Threads :
          thread[t].pc = "running" /\ link[thread[t].has] = "up"
              /\ link'[thread[t].has] = "none" =>
             \/ \E h \in Hosts : TooOld(h) /\ pool[h] = thread[t].has
             \/ \E u \in Threads \ {t} :
                   /\ thread[u].has = thread[t].has
                   /\ thread[u].use # "keep"
                   /\ thread'[u].pc = "off"]_sshVars

(* A connection leaves the pool open, for nobody to close, only from a full  *)
(* pool, and not because it was idle for too long                            *)
(* (ssh_executor.py, get_executor).                                          *)
LeavesOpenOnlyAtLimit ==
    [][\A h \in Hosts :
          pool[h] # NoExecutor /\ pool'[h] # pool[h] /\ link'[pool[h]] = "up" =>
             Cardinality(InPool(pool)) = MaxConnections /\ ~TooOld(h)]_sshVars

(* How connections end (ssh_executor.py, get_executor and disconnect).       *)
ConnectionsEnd == CutOnlyBy /\ LeavesOpenOnlyAtLimit
=============================================================================
