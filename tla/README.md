# Formal models of the Proxmox lab portal

This directory holds TLA+ models of the program in `src/`: a Flask application
that gives students of a school lab their virtual machines on Proxmox clusters.
It says what is modelled, how state and actions correspond to the code, what
the TLC runs check and on which bounds, and what the TLAPS proofs establish.

## 1. The system

One process (`run.py`, `app.run(threaded=True)`): every HTTP request runs in a
thread of its own, long operations (deployments, template pushes) run in
threads the handlers start, and daemon threads (background sync, auto-shutdown,
daemon monitor) run for as long as the process. All of them share one SQLite
database through SQLAlchemy sessions, some process-wide dictionaries, and the
Proxmox clusters, reached by API calls and by shell commands over SSH.

| part | source (`src/app/`) | state | operations | hard behaviour | what makes it correct |
|---|---|---|---|---|---|
| VM pool of the classes | `services/class_service.py`, `models.py`, `routes/api/class_api.py`, `vm_class_mappings.py` | tables users, classes, class_enrollments, vm_assignments; the write lock of SQLite | join by invite link, auto-assign, assign, unassign, delete row / user / class, add rows, invite links | read, then write what was read: stale sessions; lock time-outs and retries; foreign keys not enforced | no VM is taken from a student; nobody waits beside a free VM; one VM per student and class; no rows of deleted classes or users |
| VMID prefixes | `services/class_vm_service.py` 92-190, `class_service.py` create_class, `class_api.py` | classes.vmid_prefix, an in-process lock | three allocators, form update | lock released before the commit | no two classes share a prefix |
| class deployment | `services/class_vm_service.py` 666-1968 | VMs and disks on the cluster, rows, progress record | teacher VM, base VM, student loop | every command may fail; counters and retries; long-held write lock | loop ends; every row has a VM; nothing runs without a row |
| teacher save / push | `services/class_vm_service.py` 1971-2660, `publish_template.py`, `class_template.py` | image files base, staging, backup; overlays | rename protocols | failure between two renames | a class never loses its base image |
| class creation, settings | `class_service.py`, `class_settings.py`, `class_owners.py`, `class_import.py`, `class_ip_refresh.py` | class rows | CRUD | mostly sequential | field constraints |
| other writers of rows | `user_vm_assignments.py`, `recover_vms.py`, `mappings.py`, `user_manager.py` | vm_assignments | move rows between classes and users | same sessions as the pool | as the pool |
| daemon monitor, health | `daemon_monitor.py`, `health_service.py`, `health.py` | registry, heartbeats, restart history | check, restart, report | flags read by other threads; rate limit | a dead daemon is restarted or reported |
| auto-shutdown | `auto_shutdown_service.py` | idle tracker | periodic check, hour window | wrap-around windows; partial failures | idle VMs stop, used ones do not |
| background sync, inventory | `background_sync.py`, `inventory_service.py`, `sync.py` | vm_inventory, templates, iso_images, sync statistics | full sync, quick sync, cleanup | partial cluster answers, lock retries | a live VM, template or ISO is not dropped |
| Proxmox access | `proxmox_service.py`, `proxmox_operations.py` | connections, caches | lookups, clone, start, stop | caches with expiry, many threads | stale data is bounded |
| deployment services | `vm_deployment_service.py`, `linked_clone_service.py`, `vm_config_clone.py`, `vm_core.py`, `vm_template.py`, `vm_utils.py` | cluster | shell commands | failures | cleanup |
| template migration, snapshots | `template_migration_service.py`, `snapshot_migration.py`, `template_migrate.py`, `templates.py`, `snapshots.py` | templates on clusters | copy, register | next-VMID race, half-done copies | the source survives |
| SSH | `ssh_executor.py`, `ssh_service.py`, `ssh.py` | connection pool, terminals | execute, reconnect | shared connections | |
| IP discovery | `arp_scanner.py`, `vm_utils.py` | scan results | scan, cache | scan overlapping scan | |
| clusters, settings | `clusters.py`, `settings_service.py`, `config.py` | configuration rows | CRUD | | |
| console, RDP, VM control | `console.py`, `rdp.py`, `vms.py` | none | proxy calls | | |
| VM builder | `vm_builder.py` | none | one VM by commands | failures | |
| progress, caches | `clone_progress.py`, `utils/caching.py` | dictionaries | get, set, expire | readers of live records | |
| locking, timeouts | `utils/locking.py`, `utils/timeout.py` | | | imported by nothing | |
| pages, login | `routes/*.py`, `users.py`, `profile.py` | sessions | render, edit | | |
| scripts | `run.py`, `migrate_db.py`, … | | | | |
| browser code | `static/` (vendored) | | | | |

The components and their status are listed again in `PROJECT.json`, and every
hazard of the code with the property that watches it.

## 2. Modules and runs

| module | what it models | abstract specification / composition | proofs |
|---|---|---|---|
| `ClassPool` | the VM pool of the classes and every handler that writes it | implements `Enrolment` | `ClassPoolProofs` |
| `VmidPrefix` | who chooses prefixes, who fills and lists their VMIDs and who destroys them | | `VmidPrefixProofs` |
| `StudentLoop` | the loop of `create_class_vms` over shell commands that fail | | `StudentLoopProofs` |
| `ClassSetup` | teacher and base VM, before that loop | hands over to the loop at `students` | `DeploymentProofs` |
| `LinkedClones` | the other way to deploy a class, `deploy_linked_clones` | | `DeploymentProofs` |
| `ClassImages` | save, push, deploy, publish, reimage, recreate: image files and disks | | `ClassImagesProofs` |
| `SshPool` | the SSH connections the deployments share | | `SshPoolProofs` |
| `Daemons` | a daemon, its health record and the monitor that restarts it | | `DaemonsProofs` |
| `AutoShutdown` | rounds of the auto-shutdown daemon, allowed hours | | `DaemonsProofs` |
| `Inventory` | `vm_inventory` and its writers, the clean-up of assignments | put together in `Tables` | `TablesProofs` |
| `Catalog` | `templates`, `iso_images` and their writers | put together in `Tables` | `TablesProofs` |
| `IpCache` | how addresses of VMs reach the database | | `TablesProofs` |

Every model has variables of its own, and every `MC…` module instantiates one or
several for TLC. Models that share no state are run together, as are behaviours
of one model with different operations: the variable
`part` of `MCRequests`, `MCClassVms`, `MCServices` and `MCTables` is chosen at
the start and names the model whose steps are taken; the others stutter. Such a
run explores the sum of its parts, not their product, and every part is checked
on all its behaviours. A property of a model that is at rest
holds there trivially, so it says about the run exactly what it says about its
own part. Fairness is conditioned on the part as well (`MCFair`).

| run | module | bounds | properties |
|---|---|---|---|
| `pool_all` | `MCClassPool` | 1 class, 2 students, 2 requests, 2 rows, all operations but manual adds | `TypeOK`, `JoinInv`, `JoinNeverEvicts`, `WaitsOnlyWhenPoolEmpty` |
| `requests` | `MCRequests` | "withdrawals", "deletions": 1 class, 2 students, 2 requests, 3 rows, joins, auto-assign, deployment, and withdrawals or class deletion; "addresses": the daemon and a page, a VM, 2 addresses, 1 change; "pages": 2 pages, a container | `HolderIsEnrolled`, `AssignedIffHeld`, `RequestsEnd` (liveness); `IpInv`, `Addressed` (liveness) |
| `pool_sequential` | `MCClassPool` | one request at a time, 2 classes, a teacher | `NoOrphanRows`, `NoDanglingHolder` |
| `prefix_all` | `MCVmidPrefix` | 2 class ids, 2 prefixes, 2 requests, all operations and failures | `AllocInv`, `CreateKeepsUnique` |
| `loop_pair` | `MCStudentLoop` | 3 slots, two deployments at once, every failure | `LoopInv`, `BaseStays` |
| `class_vms` | `MCClassVms` | "images": 1 student, 1 owner, 1 broken conversion and 2 failed commands; "two_owners": the same without failures; "setup": 1 deployment, every failure; "ssh": 2 hosts, 2 threads, 3 executors, room for 1, stale after one tick; "join": 1 class, 2 students, 2 requests, 3 rows, joins, withdrawals, deployments, manual adds and deletions of rows and the class | `ImageKept`, `VmsKept`; `TwoPushesLose`; `SetupInv`, `InfraKept`; `SshPoolInv`, `ConnectionsEnd`; `OneVmPerStudent`, `JoinIsAtomic` (refinement of `Enrolment`) |
| `services` | `MCServices` | "daemon": each daemon, 2 faults, 2 applications beside the monitor; "auto": 4 hours a day, 2 VMs, 4 settings; "clones": 2 classes, 1 or 2 students, 2 failures, 1 stranger; "loop": 4 slots, one deployment after another | `DaemonInv`, `AttemptNeedsSilence`, `Recovers` (liveness); `StopsOnlyOutside`, `OutsideIsStopped` (liveness); `CloneInv`, `ClonedAreListed` (liveness); `LoneInv`, `AddEnds` (liveness) |
| `tables` | `MCTables` | "vms": 2 VMs, a syncing thread and another, 1 change, 1 miss; "templates", "isos": 2 nodes, 2 items, 2 threads, 1 event, 1 silence; "prefix": one request, 2 ids, 2 prefixes | `TablesTypeOK`, `RowsGo`, `KeptWhenHeard`, `TablesSettle` (liveness); `OneByOneInv`, `OneByOneSteps` |
| `pool_auto_evicts` | `MCClassPool` | joins, auto-assign, withdrawals | refutes `AutoAssignNeverEvicts` |
| `prefix_unstored` | `MCVmidPrefix` | two creations | refutes `CreatedMeansStored` |
| `loop_spins` | `MCStudentLoop` | 2 slots, one VM asked for | refutes `LoopEnds` |
| `setup_students_empty` | `ClassSetup` | 1 deployment | refutes `StudentsGetTheTemplate` |

The deadlock check is off where the system may really stop: requests are
bounded by the rows, accounts and ids that can be used up, and faults and
changes by the bounds. It is on in `loop_pair` and `tables`.

Every invariant and action property of a passing run is proved for all values
of the constants that meet the hypotheses its section names; `TwoPushesLose`, which
is `OnlyTwoPushesLose` of a second instance of `ClassImages`, as the theorem
`TwoPushesAtFault` about the module itself. What TLC alone checks are the
liveness properties (fairness and ENABLED are beyond the prover): `RequestsEnd`,
`Addressed`, `Recovers`, `OutsideIsStopped`, `ClonedAreListed`, `AddEnds` and
`TablesSettle`; and it refutes what the code breaks.

Plan for further work, in this order: the other writers of assignment rows in
`ClassPool`; theorems for several classes where `HoldersAreEnrolled` has one;
safety parts of the liveness properties (what a deployment has not finished is
still in its session).

Modules with theorems use no RECURSIVE operators, take every set as a CONSTANT
and state their invariants as conjunctions of named parts.

## 3. ClassPool

### Correspondence

| model | code |
|---|---|
| `users`, `classes`, `enrolled`, `vm`, `token` | the committed contents of the tables users, classes, class_enrollments, vm_assignments and the three token columns of classes |
| `writer` | who holds SQLite's write lock |
| `task[r]` | the handler (or deployment thread) r: where it is and what its SQLAlchemy session holds: rows to delete (`doomed`), dirty columns (`patch`), students found waiting (`waiting`), retries (`tries`) |

A handler is one to four actions, cut where another thread can get in: the
SELECTs it decides on, the flush that takes the write lock, the COMMIT. Three
facts of the ORM decide what is possible and are therefore modelled as they
are:

* a SELECT takes no lock, so a decision may be stale when it is written;
* `students.append(user)` in `join_class_via_token` is autoflushed by the query
  for a free VM, so a join owns the write lock *before* it looks: joins are
  serialised by accident of statement order. That is the invariant `JoinInv`;
* an UPDATE sets only the columns that differ from the value read (`Diff`),
  an UPDATE of a deleted row fails the transaction (`Stale`), the delete of a
  deleted row does not.

`LockTimeout` is the busy timeout of 60 s (only `delete_class` tries again, at
most three times); `Rollback` is any failure, or the death of the process, while
the lock is held.

The abstract specification `Enrolment` says what an invite link promises: one
atomic step enrols the student and seats him if a seat is offered, and nobody
is ever seated over somebody else.

### Runs

`pool_all` checks every pair of handlers on the whole pool but manual adds,
which "join" of `class_vms` and `pool_sequential` take. "join" has the
operations that leave one VM per student, and the refinement of `Enrolment`.
`requests` checks what needs three rows (a base VM beside the pool) and the
liveness of handlers; `pool_sequential` what holds only for one request at a
time. Two students, two VMs and two requests are enough for every pair of
handlers to meet on one row and for the pool to be empty, to have one VM and to
have more.

Fairness (`FairSpec`): a handler that has started runs on. Its thread is
scheduled by the interpreter and SQLite answers a lock request within the busy
timeout; nothing obliges a user or a teacher to start one, so the first action
of a handler, invites and rollbacks are not fair.

Code and documentation disagree in `pool_auto_evicts`: TLC refutes
`AutoAssignNeverEvicts`, because auto-assign writes VMs it read as free before a
student took one by joining.

Properties the runs check for a part of the operations do not hold for all of
them; so `requests` has its pool in two parts, "withdrawals" and "deletions",
and `AssignedIffHeld` is false where both meet (below). With two requests and at
most three rows TLC refutes:

| property | operations | what happens |
|---|---|---|
| `OneVmPerStudent` | join, assign | two assignments that both checked before either commits |
| `NoOrphanRows` | deployment, class deletion | a row deployed while the class is being deleted survives it |
| `NoDanglingHolder` | assign, user deletion | an assignment commits after its user is deleted |
| `AssignedIffHeld` | join, user deletion | the user's deletion clears the holder of a row assigned since, not its status |

A student who joined before a deployment is not served by it: nothing calls
auto-assign but its own route, so that he is served is no property of the
program.

### Proofs (`ClassPoolProofs`)

For all constants satisfying `PoolAssumption` (`NoUser`, `NoRequest`… are not
members of the sets they are null values of, the initial table is typed):

* `TypeCorrect`: `Spec => []TypeOK`, one lemma per group of handlers.
* `JoinSerialised`: `Spec => []JoinInv`. `PickedIsFree` is not inductive: what
  keeps a picked row free is that every step that writes a row needs the lock
  free or its own. `JoinInv` adds `LockInv` (a request is inside a transaction
  iff it is the writer) and `CleanInv` (a join has no row to write before it
  picks). The lemma `StepDisciplined` reduces all handlers to one discipline
  (take the lock when free, give back one's own, write only then), and the
  steps of the invariant are proved from that discipline alone.
* `PickedIsFreeAlways`, `JoinTakesNone`, `JoinServes`: the consequences, the
  last two as action properties over every step of `Next`.

Five properties hold for a part of the operations only, and the theorems say for
which. Their other hypotheses are about the table a behaviour starts with:
`StaffHolds` (nobody but staff holds a VM yet) and `RowsHaveClasses`, which the
initial tables of the runs satisfy, and `ColumnsAgree`, which says that status
and holder agree at the start.

* `ClassesTakeTheirRows`, `HoldersAreThere`: `[]NoOrphanRows` and
  `[]NoDanglingHolder`, all operations, a single request (the table in "Runs"
  shows what a second one does to them). Inductive is `SeqInv`: what the one
  request holds in its session is still in the tables, because nobody else
  writes them.
* `HoldersAreEnrolled`: `[]HolderIsEnrolled` for any number of requests that
  join, auto-assign, withdraw, deploy, add rows or delete rows and classes
  (`HolderOps`), if there is one class where rows are deleted beside
  auto-assignments (`OneClassIfRecycled`). An assignment in a session makes its
  student holder of a row *id*, and SQLite gives the id of a deleted row again; in
  the only class there is it is a row of his class in any case (`Entitled`).
  With two classes the property is false: a pending assignment makes a student
  of the one holder of a row of the other, once a row is deleted and the other
  deployed. Teachers' assignments by hand do not ask for an enrolment.
* `ColumnsStayInStep`: `[]AssignedIffHeld` for the same operations (`HeldOps`),
  from `HeldInv`: a pending patch writes both columns, or takes out of "reserved" a
  base VM that nobody can hold (`Harmless`); if no row of the initial table is
  reserved where VMs are withdrawn and rows deleted (`NoneReservedIfRecycled`).
  Every deployed class has a reserved row, and with one the property is false:
  a withdrawal of the reserved row is pending, the class is deleted, a running
  deployment gets the row's id, a join takes the new row, and the withdrawal
  sets its status to available while the student holds it. That takes four
  requests; either part of `requests` has operations for which the theorem holds
  with any number of them.
* `OneVmByJoining`, `JoinsAreAtomic`: `[]OneVmPerStudent` and the refinement
  `JoinIsAtomic` where students get VMs by joining only (`SeatOps`). `SeatInv`
  puts together that holders are enrolled, that no student holds two VMs of a
  class, and that a join with the lock has seen its student is not enrolled, so
  that he holds none yet. The refinement maps enrolments and rows to `member`
  and `seat` (`Seating`); the step that matters is the commit of a join, which by
  `JoinInv` finds its row still free, or the pool still empty.

Only model-checked: the liveness property `RequestsEnd`.


## 4. VmidPrefix

### Correspondence

| model | code |
|---|---|
| `stored`, `prefix` | the table classes: its ids, `vmid_prefix` |
| `listed[c]` | the ranges of a hundred VMIDs that the vm_assignments rows of class c name |
| `made[p]` | the cluster: the class whose deployment first filled range p, and whether the range has a base VM (VMID p99) |
| `writer` | SQLite's write lock |
| `task[r]` | a creation, deployment or deletion: where it is, the class, the prefix and the ranges it has read |

A range is the unit: a deployment fills it as a whole (`Fill`) or fails and
leaves part of it, the rows of one range are committed together, and a deletion
destroys a range in one step, ranges in any order. What happens inside
a range (which index exists, which row was lost) is the subject of
`StudentLoop`. A class's id is chosen as SQLite does for a table without
AUTOINCREMENT, one more than the largest (`NextId`), so the id of the newest
class is given out again when it is deleted.

`_vmid_allocation_lock` has no variable: it is held only around the choice,
which is one step here, and protects nothing that happens later. What keeps two
`create_class` apart is the INSERT flushed *before* the choice, which holds
SQLite's write lock until the commit. The other two sources of a prefix
(`DeployWithoutPrefix`, `FormWithoutPrefix`) choose without it.

### Runs

`prefix_all` sets all operations and failures against each other. The part
"prefix" of `tables` runs one request at a time without failures: then
`OneByOneInv` (`TypeOK`, `PrefixesUnique`, `ListedAreOwn`, `NoLeakedVms`) and
`OneByOneSteps` (`NewClassListsNothing`, `DestroysOnlyOwn`,
`CreatedMeansStored`) hold.

Two ids and two prefixes are enough for two classes to want one prefix, for an
id to be given out again and for every prefix to be used up; two requests for
every pair of allocator, deployment and deletion. Everything here is safety, so
no fairness is assumed.

`prefix_unstored` refutes `CreatedMeansStored` once two creations compete: the
flush waits in vain, the session drops the class, the retry commits nothing, and
the reply is success. The properties of the lone request end with the
interleaving or the failure that breaks them:

| property | operations | what happens |
|---|---|---|
| `PrefixesUnique` | create, deploy | a late allocator chooses before `create_class` commits the same prefix and stores it afterwards |
| `ListedAreOwn` | one by one, with failures | VMs of a failed deployment are found in the range and listed for the next class |
| `DestroysOnlyOwn` | create, deploy, delete | VMIDs in use again by the time a deletion destroys them |

### Proofs (`VmidPrefixProofs`)

From `PrefixAssumption` alone (the null values are not members; ids are natural
numbers):

* `TypeCorrect`: `Spec => []TypeOK`.
* `ChosenStaysUnused`: `Spec => []AllocInv`. That a chosen prefix is unused
  (`PickedUnused`) follows only together with `LockInv` (the request between
  flush and commit is the writer) and `FreshInv` (its id is not in the table):
  every step that changes `stored` or `prefix` needs the lock free or its own,
  so it cannot happen while another request is between choice and commit.
* `NewClassIsUnique`: `Spec => CreateKeepsUnique`, by `AllocInv` at the commit.

* `RangesAreKept`, `RangesPassOn`: `[]OneByOneInv` and `OneByOneSteps` for one
  request at a time that creates, deploys or deletes without failing
  (`OneByOneOps`). That no VM is lost sight of is inductive only when it says who
  accounts for the VMs of a range (`VmsAccounted`): a class that lists them, a
  deployment about to commit their rows, or a deletion about to destroy them;
  together with that a class lists ranges of its own prefix (`ListedByPrefix`)
  and what the request has read is still so (`AloneFit`) this is `AloneInv`. The
  id of a deleted class may be given out again, and its prefix with it: the
  deletion that still has ranges to destroy is the same single request, so no
  creation can come between.

Left out: linked clones of a class without a prefix (section 7), and the retry loop
inside `_commit_with_retry` other than the case it decides wrongly.


## 5. StudentLoop

### Correspondence

| model | code |
|---|---|
| `vms`, `disks` | the cluster: which VMIDs of the class's range have a configuration, which an image directory |
| `rows[i]` | committed rows of vm_assignments that name slot i |
| `task[r]` | one run of `create_class_vms`: `current_index`, `vms_in_current_batch`, `iterations_without_progress`, `student_vmids`, and the rows that wait in its session |

VMID p01 to p98 are the slots, p99 (`Base`) is the class's base VM. One
iteration of the loop is cut at every command that leaves something behind: the
probe `qm status`, then for an overlay the disk and the configuration
(`create_overlay_vm`), for a new class `qm create` and the attach of an empty
disk. Each command may fail, with or without its effect, or raise, and the
clean-ups (`rm -rf`, `qm destroy`) are part of the failure. A probe may miss a
VM that exists, because `qm status` asks only the node the shell runs on.

Which of the two ways a run takes is decided by `adding_to_existing_class`. A
class that is new gets empty disks even when it has a template: the code for
classes without a template follows the other at the same indentation (line
1280) and resets `base_qcow2_path` at line 1404.

Simplified: that a commit meets a locked database is a choice, not the work of
a modelled writer (ClassPool has the lock); the base VM is there when the loop begins
(ClassSetup makes it); the class is not deleted and keeps its prefix during a deployment
(VmidPrefix has both). The branch for a VMID collision is left out, because the
helpers turn exceptions into results and its text cannot reach it; so is the
count of failures, which nothing decides on.

### Runs

`loop_pair` has two deployments of one class at once with every failure; the
part "loop" of `services` one deployment after another, where `LoneInv`
(`TypeOK`, `RowsUnique`, `ListedUntouched`, `MadeAreListed`) and the liveness
property `AddEnds` hold although commands fail and probes miss; `loop_spins`
refutes `LoopEnds`.

Three VMs in batches of two make a full batch and a rest; four slots leave one
to find taken after them and reach the limit; two tries are the smallest number
at which a counter that is reset differs from one that is not. Nothing about a
slot depends on its number but the order and the last one.

Fairness (`FairSpec`): a deployment that has started runs on, since it is a
thread that waits for nothing but commands with a timeout and a database with
one. Nobody need start one, and no choice of success over failure is fair: a
command may fail for ever. That is how `loop_spins` refutes `LoopEnds`: the code
announces a "Safety counter to prevent infinite loops", and two failure branches
of a new class go back to the head of the loop with the same slot and the same
count. `AddEnds` is what remains true: with overlays the slot moves on whatever
fails.

`RowsUnique` and `ListedUntouched` hold for one deployment at a time. With two at
once both can find a slot empty, and both write its disk and its row; nothing
prevents the creation thread and `POST /vms` from doing so. `MadeAreListed`
needs commits that do not fail, because the rows of a batch that could not be
committed are not made again.

### Proofs (`StudentLoopProofs`)

From `LoopAssumption` (at least one slot, a positive batch size), for every
number of slots, tries and requests:

* `TypeCorrect`, `LoopBounded`: the types follow only together with the bound on
  the slot (a deployment that works on slot i has `SlotsLeft`, so i + 1 is still
  a VMID), hence one inductive invariant `IInv` for both.
* `BaseIsSafe`: `Spec => BaseStays`, since every step that removes a VM or a
  disk works on a slot below the base.
* `AloneRowsUnique`, `AloneListedUntouched`: with a single request, no committed
  row names a slot at or above the one a running deployment looks at. That
  relation between rows and slot (`AloneInv`) is what is inductive.
* `VmsGetRows`: when commits do not fail, what a deployment made is in its
  session or committed.
* `AloneKeepsAll`: the three together, `LoneInv`, for a single request and
  commits that succeed.

Only model-checked: `AddEnds` (liveness).


## 6. ClassSetup

### Correspondence

| model | code (`class_vm_service.py`, `create_class_vms`) |
|---|---|
| `disk`, `away` | the cluster: what disk the teacher's VM (p00) and the base VM (p99) have, and whether the VM is on a node other than the one the shell runs on |
| `rows` | how many committed rows name each of them |
| `pupils` | which kinds of VMs the other rows of the class stand for |
| `deploy[d]` | a run of `create_class_vms`: where it is, `adding_to_existing_class`, rows in its session |

A class with a row or a base VM is added to (`AddsTo`); any other is set up.
With a template the two VMs are overlays of the exported image; the section
without a template follows for every class and finds both VMs there already. It
also resets the path of the base file, and that is the finding of
`setup_students_empty`: line 685 promises overlays of the class base, the
students of a new class get empty disks.

The rows of both VMs are committed once, after both exist. Any command may fail
in between, an administrator may migrate or delete a VM at any time, and "qm
list" shows the VMs of one node only. One deployment, repeated without bound,
reaches all of this.

### Proofs (`DeploymentProofs`)

For one deployment at a time (`ASSUME Deployments = {d}`), whatever fails, moves
or is deleted:

* `TeacherOnceAndFirst`: `SetupSpec => []SetupInv`. A setup may find its own VMs
  from an earlier attempt and must not list them twice. Inductive is
  `SetupIInv`: while a class is being set up it has no committed row of either
  VM, and the session holds at most one of the teacher's, which one depending
  on the place (`PendingOK`).
* `DisksStay`: `SetupSpec => InfraKept`, since a deployment that reaches a
  command on those disks has found no row.

## 7. LinkedClones

`owner` is the cluster (for whom a VM was made), `listedBy` the committed rows,
`clone[c]` the thread of class c: `start_vmid`, the loop counter and
`created_vms`. The VMIDs are read (`FirstFree`) when the class is created,
minutes before they are used; a node that does not answer looks empty. Nothing
reserves them: "qm clone" refuses a VMID in use and the loop leaves that VM out;
a clone that fails otherwise may leave its VM behind, in no class's list
(`CloneFails`).
`Stranger` is anybody else who makes a VM meanwhile. The run has one class with
a prefix and one without, so that their ranges meet; eight VMIDs leave room for
both. `CloneFair`: a thread that has started goes on to its end.

`ListedAreOwn` (`DeploymentProofs`) proves `CloneInv` for any number of
classes, ranges and failures from `CloneAssumption`: what a deployment counts as
made was cloned for it and nobody else can have cloned it since (`MadeIsOwn`).
`ClonedAreListed` (liveness) is only model-checked.

## 8. ClassImages

| model | code |
|---|---|
| `image[f]` | the files `<class>-base.qcow2`, `-staging.qcow2`, `-base.old`, `-base.backup.qcow2`: absent, half-written or whole |
| `machine[v]` | a VM in Proxmox: what its disk is an overlay of, whether its disk line holds a path, whether it runs |
| `teacherListed` | the row of the teacher's VM |
| `job[e]` | a request of one of the class's owners: which command comes next, which students are still to do |

Each action is one remote command with its three outcomes: done, exit code not
zero (which most callers ignore, `Lenient`), or connection lost (which goes to
the handler; a push moves the old base back from wherever it was). A step of the
program that is a run of commands takes the outcomes of all of them: publishing
to a student removes a disk and copies another, and either may fail alone;
a reimaged teacher's VM may be there while its row could not be stored. A
student's row without a node is skipped when VMs are recreated (`Placed`). Four
facts of the code shape what comes of them:

* a deploy calls `export_template_to_qcow2` and unpacks 13 values where a
  conversion returns 18: every conversion ends in an exception and the backup is
  not moved back (`DeployExport`). The lines after it are reached by no
  execution and not modelled;
* save and push look for a disk under a path that exists only when the disk line
  of the VM holds a path (`Found`), so a push often rebases nothing;
* `wait_for_vm_stopped` is called with arguments it does not take when VMs are
  recreated: the wait is skipped and the deletion races the shutdown
  (`RecreateRefused`);
* `remove_vm_disk` returns a pair, which is true even when it failed.

One student suffices for every order of the commands on images and on a VM that
may be skipped; one broken conversion and two failed commands let a failure hit
the recovery of another. `VmsKept` and `TwoPushesLose` speak of behaviours
without failures, because after a failed command a student's disk may simply be
gone; `ImageKept` holds with all failures but a conversion that stops half-way,
which a later push takes for a finished image (`test -f`). Two pushes at once do
lose the image: the second moves the new base out of the way and the first
removes it as the old one. `TwoPushesLose` says that nothing else does.

### Proofs (`ClassImagesProofs`)

* `ImagesTyped`: the types, for any number of owners and students and whatever
  fails.
* `ImageStays`: `[]ImageKept` for one owner at a time and any failures. Inductive
  is `ImgIInv`: unless a conversion broke, no file is half-written, one of base,
  old and backup is whole, and once a push has swapped the files the base is (so
  that removing the old one is safe).
* `VmsStay`: `[]VmsKept` for one owner and no failure. `VmsFit` says in four
  parts why: a push that began finds its files (`GoesOn`), the teacher's VM
  is there while it is listed (`TeacherFits`), a base that something rests on is
  whole until a deploy moves it away (`ImageServes`), and students' VMs have
  disks (`StudentsServed`).
* `TwoPushesAtFault`: `OnlyTwoPushesLose` for any number of owners. `LoseIInv`:
  while a copy is left, a push about to remove the old base has a base or backup
  beside it, or another push is moving one. The property asks that nothing has
  failed *after* the step: a conversion that breaks off over a pushed base is
  itself the loss.

## 9. SshPool

| model | code (`ssh_executor.py`) |
|---|---|
| `pool`, `idle` | `_connections`, the age of `_last_used` |
| `link[x]` | an executor's client: none, with an active transport, or without one |
| `thread[t]` | who holds an executor and what it does with it |

| `cached[t]` | the executor `get_cached_ssh_executor` keeps for a thread |

`get_executor` runs under the pool's lock and is one step (`Reuse`, `Open`);
`execute` takes no lock and is two. A thread uses an executor in one of the
three ways the callers do: it leaves it open, closes it, or gets it from
`get_cached_ssh_executor` and closes it, which after an exception most callers
do not. The last asks the pool once in a thread's life; later it hands out the
thread's own executor (`Again`), which may be in the pool no more or never was
reconnected. `idle` counts from `get_executor`, not from the last command, so
the stale clean-up may cut a command short that has just begun.

Two threads and two hosts with room for one connection are enough for sharing,
for a full pool and for a connection that is dropped while in use; with
`IdleLimit` 0 an entry is stale after one tick of the clock, which is as good as
any limit, since nothing else counts ticks. `InOrder` numbers new executors in
the order of their creation: they are alike.

`SshPoolProofs` proves, for every number of hosts and threads and every limit,
`PoolIsBounded` (`SshSpec => []SshPoolInv`; every change of the pool is a
shrinking, possibly followed by putting a new executor into a free place) and
`ConnectionsEndSo` (`SshSpec => ConnectionsEnd`). The latter says who may cut a
command short: another thread that closes the shared connection does, which is
what the code does and not what a caller expects.

## 10. Daemons and AutoShutdown

### Daemons

| model | code |
|---|---|
| `flag` | `_sync_running`, `shutdown_daemon_active`; the IP scanner has none and asks the thread it started last |
| `workers` | the daemon's threads, working or hanging in a remote call |
| `last` | `_background_scanner_thread`: what the thread started last does |
| `health` | its record in `health_service.py`: status, ages of the last sync and check |
| `entry`, `restarts` | its record in the monitor's registry, `_restart_stats` |
| `starting` | who is inside the start function: an application, the monitor |

Time advances in rounds of the monitor (`Tick`, 30 seconds); ages are cut off
where no comparison tells them apart. A run follows one daemon, any of the
three, since they share nothing but locks. The start functions are called by
applications, the first and one for every settings change that recreates VMs
(`recreate_student_vms_with_new_specs` calls `create_app`), and by the monitor.
`Apps` are those that may be inside at the same time; an application may start
the daemon again and again. Faults are a thread that dies, hangs (and may come
back) or cannot be started, and a second registration, which such an
application causes. Two of them let a start fail after a death. `DaemonFair`:
the monitor sleeps and checks for as long as the process runs and a start
function returns.

`Recovers` is claimed for the IP scanner and for an auto-shutdown daemon whose
flag is down. A dead daemon whose flag is up is not restarted: the start
function says "already running", returns, and the monitor counts a success. So
it is with background_sync after any death.

### AutoShutdown

`patrol` is the daemon's round with the settings and the hour it works on;
`setting`, `hour` and `power` go on meanwhile. A day of four hours has ranges
that wrap past midnight, end at it, or are empty. The pages test the hours with
a copy of that code (`class_settings.py`), which is not modelled: no state
depends on it. `AutoFair`: the daemon's thread
goes on, and a guest that is asked again and again to shut down does so at last
(strong fairness of `ShutDown`, because rounds may find it off in between).

Idle VMs are never stopped, and the model says so (`CheckIdle` changes nothing):
`check_vm_and_shutdown_if_idle` makes the first entry of its tracker with
`vm.cluster`, which a row does not have; the exception is logged and the next
round begins the same way.

### Proofs (`DaemonsProofs`)

* `DaemonsAreFew`: `DaemonSpec => []DaemonInv` for every limit and any number of
  faults and applications. How many threads a daemon can have (`FewWorkers`)
  differs: `background_sync` one, since it sets its flag right where it tests it
  (one step: CPython switches threads at calls and loops, and there is none
  between);
  `auto_shutdown` one for each caller that entered before the flag was set, which
  nobody takes down again; the scanner as many *again* for each fault that
  befell a thread, since only the last thread is asked and older ones go on. The
  proof needs `Threads` and `FlagInv`: what a last thread that is gone, or a flag
  that is down, says of the others.
* `SilenceFirst`: `DaemonSpec => AttemptNeedsSilence`, from `SilentInv`: with k
  failures counted, the last report is k checks older than a healthy one, or the
  next check will pass and reset the count. `StoppedInv` covers daemons that
  never registered.
* `OnlyOutside`: `AutoSpec => StopsOnlyOutside` for a day of any length, which
  relates the two cases of `is_within_allowed_hours` to one count round the
  clock.

Only model-checked: `Recovers`, `OutsideIsStopped`.

## 11. Inventory

| model | code |
|---|---|
| `real` | what Proxmox has |
| `row`, `owned` | `vm_inventory` as committed; VMs with a vm_assignments row |
| `writer` | SQLite's write lock |
| `pass[t]` | what thread t does: the answer it works on, rows changed (`mine`), not flushed (`dirty`), retries |

A full pass takes an answer (`Asked`, in which a node or cluster may be
missing), looks up one row after the other, inserts what is missing and deletes
at the end what nobody has written since its start. Every query flushes what the
session has changed and so takes the write lock; that is why the rollback after
a duplicate insert (`InsertTwice`) loses no earlier update: a pass that has
updated a row holds the lock, so nobody can insert behind its back. `RowsGo`
depends on it, and its mutant (a lookup without the flush) breaks it. Row times
matter only relative to the start of a pass; `fresh` and `later` keep that
order.

The quick pass looks at some of the rows (the code takes the fifty seen longest
ago) and asks the default cluster for their VMs whatever cluster they are of
(`QuickAsks`); with two clusters it can thus take over the status of another VM,
which `NamedRowsStay` and `TablesTyped` cover and `TablesSettle`, checked with
one cluster, does not. The status written after a start or a stop, the row of a new VM
and the clean-up of orphaned assignments are the other operations. Two VMs, a
syncing thread and another, one change and one miss show every order of two
passes over a row that comes or goes. `InvFair`: threads that have begun go on
and the sync daemon's full passes recur; strong fairness, because the thread is
not always between two passes.

`NamedRowsStay` (`TablesProofs`) proves `RowsGo` for any number of VMs, clusters
and writers. `InvIInv` says of every pass that it has still to look up, looks up
or has changed each VM of its answer (`PassKept`), that a pass with changes at a
VM without a row holds the lock while there is none (`Guarded`), and that a
clean-up that got a full answer names all there is (`AllSure`). `TablesTyped`
proves `TablesTypeOK`, with `CatIInv` of section 12.

`TablesSettle`: bounded changes and misses end, and from then on the inventory
comes to show what is there. A VM that is the last of its cluster keeps its row:
the clean-up deletes only in clusters the answer names (`Shows`).

## 12. Catalog

`there` is what the nodes have, `tpl` and `iso` the two tables, `choice` the
classes' template, `sweep[w]` a pass, which collects additions, updates and
removals in its session (autoflush is off) for one commit. A commit is refused
when it adds what another thread has added or updates what is gone; when the
database was locked, the rollback empties the session and the retry commits
nothing, which counts as success (`SweepLost`). Uploads, new templates and the
classes' choice run beside. Templates registered as a class's own
(`is_class_template`) are left out: no page of the program makes one.

Two nodes, two templates and two files of one name are what it takes for a node
to be silent while the other answers, and for a file to be on both. Then every
full ISO pass adds the name twice, is refused, and loses all it found
(`Blocked`); `TablesSettle` holds for all other states. `KeptWhenHeard` says
when a class can lose its template: only if a node was silent, or the template
was away and came back. Fairness as in Inventory.

`TemplatesStayChosen` (`TablesProofs`) proves `KeptWhenHeard` for any number of
nodes, templates, classes and passes. `HeardInv`: while every node has answered,
no pass is about to remove a template before the first event (`InStep`), nor
after it one that a class uses and that is there (`ChosenSpared`). A full pass
spares a template it has found or whose node it has yet to ask (`Spares`), which
is why one event is harmless in whatever state it meets the passes.

## 13. IpCache

| model | code |
|---|---|
| `lease`, `neigh` | the network: the VMs' addresses, the kernel's neighbour table |
| `arpCache`, `cacheValid`, `scanning`, `worker` | `_arp_cache`, its age, `_scan_in_progress`, the background scan |
| `rowIp`, `seatIp` | `vm_inventory.ip`, `vm_assignments.cached_ip` |
| `listing[t]` | a thread in `get_all_vms` |

A listing is a run of steps between which others get in: it takes the addresses
the database has (`List`), asks guests that have none and stores what they say
(`Agents`), takes an address by VMID where there is still none (`Enrich`), looks
into the cache (`Ask`), sweeps the network or has it swept (`SweepAndLook`,
`Want`), and writes the result back, twice (`Save`, `Persist`). VMIDs are unique
per cluster only, and three of these steps go by VMID alone: guests are asked
through the default cluster (`AskedFor`), addresses are taken from, and stored
in, any row with the VMID.

The sync daemon waits for its own sweep; a page starts a worker or uses what
there is. `OneWorker` (in `IpInv`): the flag read outside the lock is read again
inside it, so no page starts a second worker beside a first. The sweeps of
threads that wait ask no flag, neither theirs nor the worker's, so the network
may well be swept by several at once. A scan that raises takes the flag down
and leaves the cache's age (`WorkFails`); a thread that cannot be started leaves
the flag up for good (`WantFails`), and no page scans in the background again.

`Addressed`: the row of a VM whose MAC is known is not wrong for ever. It can be
wrong again and again: a listing that was slow writes what it once read. It says
nothing of containers. Once a container has an address in the database it is
not scanned, and the address is kept without an age, so one that changes stays
wrong until somebody clears it. `IpFair`: the daemon's listings go on, time
passes, and the kernel drops lines that nobody answers for; pages, workers and
flags may stop. It is checked in "addresses", with the daemon; two pages with a
container (part "pages") are checked for `IpInv` only. Left out: the addresses
of the previous listing, kept in memory for VMs that have none (their rows keep
those too), and listings of the daemon that raise.

`OneBackgroundScan` (`TablesProofs`) proves `IpInv` for any number of threads.

## 14. What is not modelled

* *Code no execution reaches.* Template migration (`template_migrate.py:69`
  passes arguments the service does not take); the threads of the VM builder
  (they read `current_app` outside an application context), and with them
  `vm_deployment_service.py`; the idle branch of auto-shutdown after its first
  step; a deploy after its export; the reimage of linked clones (a TypeError).
* *Code nothing calls.* `utils/locking.py`, `utils/timeout.py`, the caches of
  cluster resources in `proxmox_service.py`, `push_base_to_students`,
  `update_overlay_backing_file`, `cleanup_base_image`,
  `trigger_iso_sync_all_clusters`, the functions that stop daemons and reset
  health records, `lookup_ips_parallel` and `fast_verify_vm_ip`.
* *Single statements.* Users, owners, import, clusters, settings, mappings, the
  administrators' forms for assignment rows, snapshots, progress records: one
  read or one write and commit each.
* *No state of its own.* Consoles, RDP files, terminals, pages and login.
* *Template replication at start-up*, which clones every template to every node
  and would need the storage of all clusters.
* *Vendored browser code* and one-off migration scripts.

Hazards without a property, or that a property covers only in part, keep a note
in `PROJECT.json` that says why. Most are interleavings the models have and for
which the property is false, so that it is claimed, and checked, for one request
at a time or without failures: a second VM by assignment (`OneVmPerStudent`),
rows and holders that survive a deletion (`NoOrphanRows`, `NoDanglingHolder`),
two allocators that take one prefix and VMs of a failed deployment in the range
of the next class (`OneByOneInv`), rows lost with a failed commit (`LoneInv`).
That a waiting student depends on somebody who presses auto-assign is how the
program is meant to work.
