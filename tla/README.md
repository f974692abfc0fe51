# WalT server: models and proofs

This directory holds TLA+ models of the server side of WalT (`src/server`, with
the event loop of `src/common`), the TLC configurations that check them and
TLAPS proofs about them. `PROJECT.json` gives, for each definition, the
lines of the source it stands for, and for each property a plausible bug of the
code (a `_Xxx` variant next to the definition it changes) that breaks it.

Paths below are relative to `src/server/walt/server/processes/main/` unless they
start with `src/`.

## 1. The system

The server daemon is four processes: `server-main` (all the state), `server-db`
(PostgreSQL), `server-blocking` (podman, SNMP, registries) and `server-hub` (the
sessions of clients). Each runs one event loop (`src/common/walt/common/evloop.py`);
they talk through pipes with an RPC connector (`src/server/walt/server/process.py`).
What makes the code hard is what happens *between* two handlers: a workflow
(`workflow.py`) is a chain of handlers resumed by the end of a command, a result
of another process or a planned event. A handler runs to completion, with one
exception: a synchronous call to a client runs a nested event loop until the
client answers (`sync_runner()` of `process.py`), so other handlers run in the
middle of the one that called. A query to `server-db` only listens to its own
connector, so it is atomic for the other handlers.

| Component | State | Operations | Hard behaviour | What makes it correct |
|---|---|---|---|---|
| service restarter (`network/service.py`, `dhcpd.py`, `named.py`) | two versions, `restarting`, callbacks | `update`, `wf_update`, `restart`, end of the command, planned loop | updates during a command or the delay, failing command, restart of the daemon | one loop at a time, no callback lost, the last file served |
| image store mounts (`images/store.py`, `exports.py`, `network/nfs.py`, `network/tftp.py`, `mount/`) | `mounts`, `deadlines`, `_update_wf`, `_planned_update_wf`, exports, symlinks, kernel mounts | `wf_update_image_mounts`, its passes, planned update, commands, `cleanup` | associations that change during an update, failing commands, grace time, kill and restart | a node boots an image that is mounted and exported; an exported image is not unmounted; unused images leave |
| log pipeline (`logs.py`, connector to `server-db`) | buffer, queue of requests, cursor, real-time buffer | `log`, `flush`, `stream_db_logs`, results | lines logged while a request is in flight or while a client reads the history | every line stored once; history and real time join |
| event loop | listeners, pending and planned events, recursion depth | `loop`, `do`, `plan_event` | nested loops, listeners removed under way | handlers of one listener are not reordered |
| API sessions (`apisession.py`, `task.py`, `src/server/walt/server/process.py`, `src/server/walt/server/processes/hub/`, `src/common/walt/common/apilink.py`) | submitted tasks, calls in progress of each client, results, sessions | `sync_runner`, `async_runner`, `handle_next_event`, `close` | calls that come back during a call, clients that leave in the middle | a call is answered once, a request is answered, no session is kept for nobody |
| workflow engine (`workflow.py`) | steps, environment, end callbacks | `next`, `interrupt`, parallel steps, continuation | empty parallel steps, exceptions | a workflow ends and resumes those that wait |
| node boot status and wait (`nodes/status.py`, `wait.py`, `reboot.py`) | booted macs, boot info, events, waiting tasks | boot events, timeouts, reboots, `wait` | late detection of lost connections, status read before a delay | a client that waits for booted nodes is answered; the status of a node is the one of its last connection |
| powersave and PoE (`nodes/powersave.py`, `poe.py`) | power-off timeouts, free nodes, ports off | check, wake-up, `set_image`, `reboot` events | commands to switches take seconds, requests race them | only free nodes are turned off, what is off is recorded, failures are tried again |
| registration (`nodes/register.py`, `server.py`) | macs being registered, tables, exports | registration workflow, `forget_device` | downloads that take minutes while devices are forgotten and detected again | a registered node has all it needs, registrations end |
| topology (`src/server/walt/server/processes/blocking/devices/topology.py`, `grouper.py`, `loops.py`) | table `topology` | rescan, report of a node, forgotten location | partial data, that is obsolete, or contradicts other data | a forest, that believes what LLDP says |
| image catalogue, builds, clones, registries (`registry.py`, `images/`, `src/server/walt/server/processes/blocking/images/`) | names of podman, their cache, store and table `images`, backups, labels of tasks | `clone`, `squash`, shell session, `build`, `rename`, `remove`, `duplicate`, `set_image`, `resync_from_registry` | requests answered between two steps of a job of server-blocking, steps that fail, a cache that podman does not follow | the image of a node is not lost; store and cache tell what podman has; a clone is all or nothing |
| devices, settings, VPN | tables | requests of clients | single SQL requests | what registration uses of them |
| client, node, virtual, doc packages | none across steps | command line, boot scripts | none that a model would reach | the connection of the client is part of API sessions |

Interactions: `set_image` and registration change the table `nodes`, trigger the
update of the mounts, then `wf_update` of DHCP and DNS (they wait for both). All
components log; logs go through the connector to `server-db`, which also carries
the synchronous queries. Powersave, reboots and boot status share the power of
switch ports. `PROJECT.json` lists the hazards, each at its line.

## 2. Modules

| Module | Contents |
|---|---|
| `ServiceRestarter` | the restarter, the `update()` that owns it, the part of systemd behind `busctl` |
| `MCServiceRestarter` | its instance; configuration `MCServiceRestarter.cfg` |
| `ImageMounts` | store, exports, symlinks, commands and kernel mounts |
| `MCImageMounts` | its instance; `MCImageMounts.cfg`, `MCImageUpdateStuck.cfg` |
| `ImageService` | what the store promises to the rest of the server, without workflow nor commands; `ImageMounts` implements it |
| `ImageMountsProofs` | its theorems, and the refinement of `ImageService` |
| `LogPipeline` | log buffer, connector, database process, one log client |
| `MCLogPipeline` | its instance; `MCLogPipeline.cfg`, `MCLogOverwritten.cfg` |
| `LogPipelineProofs` | its theorems |
| `NodeWait` | background process of the boot status, tables of the waiting commands, nested loops |
| `MCNodeWait` | its instance; `MCNodeWait.cfg`, `MCWaitForever.cfg` |
| `NodeWaitProofs` | its theorems |
| `DeviceTables` | the tables `poeoff` and `topology`, as the power of nodes uses them |
| `BootStatus` | what the handlers of the boot status compute: events, boot timeouts, retries |
| `Powersave` | what the handlers of powersave compute: free nodes, power-off timeouts, checks |
| `NodePower` | both, composed with the commands to switches and nodes, and the nodes themselves |
| `MCNodePower` | its instance |
| `NodePowerProofs` | its theorems |
| `ApiSessions` | clients, hub, pipe, nested handlers of server-main |
| `MCApiSessions` | its instance |
| `ApiSessionsProofs` | its theorems |
| `NodeRegistration` | detection, registration and forgotten devices |
| `MCNodeRegistration` | its instance |
| `NodeRegistrationProofs` | its theorems, and those of `ServiceRestarter` |
| `LinkLayer` | links between devices: merge, cleanup, analysis of forwarding tables |
| `NetworkTopology` | rescans and reports that use them, while cables are moved |
| `MCNetworkTopology` | its instance |
| `NetworkTopologyProofs` | its theorems, and those of `LinkLayer` |
| `ImageCatalog` | names, cache and store of images, jobs of server-blocking, requests of a user |
| `MCImageCatalog` | its instance |
| `ImageCatalogProofs` | its theorems |

### 2.1 ServiceRestarter

`config_version`, `service_version`, `restarting` and `callbacks` are the
attributes of the object. `command` is the `next_service_version` captured by the
closure of the command in flight, `planned` counts the planned calls of
`restart_service_loop`. A configuration file is its version; `update` chooses
whether the generated file differs from the one on disk. Two actions are not in
the repository: `BusctlQueuesJob` (the command has queued a job) and `SystemdJob`
(systemd runs it and the service reads the file, whatever version it is by then).
`loaded` starts as `Unknown` when the service was stopped or still runs the file
of an earlier daemon.

### 2.2 ImageMounts

An image is its image id. `imageOf` is the table `nodes`. One pass of
`_wf_update_image_mounts()` is split as its steps are: `PassMounts` (commands to
mount first), `PassUnmounts` (exports, then commands to unmount), `PassEnds` (no
change: symlinks, end of the workflow, `plan_next`). `phase` and `pending` stand
for the remaining steps and `_remaining_parallel_steps`; `toUnmount` and `kept`
are the environment the pass leaves for the steps after the mounts. A command is
`launched`, then `done` or `failed` (in its own process), then handled by
`CommandEnds`. `Request` is any change of association: `set_image`, a
registration, `forget_device`, or a new image id for a name in use. `Cleanup` and
`Stop` are the end of the daemon; a kill is a `Stop` without `Cleanup`, and what
the kernel has mounted and exported survives it.

A clone removes names of images from the registry, and gives them back some steps later
(`NameRemoved`, `NameRestored`), while passes run: `absent` is the nodes whose image has lost
its name, `looked_up` what a pass reads then. Such a pass leaves these nodes out
(`store.py:309-312`): their image gets a deadline, is not in `all_mounts` after it, and they
are `outdated`. Its last step raises (`update_fails`), which leaves `phase = "stuck"`: see
section 4. `clone` tells the names that changed image (`retagged`); the cleaner of a clone
that succeeds triggers an update, the one of a clone that fails does not (`CloneSucceeds`,
`CloneFails`). Which names exist and what each step of a clone does is in `ImageCatalog`;
here a name that a node uses goes and comes back, possibly with another image.

The time of `store.deadlines` is three values: no deadline, running, elapsed.

### 2.3 LogPipeline

A line is its rank. `arrays` holds the numpy arrays that the buffer used: a
request keeps the number of its array and a length, because `pop()` returns a
view, and becomes rows when `_write_task` pickles it. The connector has one
request in flight and a queue (`_serialize_reqs`). `DbExecutes` is the database
process. The client goes through `history`, `sending`, `over`.

Left out: synchronous queries (they only delay the queue), streams, filters,
checkpoints. Lines logged by the synchronous query of
`write_realtime_logs_to_client` are left out as well.

### 2.4 NodeWait

`booted`, `events` and `bgProcessing` are `_booted_macs`, `_booted_events` and
`_bg_processing`; `tasks`, `tidToMacs`, `macToTids` and `named` are the tables of
`WaitInfo` (an absent key of a `defaultdict` is an empty set). `stack` holds the
handlers that were suspended by a call to a client, the last one on top: only the
top may go on, and other handlers start (`Idle`) when the loop of its call runs.
`_bg_process()` is one frame, from `BgProcess` (events read, booted nodes added)
through `Announce` (one booted node, with the tables), `SendLabel` and
`ClientAnswers` (the loop of `flush()`), to `BgEnds` (nodes that went down, boot
check). `rebooting` is the time between `reboot_nodes()` and its callback
(`RebootEnds`). `Wait` is `wait()` of `nodes/manager.py`; when powersave turned off
one of the nodes, the command goes through "waking", with the `view` it had of its
nodes, and `WakeUpEnds` is the end of the commands to the switches followed by
`wf_wait()`. `reported` and `overtaken` are history variables: the last report
about each node, and the nodes that were booted already when a task began to await
them.

Abstracted: `get_username()` and `set_busy_label()` are one call; the message about
a failed wake-up is left out; the outcome of the boot check is any (`BgEnds` may
find failing nodes when some node is not booted, a node that boots again after it
was turned off has its port on at once, and the plan of the next boot check is
`TimerFires`); the id of a task is unique while the task is in the table.

### 2.5 NodePower, BootStatus, Powersave

`BootStatus` and `Powersave` are pure: each operator is a handler of
`NodeBootupStatusManager` or of `PowersaveManager` that turns a record of its
tables into another. `NodePower` composes them: a *world* is the two records, the
tables `poeoff` and `topology` and the workflows under way, and each handler, up
to its next wait, turns a world into another (`checked`, `after_soft`,
`after_poweroff`...). `BecomesWith` makes it the next state. A workflow is a
`job`: which nodes and ports it waits for and which answers succeeded so far.
The slots of `jobs` are the one of the powersave check, of the reboots of failing
nodes, of the ports restored at start, one per moved node and one per request.

The rest of the world is explicit: `powered` ports, the `conn` of each node (a
node may connect again before the loss of its older connection is detected:
`stale`), cables moved (`Move`), commands that fail whether or not the switch
obeyed, and a daemon killed with commands in flight (`Restart(obeyed)`) or answered and
not yet recorded: `_wf_after_multiple_sw_ports_set_poe()` records what succeeded when all
parallel commands are over.

A boot timeout and the two hours of powersave may be over at any time once a check
is planned. Left out: virtual nodes, the hard reboots that a client makes itself,
settings, and a node forgotten (its mac stays in `_mac_of_free_nodes`). The calls
to clients in the announcement of booted nodes are those of `NodeWait`.

### 2.6 ApiSessions

`callStack`, `submitted`, `sessions`, `username` and `waiting` are the tables of the
code. The hub and main each read all that is in the pipe at once (`hubBatch`, the
`todo` of a frame) and handle results before calls (`sorted`), as
`handle_next_event()` does. The `stack` holds the handlers of main that wait for a
client; a frame is a batch, a task or a boot event. A request of a client either
prints lines or waits for nodes, whose boot event calls the clients that wait
(`Notify`). A client may leave at any step, properly or by a reset, in which case
a write of the hub fails (`refused`). A task may raise at any of its steps: its result
message then carries the exception (`raised`), for which the hub has no callback
(`ignored`). `failed` is the exception that leaves an event loop.

### 2.7 NodeRegistration

`db` is the type of each device in table `devices`, `registering` is
`currently_registering_macs`, `step` what the workflow of a device waits for. The
blocking process downloads one image at a time (`pulls`); the image is in the store
(`ImageStored`) before the result comes (`PullSucceeds`), so a device detected in
between is a node already. The mounts, DHCP and DNS are abstracted by what
`ImageMounts` and `ServiceRestarter` establish about them.

### 2.8 ImageService

The abstract service has no workflow: nodes whose change was waited for
(`confirmed`) can boot their image, updates serve and withdraw images without ever
withdrawing one of a confirmed node, the end of the daemon confirms nobody. The image of a
node may lose its name (`unnamed`): the node can still boot it, until an update leaves it
out, and no update is over (`Completed`) before the name is back. `ImageMounts!Service` maps
it: `confirmed` is the nodes that are neither waiting nor outdated, `unnamed` is `absent`,
`served` the images that are mounted and exported, `link` the symlinks.

### 2.9 LinkLayer, NetworkTopology

`LinkLayer` has the algorithms on sets of links. The code iterates dictionaries
and sets: where the order of an iteration changes the result, the operator is the
*set* of the possible results (`merge_other`, `cleanup`, `backbone`), and the
action chooses one. A rescan is `StartRescan`, one `Query` per device, `Merge` and
`Save`; between them cables are moved and locations forgotten. `cabling` is the real
network, a tree (or several, `Wired`), which the queries show in part: a switch has LLDP, a
forwarding table, both or none, and some nodes are silent. `LldpBelieved` compares the
links that a rescan is about to save with those that LLDP has shown; it has two
exceptions: what a forwarding table says wrongly of a node (`misled`), and a
port that only the past topology gives (`recalled`).

The results of `Merge` were compared with those of the classes of `topology.py`,
run on the same data, for the transitions of several instances: each result of
the code was one of the model.

Left out: VPN and secondary addresses, devices registered by a scan, labels of
ports, the printed tree. A save is one step: requests to the database that
come in the middle of it are left out.

### 2.10 ImageCatalog

`tags` is podman, `cache` is `names_cache` of the registry, `store` the images of the
store and the rows of the table (one variable: they change together). server-blocking
runs one job at a time. A job is a *program*, the list of its steps (`prog`): the
workflow of a clone is computed when it starts (`selected`, from the table of
`perform_clone()`), as in the code, and the cleaner replaces what is left of it when a
step raises (`raises`). Each step is an action: a call to the registry or to the store
of server-main (`Tag`, `Untag`, `Drop`, `Await`, `Refresh`, `Resync`, `Find`, `Compat`), or a
command of podman in server-blocking (`Pull`, `Commit`, `Rmi`, `Retag`, `Build`), which
changes `tags` only. Between two steps, server-main answers requests. The cloning of
default images calls the client in the middle (`CloneDefault`, `ClientAnswers`).
`shell` and the field `obj` of a job refer to an image *object*, which a rename
changes and a removal kills: that is how sessions of the code keep it.

`start` and `fetched` are history variables of `CloneAtomic`; `spoiled` holds the names on
which the code makes no promise, see section 4. The backups of a clone (`walt/clone-temp:<uuid>`)
and the temporary name of a commit (`localhost/walt/commit-temp`) are not names of images of
users: `TemporaryNames` assumes it.

Left out: publish, search, metadata, `fix_owner`, the retry after missing credentials, the
restart of the daemon, builds whose directory is sent by the client (they run
beside the jobs), requests of other users on the same names, the number of layers, and the
labels of node models, whose verification may fail or not. `perform_clone()` reads what
exists in two calls, which are one step here.

## 3. Runs

| Run | Configuration | Shows |
|---|---|---|
| `service_restarter` | 2 waiting workflows, 3 versions, 1 failing command | invariants `OneRestartLoop`, `NoLostCallback`; liveness `CallersResumed`, `LastVersionServed` |
| `image_mounts` | 2 nodes, 2 images, 3 changes (a name removed by a clone counts for 2), 1 failure, 2 starts | `AssociatedImageServed`, `UnexportedBeforeUmount`, `GraceRespected`, `UpdatesComplete`, `UnusedLeavesMounts`, and the refinement `ImplementsService` |
| `image_update_stuck` | 1 node, 2 images, 1 change, 1 failure | **violated**: a failed command blocks every later update |
| `log_pipeline` | sizes 2, batches up to 4, 5 lines | `NoLineUncounted`, `HistoryMeetsRealtime`, `LinesReachTable`, `HistoryEnds` |
| `log_overwritten` | sizes 2, batches up to 2, 6 lines | **violated**: lines overwritten while they wait in the connector |
| `node_wait` | 2 nodes, 2 commands, 3 reports or boot checks | `WaitTablesAgree`, `LabelsSendable`, `AwaitedNotBooted`, `StatusIsLastReport`, `ReportsProcessed`, `WaitersAnswered` |
| `wait_forever` | 2 nodes, 1 command, 2 reports | **violated**: a node that boots during the wake-up of another is awaited for ever |
| `node_power` | 1 node, 2 ports, 1 request, 1 fault, 1 boot retry | `StatusFollowsConnections`, `PortsOffKnown`, `MonitorPlanned`, `OwnedNotTimed`; liveness `RetriesSpent`, `FreeTurnedOff` |
| `api_sessions` | 2 clients (one waits, one prints), 1 request each, 2 boot events | `CallInOnePlace`, `ClientsExpectCalls`, `SessionsFollowClients`; liveness `CallsReturn`, `RequestsAnswered` |
| `node_registration` | 2 devices, 2 requests to forget each | `NodesServed`; liveness `RegistrationsEnd`; no deadlock |
| `topology` | 3 switches, 1 node, 2 rescans, 2 changes | `Forest`, `FailsOnReports`, `LldpBelieved` |
| `image_catalog` | 2 names of the user, 1 default image, 2 contents, 1 node, 2 jobs at once, 3 requests | `NodeImageKept`, `CatalogueTrue`, `OneTask`, `CloneAtomic` |

Some of the properties that are proved for every value of the constants (section 5) are not
repeated by a run: `TypeOK` of all the modules that have proofs, `OneCommandPerImage` and
`OneBgProcess`.

Bounds. Three versions let two updates arrive during one command, with a third
after the delay. Two nodes and two images give an image that is shared, left and
used again; three changes fit one during the mounts and one during the
unmounts of one update, or a name removed and an association changed before it is back; two starts give one kill or one proper stop. With sizes 2
the array has 4 entries: 5 lines fill it, replace it by a larger one, and give
histories of zero, one and two full blocks. In the log runs the last requests
exhaust the bound.
Two commands on two nodes let a command register in a nested loop of a call to
the other one, under the announcement of one of its nodes; three reports let two
contradict each other in one batch while a third one starts the background process.
In `node_power` one node already has all that races: a check and a request that
send commands to its port at the same time, a reboot, a connection that replaces an
older one, a cable moved to the free port (two ports are needed for that only), and
a restart in the middle of each of them; one fault of a command or one restart, as
two of them only add paths that were shown to be independent by the proofs, which
have no bound. In `api_sessions` the client that prints makes the hub and main
answer a call while the other one is called by the boot events, and each may leave;
two events are enough for a handler nested in another one. In `node_registration`
two devices share one queue of downloads, and a device can be forgotten, detected
and forgotten again. In `topology` the server (2), a switch without LLDP (4), a
switch (3) and a node (1) form a chain: the smallest network where one link is shown
by LLDP and another can only be deduced from the forwarding tables, through a device
that is silent. Two rescans, of all switches or of one, give a past topology to
merge with, and two changes a cable moved before or during a rescan, and a lost query.
In `image_catalog` two names of the user are a source and a target, or a name and its new
name, and the default image is a third one, of another user; two contents tell an image from
its successor; three requests submit a job and two changes around its steps, or two jobs and
one change.

Symmetry is used in `image_catalog` only (names of the user, contents): most other runs check
liveness, and in `topology` devices are compared by their number. `CHECK_DEADLOCK FALSE` is there where the system may rest when nobody asks
anything, or where a bound is exhausted; in `node_registration` a device may
always be detected again or the daemon restarted, so deadlock is checked.

Fairness. Commands end, planned events fire, a clone whose names are back ends, results are handled and the database
process answers (`WF` per action): the kernel, the event loop and the other
process see to it, as none of these is ever disabled by another request. systemd
starts the daemon again (`WF_vars(Start)`), within the bound on starts. Requests,
log lines, clients, failures, kills and the cleanup have no fairness. No strong
fairness is assumed: where an `umount` can be disabled by an export, the export
is removed first, which is what `UnexportedBeforeUmount` says. In `NodeWait` a
running handler goes on, commands to switches and reboots end, and a client that is
called answers or leaves, in which case the hub answers for it. The last one is an
assumption on clients: one that is alive and never answers would freeze the boot
status of all nodes (a hazard of `PROJECT.json`). `ApiSessions` makes the same
assumption and adds that the loops of both processes run. In `NodePower` planned
checks, delays and commands end; nodes may do anything. It is weak fairness of three
actions with the predicates that enable them written out, because TLC needs too
long to compute `ENABLED` of actions with that many successors. In
`NodeRegistration` downloads and updates of the mounts end, and systemd restarts a
daemon that failed. `NetworkTopology` and `ImageCatalog` have safety properties only: jobs of
server-blocking may wait for ever (section 4).

## 4. What disagrees with the source's own statements

Three violation runs, quoted in `PROJECT.json`:

1. `images/store.py:478`: the exception raised for a failed command is swallowed
   by the event loop and the workflow never ends.
2. `logs.py:45`: a batch waiting in the connector is a view of a buffer that is
   written again.
3. `nodes/wait.py:45`: `wf_wait()` uses a boot status read before the wake-up of
   nodes in powersave, so a node that boots meanwhile is awaited though it was
   announced already.

`LastVersionServed`, `UpdatesComplete` and `UnusedLeavesMounts` are stated with
"unless a command failed" (or, for the last two, "unless an update ended while the name of an
image in use was missing"), which is what the code gives, and `WaitersAnswered` with
"unless a node was overtaken". The properties of the other modules carry such
exceptions too, each held by a history variable; they were met as counterexamples of
TLC, and each stands for something the code does:

**Image store** (`outdated`, `phase = "stuck"`).
- `images/store.py:63`: `store.mounts` starts empty, so images left mounted by
  a killed daemon are only known to the next one if a node still uses them, and the others
  stay mounted (`store.py:23` says that an image that is not used any more is unmounted).
- `store.py:309` says of an image whose name a clone has removed: "the image may not be
  available yet; pass for now". The pass goes on without it, but its last step does not:
  `tftp.update()` reads the metadata of the images of all nodes and raises a `TypeError` on
  the one that is missing (`network/tftp.py:189`), before `_update_wf` is reset
  (`store.py:373`). All later changes then wait for this update, which never ends, until
  the daemon restarts. When the pass was run by a planned event, the exception leaves the
  event loop and the daemon dies (a `Stop`).
- Passed over for as long as the grace time, the image of a running node is unexported and
  unmounted (`outdated`).
- For the same reason, an operation that refreshes the symlinks raises during such a
  clone, and so does the cleanup of the daemon, before it unmounts anything
  (`server.py:132`).
- A clone that fails gives the names their images back and triggers no update, as "there was
  no change" (`clone.py:266` in `blocking/images/`): what a pass left out meanwhile stays so
  until the next update.

**Restarter.** `network/service.py:56`: `update(force=True)` does not restart a
service whose file on disk is already the generated one, though `server.py:101` calls it
to "ensure the dhcp server is running".

**Sessions** (`failed`, `"aborted"`, `revived`, `ignored`).
- A task that raises returns its exception (`main/task.py:38-44`), but the hub submits tasks
  without an exception callback: it prints a warning (`src/server/walt/server/process.py:513-520`:
  "it does not make sense to throw the exception in this current context") and forgets the task.
  `return_result()` is not called, and the client waits until it is interrupted.
- `src/server/walt/server/process.py:533`: the hub looks for the task of a call
  outside of its `try`. When the task is already over (its result was sent by a nested
  handler, or is in the same batch and was sorted first), the `KeyError` leaves the
  event loop and the daemon stops; `nodes/wait.py:5-9` says these functions "had to be
  carefully written regarding these remote procedure calls".
- An exception of a call made by a boot event (a connection reset under the write of
  the hub, where `src/server/walt/server/processes/hub/client.py:118` catches an end of
  file only) leaves main's loop; a comment next to it says that calls to clients that
  left return `None`.
- `close()` ends with the assertion "Returning twice" when a result was already
  sent: the calls below in the stack are not answered, and main keeps the session.
- The hub pops the last call of a client while the client answers the first one:
  the answers of two calls in flight are swapped.
- A task that stayed in the batch of an outer handler creates its session again,
  after its `destroy_session` was handled in a nested one.

**Registration** (`failed`, `missed`).
- A device forgotten during its download has no `ip` any more when the download ends:
  `KeyError` in the handler of the result, and the daemon exits.
- Forgotten and detected again during its registration, it is ignored as "being
  registered", and not registered until the daemon restarts.
- With two nodes of the same model, the second download may fail after the first one
  stored the image: a device detected as a node in between is interrupted.
- After a failed download DHCP and DNS are not updated.

**Power** (`rearmed`, `untimed`, `overtaken`, `unwatched`, `doubtful`).
- `poe.py:105`: the ports turned off are recorded when all parallel commands are over. A
  daemon killed before that (or before the answer of a command that the switch obeyed)
  leaves ports off that no table knows, and nothing turns them on at the next start, although
  `server.py:119` says "enable PoE if some ports remained off" and
  `src/doc/walt/doc/md/dev-server-db.md:99` that `poeoff` is there "for the server to restore
  its knowledge about PoE status when restarting". The node of such a port stays without power
  until a workflow of another cause turns its port on (`doubtful`).
- `poe.py:107`: the same goes for a command that the switch obeyed and that is reported as
  failed: only what succeeded is recorded.
- `powersave.py:173`: a free node is taken for a moved one if its port is recorded off when
  it boots. When its old port is off, or being turned off, and LLDP finds it at the new port
  before it connects, `node_bootup_event()` sees no such node: no power-off timeout is
  armed, and the free node keeps its power for ever, although the daemon knows where it is
  (`untimed`).
- `src/doc/walt/doc/md/optional-features.md:51` says that only free nodes are considered
  unused and turned off. A wake-up that failed (`powersave.py:108`), a node that moved (184) and one that
  is not located (82) set a power-off timeout whoever owns the node; the check does not
  look at `_mac_of_free_nodes`.
- `reboot.py:77`: the answers of soft reboots are applied when all nodes have
  answered, so a node that is back already is recorded as down.
- `status.py:205`: "powersave" stays the cause of the stop of a node after it is
  powered on, and its boot is not monitored.
- `powersave.py:177`: the ports powered on are recorded when all commands are over, and
  a node that boots earlier is taken for a node that moved.
- `status.py:64`: a connection lost before it is confirmed, while an older one is not
  detected as lost, leaves the node "booted" for ever.
- `status.py:187`: retries given to a node that had none left plan no check.
- Two workflows may work on one port: there is no lock, and the table may end up
  different from the port (`doubtful`): off and not recorded, or on and recorded off, in
  which case powersave does not turn a free node off.

**Topology** (`reported`, and the two exceptions of `LldpBelieved`).
- A link reported by a node has no date: the next rescan that compares it raises a
  `TypeError`, and the client is never answered.
- `topology.py:824` says "merge with priority to LLDP data", but a link deduced from a
  forwarding table is more recent and wins for a node (`misled`).
- `topology.py:303`: a link of LLDP whose port is not known on one side takes the port
  that the past topology has for it (`recalled`), with the date of the new link, and this
  port may be obsolete. Switch 2 was at port 1 of switch 4, which has no LLDP; it is now at
  another port of 4, and switch 3 at port 1. At the next rescan LLDP shows 2–4 and
  the table recalls port 1; the forwarding tables show that 3 is there. Two
  links are at one location, and the deduced one is more recent: the link that LLDP shows
  is dropped, although `topology.py:836` relies on dates to "give priority to new data".
- `topology.py:201` says that edge devices on the ports of the backbone are ignored;
  those of a port that is ambiguous are kept.
- `topology.py:326`: the key that is removed is not the sorted one, and two devices may
  stay at one port; the loop of line 199 ends at the first change, not when nothing
  changes; the save overwrites a location that was forgotten during the rescan.

**Images** (`spoiled`, and `built` for a build that nobody finalizes). `clone.py`,
`commit.py`, `update.py` and `tools.py` are those of
`src/server/walt/server/processes/blocking/images/`.
- When the source of a clone is removed or renamed after the clone looked for it, its backup
  fails, and the cleaner drops the *other* name before it was saved, even when nodes use it
  (`clone.py:257`, while line 266 says "we just restored things from backup").
- A clone that fails after its download leaves the downloaded name in the store; removed
  during the download, the image of the working set is restored in podman but not in the
  store.
- `set_image` may give a node the name that a clone downloaded for a while: its last step
  removes that name, then the foreign key makes the update of the store fail.
- When an update of the store fails (the database refuses to remove the row of an image that a
  node uses), the names that left podman stay in the store until the next update (`Resync`).
- `registry.py:60`: `tag()` writes the cache before the command that may fail.
- `rename` and `duplicate` copy the cached content of a name that a squash, or a build not
  finalized, has just replaced: the new name has a stale entry.
- `finalize_image_build_session()` (`images/build.py:74`) updates the store in the middle of
  another job: a name that a clone has untagged for some steps leaves the store, or the
  update fails if a node uses it.
- `images/store.py:509`: the name is looked for, then the client is called (512), then the name
  is written: an image created meanwhile is overwritten, and the insertion fails.
- An exception in a squash or a commit is swallowed (`src/server/walt/server/process.py:519`): the client
  is not answered and `task_label` is never removed, so the image cannot be opened until the
  daemon restarts.
- `tools.py:4` waits for a name without end: removed right after its download or its commit,
  it keeps server-blocking busy for ever.

Found while reading, outside of the models:
- A daemon killed between `remove_ws_image()` and the next tag cannot start again:
  `images/store.py:108` deletes a row that nodes refer to.
- `images/fixowner.py:65` builds the new name without "/", which the parser then refuses.
- A failed SQL request leaves the transaction aborted until the next commit
  (`src/server/walt/server/processes/db/postgres.py:57`).
- `src/server/walt/server/diskcache.py` saves the whole
  file under a lock that is per key, so two processes that save different keys may
  lose one (it is computed again).

## 5. Proofs

All theorems hold for every value of the constants, under the `ASSUME` of each
module (bounds are naturals, `NoImage` is not an image...). Each `IInv` was checked
by TLC before it was proved (the one of `ApiSessions` with the messages at depths 1 to 6,
as its sets of messages are infinite).

`NodeRegistrationProofs`, about `ServiceRestarter` (its specification is `RestarterSpec`:
the two modules are used together there): `RestarterTypeCorrect`, `RestartsSerialized` and
`CallbacksKept`. The inductive invariant adds to the three properties that the
versions are ordered: the service never runs a version that does not exist, and a
command in flight carries a version above the one that runs and at most the last
one. Without it, the range of the callbacks called by `CommandEnds` could skip the
version of a waiting workflow. `ServiceUpdateInv` is proved once for the three actions
that run `update()`. It needs that no caller both forces an update and waits for
it, which is the case in the code: such a callback would never be called.

`ImageMountsProofs`: `TypeCorrect`, `UpdatePromise`, `ExportsReleased`,
`CommandsSerialized` and `GraceTime` (an action property). The inductive invariant
`IInv` says, while the daemon runs: `CommandsOfPhase`, the commands in flight work
on distinct images of `pending` and are those of the phase; `MountsMounted`, what
`mounts` holds is mounted, or pending when the phase is the mounts;
`MountsExported`, it is exported, or split between `kept` and `toUnmount` when the
exports are still to come; `NodesServed`, a node neither waiting nor outdated is served and
its image is in `kept`. The last part is what the property lacks to be inductive:
a step of the workflow could otherwise unexport the image of a node that was
already answered. While the daemon is down there is no command and `mounts` is
empty; during the cleanup only `UnexportedBeforeUmount` is kept. A pass is proved
once, on its parameters (`PassInv`), and used by the six actions that run it. Its hypothesis
is about the nodes whose image it finds (`LookedUp`), and its conclusion leaves the others
among the outdated ones: a pass that finds a name missing is a case of every step.

`ServiceImplemented`, in the same module, is the refinement: `ImageMounts` implements
`ImageService` for every number of nodes and images. The initial state maps to an initial
state, and under `IInv` each action is a step of the abstract service or a stutter: the
start of the daemon is `StartUp`, requests are `Associate`, the planned update, the
commands and the passes that follow them, and the end of a clone `Update`, a refresh of the
symlinks `Relink`, a name removed `LoseName` and given back `Rename`, the cleanup or a kill
`ShutDown`, the commands that survive the daemon `Closing`. `NodesServed` is what makes an
`Update` never withdraw the image of a confirmed node; that an update is `Completed` only when
no name is missing follows from the two outcomes of `PassEnds` (`PassImplemented`).

`LogPipelineProofs`: `TypeCorrect`, `LinesCounted` and `HistoryJoined`. The other parts of
`IInv`: `Filled` (the buffer, and the arrays that queued requests are views of, hold lines
up to their length), `OnlyInsertsCarry` (requests of the history carry no line),
`OneHistoryRequest` and `HistoryStage` (at most one request of the history is anywhere in
the pipeline, and what the client has received depends on which one), `RealtimeFollows`
(the real-time buffer holds the lines logged since the history started). The lemmas on
sequences of requests say what an append or a removal does to the queue.

`NodeWaitProofs`: `TypeCorrect`, `BgSerialized`, `FlushFindsTasks`, `TablesAgree`,
`NoAnnouncementMissed` and `StatusFollowsReports`, for any number of nodes, commands
and nested loops. The inductive invariant `IInv` is the conjunction of these
properties with `CommandsQuiet` (the frame of a command announces
nothing and sends no label) and `ViewsKept` (a command that is woken up has seen a
node that was not booted). `LabelsSendable` depends on `OneBgProcess`: a task ends
only by an announcement, announcements are made by the top frame, and there is one
background process, so none is made while labels remain below. The lemmas on the
stack (`PushedBg`, `PushedCall`...) say what a frame pushed, popped or replaced
changes in what the stack announces. `StatusIsLastReport` needs its own invariant,
`ReportsFollowed`: for each node, the last report about it is the last event of the
queue about it or, when there is none, the status it will have once the downs that
the stack still holds are applied. `HasLast` says that a non-empty set of events
has a last one, which the queue keeps when it grows.

`NodeRegistrationProofs`, about `NodeRegistration`: `TypeCorrect` and `RegistrationPromise`. The parts of `IInv`:
`StepsRegister` (a device that waits for something is in
`currently_registering_macs`), `QueueMatches` (a device is in the queue of downloads once
when it waits for one, and never otherwise), `RowsIdentified` and `StepsDone` (what the
steps already done have established), `ForgottenMissed` (a device that was forgotten
under its registration is in `missed`).

`NodePowerProofs`: `TypeCorrect`, `UsersKeepPower`, `BootsMonitored`, `StatusFollows` and
`PortsRecorded`, for any number of nodes, ports, requests, faults and restarts. Its
invariant is stated on a *world* `w` (the tables and workflows that a handler changes)
and a context `c` (the rest): `Sound(w, c)`. As a handler is an operator from worlds to
worlds, there is one lemma for each (`ProcessSound`, `SettleSound`, `CheckedSound`,
`ResumedSound`...), that holds whatever the context is; `HandlerKeeps` turns it into a
step, `NetworkKeeps` covers the steps that change the context only, and one lemma per
group of actions follows. The parts of `Sound` that are not properties of the run:
`WorldOK` (types, and the steps where each kind of workflow may wait), `SlotsUsed` (the
reboots of the boot check exist only while the background process waits for them),
`Followed` (`StatusFollowsConnections`, and what the events still to be processed say),
`OffKnown` (`PortsOffKnown`) and `OnPowered`: a row of `poeoff` is removed after a command that turned the
port on, which is right only if the port is still on, or if another workflow worked on
it meanwhile (`SharedDoubtful`). `PortsRecorded` says nothing of the ports in `doubtful`, which the
code may lose (section 4); a restart adds to them the commands obeyed or answered and not
recorded, and no other port of the workflows under way. A `CASE` of the module has branches that exclude each
other, since TLA+ does not say which of two true branches is taken.

`ImageCatalogProofs`: `TasksExclusive`, `ImagesKept`, `CatalogueKept`, `ClonesAtomic` and `TypeCorrect`, for
any working set, any number of nodes, jobs and requests. `OneTask` alone is not inductive, because a task keeps an image object and not a
name, and the guards of the requests look at the label of the image. `IInv` adds
`Labelled` (the live image object of a shell session or of a job is in the store and
carries a label) to `Exclusive` (two tasks have distinct live objects). A request opens a task on an
image without label only, so its object is new; a rename moves the label and every object
together; a removal clears the label, but the objects that tasks still hold are then dead, and
a new image of that name is another object. `FirstEnds` and `StoreChanges`
say what the end of a job and a change of the catalogue leave true, and serve all steps of
the programs of server-blocking; there is one lemma per request. `NestedName` (the name a
client is asked about is one of the working set) is a second, independent invariant.

The other theorems share the invariant `Catalogued`. The properties are far from
inductive: a name may be missing from podman for several steps, and only what is left of the
program, with the backup, says that it comes back. `Catalogued` adds to `IInv`:
- `CInv`: the types; an image that a node uses is in the store; a name that is trusted (not in
  `spoiled`) and that no job works on is `Good` (podman, cache and store agree on it); and
  `JobInv`, what the steps left of the first job may assume. The programs are written from
  their last step backwards, with `cons`, so that each stage of a job names the suffix that is
  left. `CloneInv` follows a clone while it saves, checks, copies, updates, restores and cleans
  up; `OtherInv` and `CommitInv` do it for the other jobs.
- `Belongs`: the steps left work on the names of the job, their backups and the temporary name.

The `Effect*` and `Do*` lemmas say once what each kind of step changes when it succeeds and
when it raises; the `At*` lemmas take them at each stage and conclude that the job goes on as
`JobInv` says, or ends well. `StepOnNames` says that a step keeps all names of other jobs. A
request is summed up by `Crosses`: it leaves the names that are still trusted as they were, if
a job works on them, and `Good` otherwise. `RequestCrosses` shows this of each request, and
`CrossesKeep` that it is enough. A request that would not satisfy it puts the name in
`spoiled`: the proof thus depends on the list of section 4 being complete. One of its
items, the failed update of the store, was found by an attempt of this proof. `CloneEnds`
deduces the action property: only the last step of the clone, or of its cleaner, ends it.
`TypeCorrect` adds to `Catalogued` the bounds (`Bounded`): no step of a job submits another
one, and what is spoiled or built are names of images, because the steps are on names of the job.

`ApiSessionsProofs`: `TypeCorrect`, `CallsKept`, `TasksKept`, `ResultsLast` and
`SessionsReleased`, for any number of clients, requests, nested handlers and messages. The
properties talk about *one* message among sequences of sequences (the pipes, the stack of
calls of each session, the messages that each handler drained), so the invariant counts:
`count(q, S)` is the number of elements of `q` in `S`, and the lemmas of the first part say
what an append, a concatenation, a tail, a sort or the change of one sequence does to it
(`sorted` is shown to be a permutation). `CallsTraced` says that each depth of the stack has
as many traces (calls or results on their way) as there are handlers there that wait, one or
none, *and none at the depths where there is no handler*: without the last part a handler
pushed later at that depth could take the result of one that has ended. `TasksTraced` says
the same of tasks: a task in `submitted` has its message on its way, or runs, or waits, or has
its result on its way, and the others have nothing. It is what makes `ClientsServed`
inductive: the hub removes a task when it takes its result, so a client is owed at most one of a
request, a task and a result (the exception of a task takes away what it was owed), and a call forwarded for a task that is submitted precedes the
result. `SessionsTracked` adds to `SessionsFollowClients` that a session which submitted a task and
is not open any more has been destroyed, or will be. `FramesSound` is what each kind of handler
may wait for. `CloseEffect` says, once for the three steps that run `close()`, that a call leaves
the stack exactly when its result enters the pipe, even when an assertion interrupts it. Each
of the four parts then has a lemma for the steps of the hub and one for those of
server-main, which ask for one equation between the counts of the sequences the step changes.

`NetworkTopologyProofs`: `GroupsAreComponents`, `CleanupMakesForest`, `TableIsForest`,
`ScansFailOnReports`, `MergeSafe`, `Backbone`, `LldpShown` and `TypeCorrect`, for any
network, any number of links and of scans. They assume
that devices and ports are finitely many and that the network is a tree, with two ends per
cable and one cable per port (`AddressAssumption`, `CablingAssumption`).

Links are grouped by a fold over a set, loops are broken and links accepted by recursive
functions, and links merged by a fold over a sequence. The induction theorems of the
library take an operator, which the provers cannot instantiate, so the first part of the
module states induction with sets and functions instead: `NatMin` (a set of naturals that
is not empty has a least element), `LeastMeasure` (so has a set under a function to the
naturals), `Recursion` (an equation `f[x] = F[x, f]` has a solution when `F` looks at `f`
on arguments of smaller measure only), `Fold` (what `FoldSet` and `FoldLeft` compute
satisfies its equation) and `SetInduction` (a set of subsets that has the empty set, and
is closed under the addition of one element, has every finite subset).

`Cut(C, links)` says that no link leaves the set of devices `C`, and `Apart(x, y, links)`
that some cut separates `x` and `y`. `Groups` shows by induction that the groups are cuts,
disjoint, and that no cut splits one, hence `GroupsAreComponents`. A set of links is
`Loopless` when each of its links has ends that are apart without it, which is `acyclic`
without its fold (`AcyclicLoopless`), and is easy to reason about: a part of a forest is one, so is a
forest with a link between devices that were apart (`LooplessAdd`), two forests without a
common device, and an image of a forest with the same ends. `WithoutLoops` and `Accepted`
follow the two loops of the clean-up down to a forest, whatever link is chosen each time.

The inductive invariant `IInv` has three parts. `LinksTyped`: types, dates up to now.
`ForestInv`: the table *and the links that a rescan is about to save* are forests, with one
link per node. `DatesInv`: LLDP links always have a date, and all links have one until a
node reports. The clean-up breaks the loops of confirmed links, then adds unconfirmed
links to what remains; it is right only if the unconfirmed links have no loop of their
own. `MergedLinks` shows it: merged links are confirmed unless they come from the
past table alone, and that is a forest.

`LldpShown` has a second invariant, `BelievedInv`, which TLC checked on the instance of the
run before it was proved. `Wired` says that the cabling stays a tree when a cable is moved.
`ScanInv` relates what a rescan has collected to this cabling: while no cable moves, links
of LLDP are cables, forwarding tables have devices that are behind their ports, and those
that are there have all the switches. `SeenInv` says that links of LLDP are once for each
pair of devices, confirmed and younger than the table. The property is about the end of the
pipeline merge, merge with the past, cleanup, and the proof follows a link through it:
- `Backbone`: what the analysis deduces between switches is a cable. Its proof uses that the
  cables are a tree (`Trees`): each device behind a port is reached by one first cable
  (`FirstHop`). A deduced link is then a cable or is `misled` (`DeducedTrue`), so it contradicts
  a link of LLDP in that case only (`FirstBelieved`).
- `MergeSafe`: `merge_other` keeps a link that is *safe*, alone at its ports in its own
  topology and not contradicted by a link of the other one that has priority. `Kept` is what
  each step of the fold keeps about that link.
- the merge with the past fills the unknown ports of links, which may contradict others: a
  link that is not `Excused` by the two exceptions is still safe (`SecondBelieved`).
- `CleanupScanned`: the scanned links are a forest, younger than the other confirmed links. Each
  loop that the cleanup breaks has a link that is not one of them (`WalkBeyond`), so the
  oldest one, which is removed, is not either (`RecentStay`).

The proofs found two flaws. In an earlier form of the model `one_per_node` kept links
between two nodes, which the code drops (`topology.py:366`), and two nodes could thus be
linked twice. And `LldpBelieved`, which held on the instance of the run, was false with five
switches: where its proof stopped was the case of the obsolete port that §4 describes,
which TLC then reached on such a network. It was restated with that exception, and is
now proved.

Only model-checked: liveness (`CallersResumed`, `LastVersionServed`, `UpdatesComplete`,
`UnusedLeavesMounts`, `LinesReachTable`, `HistoryEnds`, `ReportsProcessed`,
`WaitersAnswered`, `RetriesSpent`, `FreeTurnedOff`, `CallsReturn`, `RequestsAnswered`,
`RegistrationsEnd`: fairness and `ENABLED` are out of the prover's reach). All the safety
invariants and action properties of the passing runs are proved.

## 6. What is left

- The end of the four processes and the closed pipes of the connector.
- Forgotten devices in `NodePower` (their mac stays in `_mac_of_free_nodes`), virtual
  nodes, and changes of the settings of a node or a switch while a workflow is under way.
- A restart of the daemon in the middle of a job of `ImageCatalog`, and its composition with
  `ImageMounts` (a job ends with an update of the mounts).
- A composition of `NodeRegistration` with the full `ImageMounts` and
  `ServiceRestarter` instead of what they establish.

## 7. Not modelled

- Publication, search and metadata of images: requests to remote registries that change
  nothing on the server. In the modules other than `ImageCatalog`, the effects of images are
  inputs: any change of association is a `Request`, the end of a download is `ImageStored`
  and `PullSucceeds`.
- Settings, labels and VPN of devices: single requests on tables; any change of a device is
  an `update` of the restarters.
- The end of the processes: a chain of signals and closed pipes.
- The NBD service and the disk cache: reads and writes on one socket per node, and a file
  under locks of the operating system.
- File copies, interpreters and streams of expose: bytes relayed between two ends.
- The client, and the packages of nodes, virtual nodes and documentation: command lines,
  boot scripts, tables of a cipher, with no state kept across steps that another actor
  could race with. The connection of a client is part of `ApiSessions`.

Most of the repository is of the last kinds: the parts that keep a state which several
handlers or processes share are about a tenth of its lines, and the modules above
cover them. Modelling the rest would only restate it.

## 8. How to run

    tlc -workers 2 -config MCImageMounts.cfg MCImageMounts
    tlapm ImageMountsProofs.tla
