# A TLA+ verification of Gefyra

Gefyra connects a container on a developer's machine to a Kubernetes cluster. A
*client* joins the cluster by WireGuard through *Stowaway*; a *bridge mount*
puts a reverse proxy, *Carrier2*, in front of a workload; a *bridge* makes the
Carrier send some of the workload's requests through Stowaway to the client.
The operator (`operator/gefyra`) keeps all of this in custom resources and
drives it with kopf handlers; the client library (`client/gefyra`) writes those
resources, installs the operator, and runs containers on the user's machine.
This directory models the parts of both where tasks interleave, checks them
with TLC and proves most of their safety properties with TLAPS.

Paths below are relative to the repository; `stowaway/__init__.py` stands for
`operator/gefyra/connection/stowaway/__init__.py`, and so on.

## 1. Inventory

| Component | State it keeps | Operations | Correct when | Module |
|---|---|---|---|---|
| Stowaway proxy routes (`stowaway/__init__.py:206-346,470-534`) | config map `gefyra-stowaway-proxyroutes`, one service per port, a module-level `asyncio.Lock` | `add_destination`, `get_destination`, `remove_destination`, `destination_exists` | no two routes share a port; no edit is lost; a removal takes the caller's own route; no caller waits for ever | `StowawayRoutes` |
| Route sweep (`stowaway/handler.py:22-28,127-234`) | nothing of its own | `reconcile_proxyroutes`, every 5 minutes | takes debris and nothing else | `RouteSweep` |
| GefyraBridge (`bridgestate.py`, `handler/bridges.py`, `base.py`) | the object's `state`, `stateTransitions`, `clusterEndpoint`; a lock per target | create/resume, field update, timer, delete handlers; the machine's events | ACTIVE means traffic reaches the destination; a failure ends in a state that is retried (not each does, see 3); a deleted bridge leaves nothing | `GefyraBridge` |
| Carrier configuration (`bridge/carrier2/__init__.py`, `config.py`) | the rules in each Carrier | `add_proxy_route`, `remove_proxy_route`, `proxy_route_exists`, `commit` | the rules are those of the live bridges of the target | `GefyraBridge` (one pod per target) |
| GefyraBridgeMount (`bridge_mount_state.py`, `handler/bridge_mounts.py`, `bridge_mount/carrier2mount/`) | the mount's `state`, the duplicated workload, the stored original container | create, delete, timer; prepare, install, uninstall, restore | Carrier only in front of a ready shadow; what an ACTIVE mount says is so; the original workload comes back | `GefyraBridgeMount` |
| GefyraClient (`clientstate.py`, `handler/clients.py`, `resources/serviceaccounts.py`) | the client's `state`, its provider configuration, a service account | create, change, delete, timer handlers | ACTIVE means a WireGuard peer; a client that goes leaves no account, peer or bridge | `GefyraClient` |
| Stowaway peers (`stowaway/__init__.py:142-198,363-468`) | the peers of a config map, the pod that loads them | `add_peer`, `remove_peer`, `peer_exists`, `get_peer_config` | no peer is lost | `GefyraClient` |
| Client library: connections (`types/client.py`, `api/connect.py`, `local/`) | a Docker network, the Cargo container, a WireGuard configuration | `connect`, `disconnect`, removal of a connection, their waiting loops | who is told to be connected is; waiting ends | `ClientConnection` |
| Client library: containers and bridges (`api/run.py`, `api/bridge.py`, `api/rm.py`, `local/bridge.py`) | local containers and their addresses | `run`, `bridge create`, `bridge delete`, `rm`, `rm --all` | a container that runs again gets its bridges back | `ClientWorkloads` |
| Stowaway installation (`stowaway/__init__.py:95-140`, `components.py`, `handler/startup.py`) | five objects, an image, a pod | the operator's startup handlers: check, install, recreate, ready event | a restart or an update keeps users' entries | `GefyraInstall` |
| Client library: installation (`api/install.py`, `api/operator.py`, `misc/uninstall.py`) | manifests in the cluster | `install`, `up`, `operator update`, `uninstall` | an installation that reports success works; waiting ends | `GefyraInstall` |
| Admission webhook (`handler/configure_webhook.py`) | - | admission of bridges, mounts, clients | - | its rules are guards of the modules above |
| WireGuard watch (`stowaway/handler.py:31-124`), Carrier2 routing (`carrier2/src`), the rest of the client library, factories, Cargo, docs, helm and test code | - | - | - | not modelled, see 5 |

**How they interact.** Handlers are coroutines of one asyncio loop; every call
to the Kubernetes API is awaited in a thread, so at each call any other handler
may run. Bridges reach Stowaway and the Carrier only through the two provider
interfaces (`connection/abstract.py`, `bridge/abstract.py`); the shared state is
Stowaway's config maps, its pod, the services, the Carrier's rules and the
custom resources. Three kinds of lock order this: one per target around a
bridge's handlers (`handler/bridges.py:12-18`), one around an edit of the proxy
routes (`stowaway/__init__.py:44`), one around the change and delete handlers of
all clients (`handler/clients.py`). The sweep, the timer of a client and the
handlers of a mount take none. The client library shares nothing with the
operator but the objects: it asks by a field (`providerParameter`,
`destinationIP`) and polls for a state.

**What is hard.** State that is read before a lock is waited for; a timer of the
same object that kopf runs beside its handlers; edits that are several API
calls; ports that are freed and taken again; calls that fail half-way; pods
that are replaced; a restart of the operator at any await; two operators of a
rollout at a time; commands that poll a state which others change. `PROJECT.json`
lists each as a hazard at its line.

## 2. Modules

| Module | Models | Proofs |
|---|---|---|
| `RouteTable` | what the connection provider promises about its routes, each operation one step (abstract specification) | |
| `StowawayRoutes` | the four operations on proxy routes, one API call a step, any number of bridges at it | `StowawayRoutes_proof` |
| `RouteSweep` | the sweep, composed with `StowawayRoutes` and with the calls bridges make | `RouteSweep_proof` |
| `GefyraBridge` | bridge objects, kopf's dispatch, the state machine, the Carrier; routes through `INSTANCE RouteTable` | `GefyraBridge_proof` |
| `ClientWorkloads` | the user's containers and bridge commands, composed with `GefyraBridge` | `ClientWorkloads_proof` |
| `GefyraBridgeMount` | one mount: its handlers, the target's pods, the shadow, the restoration | `GefyraBridgeMount_proof`, `MountCarrier_proof` |
| `GefyraClient` | client objects, their handlers, the peers' map, Stowaway's pod | `ClientConnection_proof` |
| `ClientConnection` | connect, disconnect and remove on each user's machine, composed with `GefyraClient` | `ClientConnection_proof` |
| `GefyraInstall` | the installation commands, the starting operators, Stowaway's parts | `GefyraInstall_proof` |
| `MC*` | constants for TLC | |

A step of every module is one call to the Kubernetes API (or to Docker), which
is where the program can be interrupted. `pc` holds the next call of each
process, `mem` what its handler remembers from earlier ones.

### StowawayRoutes

`routes` is the config map (records for its entries), `services` the labels of
each port's service, `cmLock` the asyncio lock. `pc[b]` is the next call of the
operation bridge `b` is in, or its result; `arg`, `snap`, `port` are the
operation's local variables. `fresh` is the set of operations whose copy of the
map still carries the current `resourceVersion`, which is what a *replace* is
checked against (409); the *patch* of an addition is not checked and merges.
`CallFails` is an API error at any call that can raise. Bridges are the
processes because the handlers of one bridge exclude each other by the lock of
its target. Every interleaving of the bridges' calls is a behaviour.

Destinations are opaque. Where the code compares text, a constant says so:
`destination_exists` looks for "ip:port" *within* an entry, so `Within` is the
relation between destinations; `remove_destination` compares exactly.

### RouteSweep

The sweep's own calls (`SweepRead`, then the listing with its three outcomes,
`SweepReplace`, `SweepService`) interleave with all of `StowawayRoutes`, whose
callers are now bridges that are set up, reconciled and torn down. `sweep =
"dead"` is the end of the `periodic` task: an exception of the target leaves
its `while True`. The loop compares a route with a bridge by client, *address*
and port of the `clusterEndpoint`, not by the port of the destination: `IPOf` is
the address of a destination, and `Alike` are the bridges a route may be taken
to belong to. `Debris` is a route whose port is no bridge's `clusterEndpoint`.

### GefyraBridge

Each bridge has two processes, because kopf runs the create, resume, update and
delete handlers of an object one after the other but its timer beside them. A
process goes `idle -> lock -> ... -> done` (or `raised`, a `TemporaryError`).
`mem` is what a handler remembers: the state it read *before* it waited for the
lock (`GefyraBridge(obj, initial=obj.state)`), the destination of its copy of
the object (the timer's is live), a port, a list of rules. The three walks
through the providers (`is_intact`, `handle_proxyroute_setup`,
`handle_proxyroute_teardown`) are one set of actions told apart by `goal`.
The state machine is written as `Install`, `Restore`, `SetInstalled`,
`Activated`, `Establish` and `Impair`, in the order in which queued events run:
`on_activate` sends `establish` or `impair`, which run after CREATING is
persisted. Each of these writes may fail like every other call (`PersistFails`),
before or after it has taken effect; the exception drops the queued events and
leaves the handler, and `unsaved` remembers the bridge. `CallFails` is a failure
of a provider's call, after which `Failed` says where the handler goes on;
`destination_exists` answers "no" to an error (`Missing`). kopf itself is not in the repository; `StartCause`, `StartUpdate`,
`RemoveFinalizer`, `Restart` model what `handler/bridges.py` relies on. Users
create, edit and delete bridges; the operator's part of the next-state relation
is an operator of its own, so that `ClientWorkloads` can put commands in the
users' place. `crossed` only remembers that an edit came while the timer was
setting the bridge up, or before the former one was handled (`Crosses`);
properties refer to it.

### ClientWorkloads

`box` is the address of the container of each name, or `NoDest`; each shell runs
one command at a time (`cmd`, `at`), call by call: `run` starts a container at
any free address and then restores the bridges that carry its label, `bridge`
reads the address long before it writes it into a bridge, `rm`, `rm all` and
what precedes a disconnect delete bridges and containers. The operator is that
of `GefyraBridge`.

### GefyraBridgeMount

One mount, whose target is a deployment with `Pods` or a bare pod. `mem.line`
is the line of the create or timer handler that the `if state == ...` cascade
has come to, with the state machine's `current_state` in `mem.cur`: `Lines`
writes both cascades down, and a handler goes on at the next line whose state
matches. `duplicate hpa/workload/service`, `list pods`, `store`, `patch`,
`commit` are the calls of prepare and install, `rm workload` ... `rm bridge`
those of delete. `image`, `up`, `upstream` describe a pod; `stale` are the pods
a rollout is going to replace; `store` is the config map with the original
container; `mem.named` are the pods of the handler's list that have not been
replaced since. `restarted` are the pods whose container has been restarted at
all: that is what `install` waits for (`restart_count > 0`), not for the restart
its own patch causes. `late` and `beside` only remember what was going on when
the mount was deleted; properties refer to them.

### GefyraClient and ClientConnection

A client has a worker and a timer, as a bridge has; the change and delete
handlers of *all* clients share `lock`, create and the timer take none. `peers`
and `allowed` are PEERS and the allowed addresses in Stowaway's config map,
`fresh` the processes whose copy carries its `resourceVersion`; `pod` and
`loaded` are Stowaway's pod and the peers it was started with. `goal` is the
event of the state machine that the handler sends; enable, disable and terminate
walk through the same calls (`AskPeer`, `ReadPeers`, `PatchPeers` or
`ReplacePeers`, `RestartPod`, `AwaitPod`), each with its own continuation.
`CaughtAt` says where an exception at a call leads to. An error at the token is
a `PermanentError`: the handler is over and not called again, and `failed`
remembers the client. `ManagesAccounts` is the operator's setting
`DISABLE_CLIENT_SA_MANAGEMENT`, reversed; the runs have the default, TRUE, the
proofs hold for either.

`ClientConnection` adds a machine per client: `cmd` and `at` are the command and
its next call, `net` the Docker network's subnet, `cargo` the container,
`keys` who holds the peer's present keys. A command asks by writing `param` and
then polls (`Awaited`, `NotFound`, `TimesOut`); the webhook's answer is
`Admitted`. `KeysAfter` is what an operator's step does to the keys.

### GefyraInstall

`op` are the operator's pods, each with the two startup handlers it still owes
and the template it was made from (`conf`); `cmd` is the command that runs. The
operator's deployment rolls over: a new pod may start before the old one has
gone. `parts`, `image`, `stowaway`, `running` are Stowaway's five objects, the
statefulset's image, its pod and that pod's version; `entries` says which config
map holds users' entries. A startup handler that fails is called again alone:
`owe` are those that have not succeeded. `broken` remembers that a statefulset
was deleted and not made anew, `overlapped` that two operators were starting at a
time, `lost` that somebody deleted a part; properties refer to them. The patches of `operator update` are three steps, each
of which changes the template.

## 3. Runs

| Run | Instance | Properties | States |
|---|---|---|---|
| `stowaway_routes` | 3 bridges, 2 clients, 2 ports, any number of failing calls | `TypeOK`, `PortsUnique`, `SnapshotCurrent`, `RemovesOwnRoute`, `ImplementsTable` | 1.1 M |
| `route_sweep` | 3 ports; 1 bridge with 3 faults, or 2 with none; fair | `SweepKeepsListed`, `DebrisGoes`, `RoutesComeBack`, `OperationsReturn` | 141 k |
| `gefyra_bridge` | 2 bridges of one target, 3 ports, 2 edits, or an edit and a fault or restart | `TypeOK`, `NoTransitionalState`, `ActiveIsServed`, `DeleteTearsDown`, `RulesApart` | 4.6 M |
| `gefyra_bridge_shared` | 2 bridges of one client and destination | violation: `SharedRouteIsKept` | - |
| `client_workloads` | 1 bridge, 1 container, 2 addresses, 3 ports, 2 commands, 1 fault or restart, fair | `BridgeRecovers`, `DeletedGoes`, `RunRestores` | 490 k |
| `bridge_mount` | deployment of 2 pods or a bare pod, 1 bridge, 1 fault, with and without sunset | `MountTypeOK`, `ActiveIsInstalled`, `GoneLeavesNothing`, `CarrierAfterShadow` | 3.3 M |
| `bridge_mount_live` | 1 pod, 2 faults until it is ACTIVE, 1 after, fair | `GoneRestores`, `DeletedGoes`, `BecomesActive`, `Recovers` | 441 k |
| `client_connection` | 2 clients, 2 subnets; one with all commands (2), one connecting; no faults | `ConnectedSubnet`, `ConnectedTunnel`, `DisconnectedHasNoPeer`, `ActiveHasPeer`, `GoneLeavesNothing`, `NoPeerLost` | 4.3 M |
| `client_commands` | 1 client, 2 subnets, 3 commands, 1 fault, fair | `ConnectionTypeOK`, `CommandsEnd`, `DeletionEnds` | 181 k |
| `client_recovers` | 1 client with an age and a sunset, 1 fault or restart, fair | `BecomesReady` | 831 k |
| `gefyra_install` | 2 operators at a time, 2 versions, 2 commands, 2 faults or deaths during installation and removal, deleted parts, fair | `InstallTypeOK`, `InstalledWorks`, `InstallEnds`, `CrdsCome` | 654 k |
| `gefyra_install_update` | 2 operators at a time, 2 versions, 2 commands, 2 faults or deaths during the update | `EntriesKept` | 4.7 M |

**Bounds and why they are enough.** Three bridges are the least with which two
share a client and a third uses another's port; two ports are fewer than three
bridges, so the search for a port also fails. Two bridges of one target show
every conflict of siblings; two clients with two subnets show two handlers at
the same map, and a subnet that is taken. One edit and one fault put an
interruption at each call. A second edit may come before the first one is
handled, so `gefyra_bridge` has two (`MaxEvents` leaves out two edits and a
fault), and in `client_workloads` the edits are the commands' own. A second fault
may meet what makes up for the first one: a new mount gets stuck only after two
(`Stuck`), a failed addition leaves a route only with a second one
that goes on, and in `GefyraInstall` a fault of a command and one of
the operator it has started meet. So `route_sweep` has three, `bridge_mount_live`
two and both installation runs two. Two constants keep these runs small:
`MaxBeside` bounds the faults beside several bridges, and is 0, so that the faults
of `route_sweep` come beside one bridge; that the sweep keeps the routes of
several bridges whatever fails is proved (`ListedRoutesStay`). `MaxLater` is the
number of faults a mount that has been ACTIVE may still meet, and is 1.
`client_workloads`, `client_commands` and `client_recovers` have one fault, and
what they say is said of one. `client_workloads` has three ports because a route
that a failed addition leaves behind takes a port for good there, where nothing
sweeps. The sweep's type invariant is proved and no run repeats it. Two commands are what it takes to come back
(connect, disconnect; bridge, delete; install, update), three to come back and
change again. Every bound is a constant that is in the guard of the action it
bounds: `MaxEdits`, `MaxFaults`, `MaxRestarts` (in `GefyraBridge` faults and
restarts share `MaxFaults`, so that either may come, and edits share `MaxEvents`
with both), `MaxCommands`, `CommandsOf`; in `GefyraInstall` `Faulty` are the
commands that meet faults, `Deletable` the parts somebody may delete, `Used` the
kinds of objects users have, `Updates` the versions, and `StartupTimeout` is the
program's own limit, set to 1. The sweep and the timers repeat without a bound.
Ports are symmetric in `GefyraBridge` (only compared for equality) and numbers
in `StowawayRoutes` (the lowest free one is taken). All runs but
`stowaway_routes` allow a stop (`CHECK_DEADLOCK FALSE`): when every object is
gone and every command has been run nothing happens any more.

**Fairness and why the code justifies it.** Weak fairness of a handler's and a
command's next call: an awaited call of the Kubernetes client or of Docker
returns or raises. Strong fairness of entering a lock: `asyncio.Lock` wakes its
waiters in first-in first-out order, so a waiter is not passed over for ever.
Weak fairness of timers and of causes kopf owes: kopf schedules each object's
timer again and retries a handler that raised. Weak fairness of the cluster's
own work: it replaces a pod, makes it ready, ends a rollout. Nothing is assumed
of users, of errors or of restarts.

**What holds.**

* The lock of the proxy routes does what its comment says: the map an edit is
  computed from is the map it is written to, as long as only bridges edit. A
  removal takes a route of the caller's own client although
  `remove_destination` ignores its `peer_id`, because the clients' subnets are
  disjoint. The sweep, thanks to the 409, never loses a route that was added
  while it worked.
* A handler that lets go of a target's lock leaves the bridge in a state the
  timer or a retry continues from, whichever call of a provider fails; only a
  restart or a failing write of the bridge's own state does not end so. A bridge
  that says ACTIVE is served, even when a sibling comes, goes or is edited and a
  timer acts on a state it read long ago. It comes back after a fault, an edit, a
  new pod, a restart, or a container that was run again at another address,
  unless it was left in CREATING or RESTORING; a deleted bridge goes.
* What a failed addition or removal leaves in Stowaway's routes is swept, also
  while the bridge is in use, as long as the sweep's task lives.
* Carrier takes the place of a container only when the shadow is ready; a new
  mount becomes ACTIVE after any one failure or restart, and after two but for
  one case; a mount comes back after what it lost, and when it is
  deleted its workload gets its own containers back.
* The edits of the peers' map never lose a peer, though `add_peer` writes all of
  PEERS back and the timer edits beside the lock. Who is told to be connected is
  a peer with the subnet of his network and with the keys his Cargo has; who is
  told to be disconnected is none. Commands need no timeout.
* A new client gets its account and can be connected after any failing call but
  that for its token, and although its timer ends it meanwhile.
* An operator that starts, or is replaced by another version, keeps the users'
  entries of Stowaway's config maps, also when it dies or a call fails, but for
  the cases named below. An installation that reports success has a Stowaway
  that works; its CRDs are there if nothing failed, and otherwise come.

**What does not.** One disagreement of a comment with the code is a violation
run and a finding: two bridges of one client and destination share a route, and
the first to be deleted takes it (`SharedRouteIsKept`); the check the comment at
`bridgestate.py:284` announces is itself commented out. The models also show
what properties are conditioned on:

* *Routes.* A removal frees its port in the map first and deletes the service of
  that port later; another bridge takes the port in between and loses its
  service, which its timer repairs. The sweep edits the map without the lock: an
  addition that read the map before and patches it after the sweep restores
  what was swept. The sweep's task ends by the `KeyError` of a bridge that has a
  route but no `clusterEndpoint` yet, or by the 409, and nobody starts it again.
  Hence `sweep = "dead"` in `DebrisGoes` and the exception for ports used up in
  `RoutesComeBack`, which also says nothing after a failing call: a removal that
  fails between the map and the service leaves a service without a route, and
  `get_destination`, which goes by the service alone, misleads its bridge from
  then on.
* *Bridges.* A bridge that is being deleted is listed until kopf removes its
  finalizer, so a sibling that commits at that moment puts its rule back, and it
  outlives the object; `ActiveIsServed` and `RulesApart` leave out targets with
  such a rule. An operator that stops while a bridge is in CREATING or RESTORING
  finds it in a state no handler continues from. A failing write of the state
  does the same without a restart: `bridge_reconcile` swallows the exception,
  `bridge_create` is called again and has no line for these states, and the
  target's lock is free. `NoTransitionalState` leaves out restarts and the
  bridges whose write failed (`unsaved`), `BridgeRecovers` the bridges that are
  in one of the two states (`Stranded`) and no others. `bridge_reconcile` skips bridges that
  have never been ACTIVE, so a first activation that fails is never retried. An
  edit of a bridge that is not ACTIVE counts as handled without being acted on
  (`DeleteTearsDown` asks that the last edit has been handled). The timer sees
  an edit at once: when it comes between two lookups of a timer that sets the
  bridge up, the timer finds the route to one destination and asks for the port
  of the other. An edit before the former one is handled makes kopf forget the
  one in between, whose route the update handler then does not take away. With
  one edit `ActiveIsServed` and `DeleteTearsDown` hold all the same; with two TLC
  finds them violated after such an edit. Therefore `Undisturbed` leaves out
  edits that cross a handler, and `BridgeRecovers` says that a later round of
  the timer makes up for them, but for a route that nobody uses.
* *Containers.* `bridge create` may write the address of a container that has
  ended meanwhile; `cleanup_stale_bridges` lists the containers before the
  bridges and removes those of a container that has just been started; a bridge
  whose handlers see different addresses may end with two routes, one of them
  unused.
* *Mounts.* A mount that is recovered from MISSING goes to PREPARING with its
  shadow uninstalled, and `prepared()` raises for ever (`Recovers` leaves MISSING
  out). So does a new mount whose duplication fails, with PREPARING persisted,
  if the call that would write ERROR fails as well or the operator restarts
  before it: the create handler goes on at PREPARING, where it only waits for
  the shadow's pods, and the timer leaves a mount alone that has never been
  ACTIVE (`Stuck`, left out of `BecomesActive`). After the sunset the timer
  uninstalls the mount but fails to delete the object
  (`bridge_mount.configuration` does not exist), so it uninstalls again at every
  round. Every installation stores the container it finds as the
  original, which for a bare pod may be Carrier. An API error while the target is
  read counts as a missing target. A restoration that meets a conflict is only
  logged (`GoneRestores` speaks of mounts at which nothing else was going on),
  and the HPA stays when its shadow is gone already.
* *Clients.* `terminate` is not allowed from ENABLING and DISABLING, so a
  deletion waits for the change handler to get out of them. The timer takes no
  lock. That of one client makes another client's removal of its peer meet a
  409, which `remove_peer` logs and takes for success: the peer of a deleted or
  disconnected client stays, and the next request finds it with its old subnet.
  That of the client itself may clear the configuration that enable has just
  written, or leave the client in a state from which neither the deletion nor a
  waiting command gets on. Therefore `ActiveHasPeer` and `ConnectedTunnel` leave
  out the clients that have an age or a sunset, and `ConnectedSubnet`,
  `DisconnectedHasNoPeer`, `GoneLeavesNothing`, `DeletionEnds` and `CommandsEnd`
  say `NoTimers`; with timers TLC finds each of them violated. `add_peer` logs an
  API error and goes on, after which the client stays in ENABLING with a
  RuntimeError at each retry. A service account that exists already (409) ends
  its creation before the binding is made. An error while the token is read or
  its secret is created is a `PermanentError`, which kopf does not retry: the
  client stays in CREATING until the operator starts anew (`failed`, left out of
  `BecomesReady`).
* *Installation.* `install --wait` blocks "until Gefyra cluster side is ready"
  (`api/install.py:114`), but the event it waits for is written by one startup
  handler while the other may have failed to create the CRDs and be waiting for
  its retry (`handler/startup.py:71-143`): success is reported without CRDs.
  `InstalledWorks` therefore asks for CRDs only if nothing has failed, and
  `CrdsCome` says that they come. The three patches of `operator update` start operators that
  overlap and delete what the other has just checked. An operator that dies, or
  whose call fails, between the deletion and the recreation of the statefulset
  leaves a missing part, and the next start empties the config maps under users'
  bridges and clients: no call needs to fail for that. `EntriesKept` leaves out
  these two (`overlapped`, `broken`) and parts that somebody deletes, nothing
  else; TLC finds the maps emptied without either exception. The
  operator writes its ready event once; if that call fails, `install --wait`
  waits without end (`InstallEnds` says so). `uninstall` takes the finalizers
  away before it deletes the objects: workloads keep the Carrier, or kopf puts
  the finalizer back and the namespace hangs.

## 4. Proofs

TLAPS proves what follows for every value of the constants that satisfies the
modules' own assumptions, which say no more than what the constants stand for:
ports are integers of which every non-empty set has a least; a client has a set
of destinations, a text occurs in itself; a bridge has a target; "none" is no
member of a set it is used beside; pods and operators are finite and not none;
bounds are natural numbers. Each module states them by name and TLC evaluates
them in every run. In particular the bounds on faults, edits, restarts and
commands are arbitrary numbers in the proofs. Three theorems about bridges have
two hypotheses besides, which are said below.

**`StowawayRoutes_proof`.** `InvHolds`: `Spec => []Inv`, and from it
`TypeCorrect`, `PortsStayUnique`, `NoEditIsStale`; `OnlyOwnRoutesRemoved` (a
removal takes the caller's own route if subnets are disjoint);
`EditsImplementTable` (`StowawayRoutes` implements `RouteTable`).

`PortsUnique` is not inductive: a state in which two bridges are both about to
write the same free port satisfies it. `Inv` adds that exactly the holder of the
lock is inside an edit (`LockDiscipline`) and that the holder's copy and chosen
port agree with the map (`SnapshotCurrent`); then a write happens against an
unchanged map. `ArgInSubnet` and `RoutesInSubnets` carry the argument about
removals: a route found by destination alone lies in the caller's subnet, hence
in no other client's. Steps that leave the map and the lock alone are handled by
one lemma (`QuietKeepsInv`). For the refinement the abstract table is the config
map itself: only `AddPatch` and `RemoveWrite` change it, and `SnapshotCurrent`
says that each is one abstract step.

**`RouteSweep_proof`.** `SweepInvHolds`: `SweepSpec => []SweepInv`, from it
`SweepTypeCorrect`, and `ListedRoutesStay`: `SweepSpec => SweepKeepsListed`. That
property speaks of one write, but what makes it true lies before it: the sweep
writes a copy it may have read long ago. `CopyCurrent` says that as long as the
resourceVersion of that copy is the current one, the copy, less what the sweep
has dropped, is the map, and nothing it dropped belongs to a bridge it listed. A
bridge's write ends the premise (`WaitingKeepsCopy`), so only the sweep's own
steps have to be followed.

**`GefyraBridge_proof`.** `BridgeInvariant`, and from it `BridgeTypes`,
`HandlersExclude` (of all the workers and timers of the bridges of one target
one is at work at a time) and `NothingIsLeftMidway` (`NoTransitionalState`).
`BridgeInv` adds to the types that who is inside a handler holds the lock of its
target (`Locked`), that handlers act on objects that are there (`Named`), and
`Settled`: unless the operator has been restarted or a write of this bridge's
state has failed (`unsaved`), a bridge is REQUESTED, ACTIVE or ERROR, or one of
its two processes is `Midway`, at a call from which every way, the exception of
any provider's call included, leads to ACTIVE or ERROR. The types, the lock and
the routes need no such condition: they are proved with every failure.
`NoTransitionalState` alone is not inductive, because it says nothing of the handlers at work. What all
steps of a handler have in common is one definition (`HandlerStep`); each action
is shown to be one, and one lemma shows that such a step keeps the invariant.
`BridgesKeepTheTable` is a refinement: the handlers of all bridges take the
routes through `RouteTable`, whose steps `EditsImplementTable` shows the calls
of Stowaway to be. `Named` is why a handler adds a route to a destination only.

`CalmInvariant`, and from it `ActiveBridgesAreServed` (`ActiveIsServed`),
`DeleteLeavesNothing` (`DeleteTearsDown`) and `ClientsAreApart` (`RulesApart`).
They are about what is in the cluster, and have two hypotheses: no two bridges
may ask for one destination (`Unshared`; the violation run shows what the code
does otherwise), and Stowaway has a port for every destination (`PortsSuffice`;
without one a bridge is in ERROR). The instance of `gefyra_bridge` satisfies
both. None of the three is inductive: that a bridge says ACTIVE is the last step
of a handler that began with a state it had read before it waited for the lock,
and the Carrier's configuration is replaced as a whole by whichever sibling
commits last. `Orderly` says, while no call fails and no edit crosses a handler:
a port and a destination have one route (`Apart`); what kopf owes an object and
which tasks can therefore be running (`Life`, `Started`); at which calls each
goal and task can be (`Way`), and what the handler has by then seen and done
(`Course`); that a bridge at which nobody is, or only a handler that looks, has
its rule and its route (`Kept`, `Good`); that a rule leads to a route of its
bridge even while a handler takes the one away and makes another (`RuleLeads`);
and that a configuration about to be committed has every sibling's endpoint
(`Composed`), because who writes an endpoint has the lock that the committer
holds. `AsideKeepsFine` is the frame: what concerns one bridge is kept by the
steps of all others, so each action is followed for its own bridge only, and
`Commit` alone for its siblings too.

**`ClientWorkloads_proof`.** `WorkloadsInvariant`: `BridgeInv` holds beside the
users' commands, too, which edit and delete bridges between any two calls of
their handlers, without the bound on edits; from it `CommandsLeaveNothingMidway`
(`NoTransitionalState`), `CommandsKeepHandlersApart`, and `CommandsKeepTheTable`.
The operator's steps are those of `GefyraBridge`, whose lemma `NextKeepsInv` is
used as it stands; a command's call writes at most one object, at an address a
container has had (`LibraryTyped`).

**`ClientConnection_proof`.** `ConnectionInvariant`, and from it
`ConnectionTypes` and `PeersAreKept` (`NoPeerLost`). `add_peer` writes the PEERS
it has read, so a peer would be lost if another were added in between. The
invariant says that enable is the only goal that adds and has the lock
(`EnableLocked`), that no handler with another goal comes to the patch (`AtGoal`),
and that what is about to be written contains the present peers
(`NothingToLose`): the others' removals, the timer's beside the lock included,
only make the map smaller.

What users rely on: `ActiveClientsArePeers`,
`GoneClientsLeaveNothing`, `ConnectedClientsHaveTheirSubnet`,
`ConnectedClientsHaveATunnel`, `DisconnectedClientsAreNoPeers`, each about any
number of other clients and users at work beside. None is inductive: what a
command was told rests on the state of the object, that on what a handler has
done before it wrote the state, and that on the map two locks and a timer share.
`PeersInv` says, while no call fails, of every client without a timer
(`Timeless`): which calls the handler of each goal can be at in which state and
what kopf owes the object (`Control`); from where on the client is a peer
(`Present`) and in the pod (`Loaded`); that the copy `add_peer` is about to write
says the truth about it (`SnapTrue`); and that its user's command and the object
agree on what was asked (`Command`). If no client has a timer, also that a
removal meets no conflict (`Removing`), that a pod which is away is waited for
(`PodAwaited`), and that a client is no peer before and after (`Alone`).
Every step is seen from one client as an `Event`: it is quiet for it, it is work
of the client's own handler, or a request of its own command. So each part is
shown to be kept by events, and not by thirty actions.

**`GefyraBridgeMount_proof`.** `MountInvariant`, and from it `MountTypes` and
`DeletedLeavesNothing` (`GoneLeavesNothing`). `OnCourse` says at which call of
the cascade each handler may be and that it has lines left, `NoTarget` that a
target that is gone has no pods and no current copies, `Owed` what kopf owes an
object in each phase. `HpaHasShadow` is the reason why the HPA goes although the
code deletes it only after the shadow has been found: without faults an HPA
without a shadow is one somebody is just handling. `Departure` follows the
delete handler call by call.

**`MountCarrier_proof`.** `CarrierInvariant`, `ActiveMountsAreInstalled`
(`ActiveIsInstalled`) and `CarrierTakesOverAfterTheShadow` (`CarrierAfterShadow`),
while no call fails and no pod, shadow or target is lost: the pods that are
replaced are those of the rollouts which the operator's own patches cause. There
is no lock around a mount, so the argument is about turns: until the mount has been ACTIVE for the first time only the create
handler works at it, since the timer does not start (`Turns`), and what it has
prepared stays (`Prepared`); once it has been ACTIVE it stays whole until the
deletion or the sunset takes it away, and the timer that reads it meanwhile
finds nothing to do. `Untouched` is the time until then. Whoever puts Carrier
into pods has seen a ready shadow that nobody removes before it is done
(`Shadowed`); the one removal that could overlap is the worker's deletion, and
what a timer then builds anew is built after it. A bare pod is also
changed by its restoration, which writes what was stored: `Stored` says that
this is Carrier's image only while the pod runs Carrier, until the deletion has
restored it (`Restored`).

**`GefyraInstall_proof`.** `InstallInvariant`, and from it `InstallTypes` and
`EntriesAreKept`. An installer that finds a part missing empties the config
maps. `Kept` says that as long as operators start one after the other
(`Orderly`: no overlapping rollout, no part deleted, no statefulset that was
deleted and not made anew, the namespace stays; calls may fail and operators
die) at most one starts, that entries exist only when all the parts do, but for a
statefulset that is being made anew (`Whole`), and that an operator that has
found a part missing met a map without entries before any operator was past its
check (`Past`, `Lacking`). `Namespaced` and `Granted` say what an installation
has made of the cluster by then.

`FirstInvariant` and `FirstInstallationWorks` (`InstalledWorks`), with faults and
operators that die at any call; of the CRDs it speaks only if nothing failed,
since a startup handler that failed may still owe them. The command reports what
an event says, which an operator has written after it asked whether Stowaway is
ready; that may be long ago. `Founded` says of a first installation that every
operator comes from one template and so finds no image of another version to replace (`Sound`), that
parts which were made stay unless somebody deletes them (`Furthers`, `lost`), and
that the event, once written, is true (`Said`). A namespace that is not there yet
has no event and no pod of an earlier installation (`Vacant`).

**Only model-checked.** Liveness, which rests on fairness and is out of the
prover's reach: `DebrisGoes`, `RoutesComeBack`, `OperationsReturn`,
`BridgeRecovers`, `DeletedGoes`, `RunRestores`, `GoneRestores`, `BecomesActive`,
`Recovers`, `CommandsEnd`, `DeletionEnds`, `BecomesReady`, `InstallEnds`,
`CrdsCome`; and the violation run, which refutes a property. Every invariant
and action property that a passing run checks is a theorem too. No definition
here is recursive.

## 5. Not modelled, and why

* The contents of nginx and WireGuard configurations, the Carrier's TLS and
  probes: data no property here tells apart.
* An entry's random key: ten letters, assumed distinct.
* Several port mappings of a bridge and several pods behind one bridge: one of
  each. `GefyraBridgeMount` has several pods.
* How a request is matched against rules (`carrier2/src`): a pure function of
  the rules `GefyraBridge` commits, with its own tests.
* The WireGuard watch (`stowaway/handler.py:31-124`): the coroutine it calls,
  `disable()`, is never awaited, so it changes no state that is modelled.
* `wait_for_deletion` and the presets and manifests' text of the installation:
  they decide how, and not whether, a step is taken.
* The rest of the client library (listing, formatting, mounts, proxies), the
  provider factories (tables from names to classes), images, docs, helm and test
  code.

## 6. What is left

* Two connected parts of `GefyraBridge` that the proofs leave apart: what holds
  after a fault (`CalmInvariant` ends at the first one, `BridgeRecovers` begins
  there), and bridges that share a destination.
* Several pods behind one bridge, one of which fails to commit.
