----------------------------- MODULE RouteSweep -----------------------------
(***************************************************************************)
(* reconcile_proxyroutes of connection/stowaway/handler.py: every five     *)
(* minutes a task of the operator takes proxy routes that no GefyraBridge  *)
(* accounts for out of the config map and deletes their services.  It does *)
(* not hold _proxyroutes_configmap_lock; it runs beside the bridges, here  *)
(* at the grain of StowawayRoutes, one call to the API a step, with the    *)
(* order in which a bridge's handlers make their calls (bridgestate.py).   *)
(*                                                                         *)
(* Abstractions: a bridge has one destination, which is not edited, and    *)
(* one port mapping; the Carrier is left out, so a bridge is up when its   *)
(* route is confirmed; an object that is deleted does not return.          *)
(***************************************************************************)
EXTENDS StowawayRoutes

CONSTANTS
  DestOf,     \* the destination of a bridge
  IPOf,       \* the address of a destination: several may differ in the port
  MaxFaults,  \* bound: calls to the API that fail, beside one bridge
  MaxBeside   \* bound: the same, beside several

ASSUME DestAssumption == /\ \A b \in Bridges : DestOf[b] \in DestsOf[ClientOf[b]]
                         /\ DOMAIN IPOf = Dests
                         /\ MaxFaults \in Nat /\ MaxBeside \in 0..MaxFaults

VARIABLES
  life,       \* what becomes of a bridge: absent, set up, up, down (ERROR), ...
  once,       \* the bridges that have been up (ACTIVE) once
  endpoint,   \* the port its clusterEndpoint names, or NoPort
  sweep,      \* the next call of the sweep, or "dead" when its task has ended
  copy,       \* the routes it has read, later those it keeps
  listed,     \* the clusterEndpoints it has seen when it listed the bridges
  swept,      \* the ports whose services it deletes
  current,    \* whether its copy has the current resourceVersion
  faults

bridgeVars == <<life, once, endpoint>>
sweepVars  == <<sweep, copy, listed, swept, current>>
allVars    == <<vars, bridgeVars, sweepVars, faults>>

NoEndpoints == [b \in Bridges |-> NoPort]

InitAll ==
  /\ Init
  /\ life = [b \in Bridges |-> "absent"]
  /\ once = {}
  /\ endpoint = NoEndpoints
  /\ sweep = "idle" /\ copy = {} /\ listed = NoEndpoints /\ swept = {}
  /\ current = FALSE
  /\ faults = 0

Present(b) == life[b] \notin {"absent", "gone"}
Come       == {b \in Bridges : life[b] # "absent"}
Several    == \E a, b \in Come : a # b
Fault      == faults < (IF Several THEN MaxBeside ELSE MaxFaults) /\ faults' = faults + 1

(* A write of another task makes the sweep's resourceVersion an old one. *)
SweepWaits ==
  /\ current' = (current /\ routes' = routes)
  /\ UNCHANGED <<sweep, copy, listed, swept>>

-----------------------------------------------------------------------------
(* The bridges' handlers.                                                  *)

Handle(b, next, op) ==
  /\ life' = [life EXCEPT ![b] = next]
  /\ Begin(b, op, DestOf[b])
  /\ port' = [port EXCEPT ![b] = NoPort]
  /\ UNCHANGED <<routes, services, cmLock, snap, fresh, once>>

(* The object appears and on_activate starts: handle_proxyroute_setup. *)
Setup(b) ==
  /\ life[b] = "absent"
  /\ faults > MaxBeside => Come = {}
  /\ Handle(b, "setup", "exists")
  /\ UNCHANGED endpoint

(* Mutant of Reconcile: a bridge that says ACTIVE is taken to be fine. *)
ReconcileFailed(b) ==
  /\ life[b] = "down"
  /\ b \in once
  /\ Handle(b, "setup", "exists")
  /\ UNCHANGED endpoint

(* The timer, for a bridge that has been ACTIVE once: is_intact, and the   *)
(* set-up again if it is not.                                              *)
Reconcile(b) ==
  /\ life[b] \in {"up", "down"}
  /\ b \in once
  /\ Handle(b, "setup", "exists")
  /\ UNCHANGED endpoint

Delete(b) ==
  /\ life[b] \in {"up", "down"}
  /\ Handle(b, "teardown", "exists")
  /\ UNCHANGED endpoint

(* destination_exists has answered: add_destination or get_destination in  *)
(* a set-up, remove_destination or nothing in a teardown.                  *)
Proceed(b) ==
  /\ \/ life[b] = "setup" /\ pc[b] = "no" /\ Handle(b, "setup", "add")
     \/ life[b] = "setup" /\ pc[b] = "yes" /\ Handle(b, "setup", "get")
     \/ life[b] = "teardown" /\ pc[b] = "yes" /\ Handle(b, "teardown", "remove")
  /\ UNCHANGED <<endpoint, faults>>

(* The clusterEndpoint is written, and the destination looked up again. *)
Confirm(b) ==
  /\ life[b] = "setup" /\ pc[b] = "ok"
  /\ endpoint' = [endpoint EXCEPT ![b] = port[b]]
  /\ Handle(b, "confirm", "get")
  /\ UNCHANGED faults

Conclude(b, next) ==
  /\ life' = [life EXCEPT ![b] = next]
  /\ Return(b)
  /\ UNCHANGED endpoint

SetUp(b) ==
  /\ life[b] = "confirm" /\ pc[b] = "ok"
  /\ once' = once \cup {b}
  /\ Conclude(b, "up")
  /\ UNCHANGED faults

(* In ERROR: an operation or the write of the clusterEndpoint has failed. *)
NotSetUp(b) ==
  /\ \/ life[b] \in {"setup", "confirm"} /\ pc[b] = "failed" /\ UNCHANGED faults
     \/ life[b] = "setup" /\ pc[b] = "ok" /\ Fault
  /\ Conclude(b, "down")
  /\ UNCHANGED once

(* A teardown ends with the object gone, whether or not it has failed. *)
TornDown(b) ==
  /\ life[b] = "teardown" /\ pc[b] \in {"no", "ok", "failed"}
  /\ Conclude(b, "gone")
  /\ UNCHANGED <<once, faults>>

(* An operation's own steps.  Its calls fail, and destination_exists says  *)
(* no to what exists, as often as the bound allows.                        *)
Denies(b) ==
  \/ ExistsService(b) /\ pc'[b] = "no" /\ Labelled(ClientOf[b], arg[b]) # {}
  \/ ExistsRoute(b) /\ pc'[b] = "no" /\ \E r \in routes : <<arg[b], r.dest>> \in Within

Operate(b) ==
  /\ \/ Acquire(b) /\ UNCHANGED faults
     \/ Work(b) /\ ~Denies(b) /\ UNCHANGED faults
     \/ (CallFails(b) \/ Denies(b)) /\ Fault
  /\ UNCHANGED bridgeVars

-----------------------------------------------------------------------------
(* The sweep.                                                              *)

SweepRead ==
  /\ sweep = "idle"
  /\ copy' = routes
  /\ current' = TRUE
  /\ sweep' = "list"
  /\ UNCHANGED <<vars, bridgeVars, listed, swept, faults>>

(* The loop compares the route with the bridges in turn, without the port  *)
(* of the destination, and raises KeyError at one with the route's client  *)
(* and address that has no clusterEndpoint yet, unless a match came before *)
(* it.  (Mutant MatchesAlike: nor with the clusterEndpoint.)               *)
Alike(r) ==
  {b \in Bridges : Present(b) /\ ClientOf[b] = r.peer /\ IPOf[DestOf[b]] = IPOf[r.dest]}
MatchesAlike(r) == Alike(r)
Matches(r) == {b \in Alike(r) : endpoint[b] = r.port}
Stumbles(r) == \E b \in Alike(r) : endpoint[b] = NoPort

SweepEnds(at) ==
  /\ sweep' = at
  /\ copy' = {} /\ listed' = NoEndpoints /\ swept' = {} /\ current' = FALSE

SweepNothing ==
  /\ sweep = "list"
  /\ copy = {}
  /\ SweepEnds("idle")
  /\ UNCHANGED <<vars, bridgeVars, faults>>

SweepStumbles ==
  /\ sweep = "list"
  /\ \E r \in copy : Stumbles(r)
  /\ SweepEnds("dead")
  /\ UNCHANGED <<vars, bridgeVars, faults>>

(* No bridges at all: the services go first, then every route. *)
SweepPurge ==
  /\ sweep = "list"
  /\ copy # {} /\ \A b \in Bridges : ~Present(b)
  /\ swept' = PortsIn(copy)
  /\ copy' = {}
  /\ sweep' = "purge"
  /\ UNCHANGED <<vars, bridgeVars, listed, current, faults>>

SweepMatch ==
  LET keep == {r \in copy : Matches(r) # {}}
  IN  /\ sweep = "list"
      /\ copy # {} /\ \E b \in Bridges : Present(b)
      /\ \A r \in copy \ keep : ~Stumbles(r)
      /\ IF keep = copy
         THEN SweepEnds("idle")
         ELSE /\ copy' = keep
              /\ swept' = PortsIn(copy \ keep)
              /\ listed' = [b \in Bridges |-> IF Present(b) THEN endpoint[b] ELSE NoPort]
              /\ sweep' = "replace"
              /\ UNCHANGED current
      /\ UNCHANGED <<vars, bridgeVars, faults>>

Replaced ==
  /\ routes' = copy
  /\ fresh' = {}
  /\ IF swept = {} THEN SweepEnds("idle")
     ELSE /\ sweep' = "clean"
          /\ current' = FALSE
          /\ UNCHANGED <<copy, listed, swept>>
  /\ UNCHANGED <<services, cmLock, pc, arg, snap, port>>

(* Mutant of SweepReplace: the routes are written as a patch would be,     *)
(* without the resourceVersion they were read at.                          *)
SweepReplaceBlind ==
  /\ sweep = "replace"
  /\ Replaced
  /\ UNCHANGED <<bridgeVars, faults>>

(* 409 when the config map has changed since: nobody catches it, and the   *)
(* periodic task ends.                                                     *)
SweepReplace ==
  /\ sweep = "replace"
  /\ IF current THEN Replaced
     ELSE SweepEnds("dead") /\ UNCHANGED vars
  /\ UNCHANGED <<bridgeVars, faults>>

(* Services are deleted one by one; an error is passed over. *)
SweepService ==
  /\ sweep \in {"purge", "clean"}
  /\ \E p \in swept :
        /\ \/ services' = [services EXCEPT ![p] = NoService] /\ UNCHANGED faults
           \/ Fault /\ UNCHANGED services
        /\ IF swept # {p}
           THEN /\ swept' = swept \ {p}
                /\ UNCHANGED <<sweep, copy, listed, current>>
           ELSE IF sweep = "clean"
                THEN SweepEnds("idle")
                ELSE /\ swept' = {}
                     /\ sweep' = "replace"
                     /\ UNCHANGED <<copy, listed, current>>
  /\ UNCHANGED <<routes, cmLock, pc, arg, snap, port, fresh, bridgeVars>>

(* Only the error of the listing is caught. *)
SweepFails ==
  /\ Fault
  /\ \/ sweep = "list" /\ SweepEnds("idle")
     \/ sweep \in {"idle", "replace"} /\ SweepEnds("dead")
  /\ UNCHANGED <<vars, bridgeVars>>

-----------------------------------------------------------------------------
Handler(b) ==
  /\ \/ Operate(b)
     \/ Proceed(b) \/ Confirm(b) \/ SetUp(b) \/ NotSetUp(b) \/ TornDown(b)
  /\ SweepWaits

Timer(b) == Reconcile(b) /\ SweepWaits /\ UNCHANGED faults

User(b) == (Setup(b) \/ Delete(b)) /\ SweepWaits /\ UNCHANGED faults

Sweep ==
  \/ SweepRead \/ SweepNothing \/ SweepStumbles \/ SweepPurge \/ SweepMatch
  \/ SweepReplace \/ SweepService \/ SweepFails

NextAll == Sweep \/ \E b \in Bridges : Handler(b) \/ Timer(b) \/ User(b)

SweepSpec == InitAll /\ [][NextAll]_allVars

(* Awaited calls return and timers come round; locks serve in turn.        *)
SweepFairness ==
  /\ WF_allVars(Sweep)
  /\ \A b \in Bridges : /\ WF_allVars(Handler(b)) /\ WF_allVars(Timer(b))
                        /\ SF_allVars(Handler(b) /\ Acquire(b))

FairSweepSpec == SweepSpec /\ SweepFairness

-----------------------------------------------------------------------------
(* Properties.                                                             *)

SweepTypeOK ==
  /\ TypeOK
  /\ life \in [Bridges -> {"absent", "setup", "confirm", "up", "down", "teardown", "gone"}]
  /\ once \subseteq Bridges
  /\ endpoint \in [Bridges -> Ports \cup {NoPort}]
  /\ sweep \in {"idle", "list", "purge", "replace", "clean", "dead"}
  /\ copy \in SUBSET Route
  /\ listed \in [Bridges -> Ports \cup {NoPort}]
  /\ swept \in SUBSET Ports
  /\ current \in BOOLEAN
  /\ faults \in 0..MaxFaults

(* A bridge is served: the service its clusterEndpoint names leads to its  *)
(* destination, and so does a route on that port.                          *)
Served(b) ==
  /\ endpoint[b] # NoPort
  /\ services[endpoint[b]] = [client |-> ClientOf[b], dest |-> DestOf[b]]
  /\ \E r \in routes : r.port = endpoint[b] /\ r.dest = DestOf[b]

(* The bridge b was listed with the port of route r as its clusterEndpoint. *)
ListedFor(b, r) == DestOf[b] = r.dest /\ ClientOf[b] = r.peer /\ listed[b] = r.port

(* The sweep takes no route from a bridge whose clusterEndpoint it has     *)
(* listed, however late it writes and whatever bridges have added since: a *)
(* route that was not there yet when it read the config map makes its      *)
(* replace fail.                                                           *)
SweepKeepsListed ==
  [][sweep = "replace" /\ sweep' # "replace" =>
       \A r \in routes \ routes', b \in Bridges : ~ListedFor(b, r)]_allVars

(* What makes both of these inductive.  An operation under way has its     *)
(* destination, and a port when it is about to add a route.                *)
OperationsTyped ==
  \A b \in Bridges : /\ pc[b] # "idle" => arg[b] \in Dests
                     /\ pc[b] = "patch" => port[b] \in Ports

(* While its resourceVersion is current the sweep has the config map as it *)
(* is, and what it is about to leave out belongs to no bridge it listed.   *)
CopyCurrent ==
  /\ sweep \in {"idle", "list"} => listed = NoEndpoints
  /\ sweep = "list" /\ current => copy = routes
  /\ sweep \in {"purge", "replace"} /\ current =>
       \A r \in routes \ copy, b \in Bridges : ~ListedFor(b, r)

SweepInv == SweepTypeOK /\ OperationsTyped /\ CopyCurrent

(* A route that no bridge has as its clusterEndpoint does not stay: what a *)
(* failed addition or removal, or a second addition to one destination,    *)
(* has left behind is swept in the end, beside the bridges that are in     *)
(* use and after the last of them; if the sweep lives to do so.            *)
Debris(r) == r \in routes /\ \A b \in Bridges : Present(b) => endpoint[b] # r.port
DebrisGoes == \A r \in Route : []<>(~Debris(r) \/ sweep = "dead")

(* What a sweep has taken from a bridge that is in use the timer restores: *)
(* when sweeping has ended, every bridge that was up once is served and    *)
(* remains so, unless leaked routes have used up the ports.  A failing     *)
(* call may leave a service without its route for good: get_destination    *)
(* goes by the service alone, and the bridge stays misled.                 *)
ComesBack(b) == Present(b) /\ life[b] # "teardown" /\ b \in once => Served(b)
RoutesComeBack ==
  <>[](sweep = "dead") =>
    \A b \in Bridges : <>[](ComesBack(b) \/ FreePorts(routes) = {} \/ faults > 0)
=============================================================================
