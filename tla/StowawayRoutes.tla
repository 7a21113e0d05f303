--------------------------- MODULE StowawayRoutes ---------------------------
(***************************************************************************)
(* The proxy routes of the Stowaway connection provider                    *)
(* (operator/gefyra/connection/stowaway/__init__.py): the config map that  *)
(* nginx in the Stowaway pod is configured from, the Kubernetes services   *)
(* that lead to its ports, and the four operations bridge handlers call.   *)
(*                                                                         *)
(* A step is one call to the Kubernetes API, because each one is awaited   *)
(* and any other task of the operator may run meanwhile.  The operations   *)
(* of one bridge never overlap (its handlers hold the lock of its target), *)
(* so a bridge is the process here; bridges of different targets overlap.  *)
(*                                                                         *)
(* Abstractions: a destination "ip:port" is an element of Dests; a config  *)
(* map entry "<peer>-<10 letters>: <dest>,<port>" is a record, the random  *)
(* letters being assumed distinct; a service is its port and its labels.   *)
(***************************************************************************)
EXTENDS Integers, FiniteSets

CONSTANTS
  Bridges,    \* the GefyraBridges, callers of the operations
  Clients,    \* the GefyraClients (peers)
  Dests,      \* the destinations "ip:port" in the clients' networks
  Ports,      \* the ports routes may use, range(10000, 60000) in the code
  ClientOf,   \* the client of a bridge
  DestsOf,    \* the destinations inside the subnet of a client
  Within,     \* pairs <<d, e>>: the text of d occurs in the text of e
  Nobody, NoDest, NoPort, NoService

(* A search through the ports in ascending order comes to a first one. *)
ASSUME PortsAssumption   == /\ Ports \subseteq Int /\ NoPort \notin Ports
                            /\ \A S \in SUBSET Ports :
                                  S # {} => \E p \in S : \A q \in S : p <= q
ASSUME ClientAssumption  == /\ ClientOf \in [Bridges -> Clients]
                            /\ DestsOf \in [Clients -> SUBSET Dests]
                            /\ NoDest \notin Dests
ASSUME WithinAssumption  == \A d \in Dests : <<d, d>> \in Within
ASSUME NobodyAssumption  == Nobody \notin Bridges

VARIABLES
  routes,     \* the entries of the config map gefyra-stowaway-proxyroutes
  services,   \* the labels of service gefyra-stowaway-proxy-<port>, by port
  cmLock,     \* the holder of _proxyroutes_configmap_lock
  pc,         \* the API call an operation makes next, or its result
  arg,        \* the destination an operation is called with, or NoDest
  snap,       \* the copy of the config map an operation works on
  port,       \* the port an operation found or chose
  fresh       \* the bridges whose copy has the current resourceVersion

vars == <<routes, services, cmLock, pc, arg, snap, port, fresh>>

Route == [peer : Clients, dest : Dests, port : Ports]
Label == [client : Clients, dest : Dests]

Operations == {"add", "remove", "exists", "get"}
Results    == {"ok", "failed", "yes", "no"}
InLock     == {"pick", "patch", "write"}
Calls      == {"service", "relabel", "added", "delete", "removed", "existsRoute"}

PortsIn(R)   == {r.port : r \in R}
FreePorts(R) == Ports \ PortsIn(R)
Lowest(S)    == CHOOSE p \in S : \A q \in S : p <= q

OwnLabel(b) == [client |-> ClientOf[b], dest |-> arg[b]]
(* The services a lookup by the labels client-id and destination finds. *)
Labelled(c, d) == {p \in Ports : services[p] = [client |-> c, dest |-> d]}

Init ==
  /\ routes = {}
  /\ services = [p \in Ports |-> NoService]
  /\ cmLock = Nobody
  /\ pc = [b \in Bridges |-> "idle"]
  /\ arg = [b \in Bridges |-> NoDest]
  /\ snap = [b \in Bridges |-> {}]
  /\ port = [b \in Bridges |-> NoPort]
  /\ fresh = {}

-----------------------------------------------------------------------------
(* The caller's side.                                                      *)

Begin(b, op, d) ==
  /\ pc' = [pc EXCEPT ![b] = op]
  /\ arg' = [arg EXCEPT ![b] = d]

(* A bridge handler calls one of the four operations for a destination in  *)
(* the subnet of the bridge's client.                                      *)
Call(b, op, d) ==
  /\ pc[b] = "idle"
  /\ Begin(b, op, d)
  /\ UNCHANGED <<routes, services, cmLock, snap, port, fresh>>

(* The operation has returned, or has raised ("failed"). *)
Return(b) ==
  /\ pc[b] \in Results
  /\ pc' = [pc EXCEPT ![b] = "idle"]
  /\ arg' = [arg EXCEPT ![b] = NoDest]
  /\ port' = [port EXCEPT ![b] = NoPort]
  /\ UNCHANGED <<routes, services, cmLock, snap, fresh>>

-----------------------------------------------------------------------------
(* add_destination                                                         *)

(* Leaving the block of the lock, normally or by an exception. *)
Release(b) ==
  /\ cmLock' = Nobody
  /\ snap' = [snap EXCEPT ![b] = {}]

(* Mutant of AddRead: the config map is edited without the lock. *)
AddReadUnlocked(b) ==
  /\ pc[b] = "add"
  /\ snap' = [snap EXCEPT ![b] = routes]
  /\ pc' = [pc EXCEPT ![b] = "pick"]
  /\ UNCHANGED <<routes, services, cmLock, arg, port, fresh>>

(* _edit_proxyroutes_configmap: take the lock, read the config map. *)
AddRead(b) ==
  /\ pc[b] = "add"
  /\ cmLock = Nobody
  /\ cmLock' = b
  /\ snap' = [snap EXCEPT ![b] = routes]
  /\ pc' = [pc EXCEPT ![b] = "pick"]
  /\ UNCHANGED <<routes, services, arg, port, fresh>>

(* Mutant of PickPort: the search ends at the range without an exception. *)
PickPortOrNone(b) ==
  /\ pc[b] = "pick"
  /\ port' = [port EXCEPT ![b] = IF FreePorts(routes) = {} THEN NoPort
                                 ELSE Lowest(FreePorts(routes))]
  /\ pc' = [pc EXCEPT ![b] = "patch"]
  /\ UNCHANGED <<routes, services, cmLock, arg, snap, fresh>>

(* _get_free_proxyroute_port reads the config map a second time and takes  *)
(* the first port no route has; with none left it raises, which releases   *)
(* the lock.                                                               *)
PickPort(b) ==
  /\ pc[b] = "pick"
  /\ FreePorts(routes) # {}
  /\ port' = [port EXCEPT ![b] = Lowest(FreePorts(routes))]
  /\ pc' = [pc EXCEPT ![b] = "patch"]
  /\ UNCHANGED <<routes, services, cmLock, arg, snap, fresh>>

NoPortLeft(b) ==
  /\ pc[b] = "pick"
  /\ FreePorts(routes) = {}
  /\ Release(b)
  /\ pc' = [pc EXCEPT ![b] = "failed"]
  /\ UNCHANGED <<routes, services, arg, port, fresh>>

NewRoute(b) == [peer |-> ClientOf[b], dest |-> arg[b], port |-> port[b]]

(* Mutant of AddPatch: only a removal gives the lock back. *)
AddPatchHolding(b) ==
  /\ pc[b] = "patch"
  /\ routes' = routes \cup snap[b] \cup {NewRoute(b)}
  /\ fresh' = {}
  /\ pc' = [pc EXCEPT ![b] = "service"]
  /\ UNCHANGED <<services, cmLock, arg, snap, port>>

(* The patch merges every entry of the first copy and the new one into the *)
(* map as it is now; leaving the block releases the lock.                  *)
AddPatch(b) ==
  /\ pc[b] = "patch"
  /\ routes' = routes \cup snap[b] \cup {NewRoute(b)}
  /\ fresh' = {}
  /\ Release(b)
  /\ pc' = [pc EXCEPT ![b] = "service"]
  /\ UNCHANGED <<services, arg, port>>

(* handle_stowaway_proxy_service: create, or learn (409) that the service  *)
(* is there already.                                                       *)
CreateService(b) ==
  /\ pc[b] = "service"
  /\ IF services[port[b]] = NoService
     THEN /\ services' = [services EXCEPT ![port[b]] = OwnLabel(b)]
          /\ pc' = [pc EXCEPT ![b] = "added"]
     ELSE /\ pc' = [pc EXCEPT ![b] = "relabel"]
          /\ UNCHANGED services
  /\ UNCHANGED <<routes, cmLock, arg, snap, port, fresh>>

(* ... and patch its labels, which raises (404) if it is gone again. *)
PatchService(b) ==
  /\ pc[b] = "relabel"
  /\ IF services[port[b]] = NoService
     THEN /\ pc' = [pc EXCEPT ![b] = "failed"]
          /\ UNCHANGED services
     ELSE /\ services' = [services EXCEPT ![port[b]] = OwnLabel(b)]
          /\ pc' = [pc EXCEPT ![b] = "added"]
  /\ UNCHANGED <<routes, cmLock, arg, snap, port, fresh>>

(* The last step of add_destination and of remove_destination: tell the    *)
(* Stowaway pod to reload.                                                 *)
Notify(b) ==
  /\ pc[b] \in {"added", "removed"}
  /\ pc' = [pc EXCEPT ![b] = "ok"]
  /\ UNCHANGED <<routes, services, cmLock, arg, snap, port, fresh>>

(* The API refuses a call, or there is no Stowaway pod to notify: the      *)
(* error leaves the block of the lock, and what was written stays written. *)
CallFails(b) ==
  /\ \/ /\ pc[b] \in InLock
        /\ Release(b)
        /\ fresh' = fresh \ {b}
     \/ /\ pc[b] \in Calls \ {"existsRoute"}
        /\ UNCHANGED <<cmLock, snap, fresh>>
  /\ pc' = [pc EXCEPT ![b] = "failed"]
  /\ UNCHANGED <<routes, services, arg, port>>

-----------------------------------------------------------------------------
(* remove_destination                                                      *)

(* The loop keeps the last entry to the destination, whoever its peer is;  *)
(* entries are sorted by key, so with several any one may be the last.     *)
(* (Mutant HitsByText: the comparison is that of destination_exists.)      *)
HitsByText(b) == {r \in routes : <<arg[b], r.dest>> \in Within}
Hits(b) == {r \in routes : r.dest = arg[b]}

(* Mutant of RemoveRead: the route is looked up without the lock. *)
RemoveReadUnlocked(b) ==
  /\ pc[b] = "remove"
  /\ \E r \in Hits(b) :
        /\ snap' = [snap EXCEPT ![b] = routes \ {r}]
        /\ port' = [port EXCEPT ![b] = r.port]
  /\ fresh' = fresh \cup {b}
  /\ pc' = [pc EXCEPT ![b] = "write"]
  /\ UNCHANGED <<routes, services, cmLock, arg>>

RemoveRead(b) ==
  /\ pc[b] = "remove"
  /\ cmLock = Nobody
  /\ \E r \in Hits(b) :
        /\ snap' = [snap EXCEPT ![b] = routes \ {r}]
        /\ port' = [port EXCEPT ![b] = r.port]
  /\ fresh' = fresh \cup {b}
  /\ cmLock' = b
  /\ pc' = [pc EXCEPT ![b] = "write"]
  /\ UNCHANGED <<routes, services, arg>>

(* No entry: port 0 is returned, and no service has that name. *)
RemoveNothing(b) ==
  /\ pc[b] = "remove"
  /\ cmLock = Nobody
  /\ Hits(b) = {}
  /\ port' = [port EXCEPT ![b] = NoPort]
  /\ pc' = [pc EXCEPT ![b] = "delete"]
  /\ UNCHANGED <<routes, services, cmLock, arg, snap, fresh>>

(* The replace carries the resourceVersion that was read: if the map has   *)
(* changed since, the API answers 409 and the operation raises.            *)
RemoveWrite(b) ==
  /\ pc[b] = "write"
  /\ IF b \in fresh
     THEN /\ routes' = snap[b]
          /\ fresh' = {}
          /\ pc' = [pc EXCEPT ![b] = "delete"]
     ELSE /\ pc' = [pc EXCEPT ![b] = "failed"]
          /\ UNCHANGED <<routes, fresh>>
  /\ Release(b)
  /\ UNCHANGED <<services, arg, port>>

(* Delete the service with the port's name; 404 is ignored. *)
DeleteService(b) ==
  /\ pc[b] = "delete"
  /\ services' = [p \in Ports |-> IF p = port[b] THEN NoService ELSE services[p]]
  /\ pc' = [pc EXCEPT ![b] = "removed"]
  /\ UNCHANGED <<routes, cmLock, arg, snap, port, fresh>>

-----------------------------------------------------------------------------
(* destination_exists and get_destination                                  *)

(* First the service, by its labels; an error of the API also answers no. *)
ExistsService(b) ==
  /\ pc[b] = "exists"
  /\ \/ /\ Labelled(ClientOf[b], arg[b]) # {}
        /\ pc' = [pc EXCEPT ![b] = "existsRoute"]
     \/ pc' = [pc EXCEPT ![b] = "no"]
  /\ UNCHANGED <<routes, services, cmLock, arg, snap, port, fresh>>

(* ... then an entry of the config map whose text contains "ip:port". *)
ExistsRoute(b) ==
  /\ pc[b] = "existsRoute"
  /\ \/ /\ \E r \in routes : <<arg[b], r.dest>> \in Within
        /\ pc' = [pc EXCEPT ![b] = "yes"]
     \/ pc' = [pc EXCEPT ![b] = "no"]
  /\ UNCHANGED <<routes, services, cmLock, arg, snap, port, fresh>>

(* The first service with the labels, in the order of the names; none      *)
(* raises.                                                                 *)
GetDestination(b) ==
  /\ pc[b] = "get"
  /\ LET found == Labelled(ClientOf[b], arg[b])
     IN  IF found = {}
         THEN /\ pc' = [pc EXCEPT ![b] = "failed"]
              /\ UNCHANGED port
         ELSE /\ port' = [port EXCEPT ![b] = Lowest(found)]
              /\ pc' = [pc EXCEPT ![b] = "ok"]
  /\ UNCHANGED <<routes, services, cmLock, arg, snap, fresh>>

-----------------------------------------------------------------------------
Acquire(b) == AddRead(b) \/ RemoveRead(b) \/ RemoveNothing(b)

Work(b) ==
  \/ PickPort(b) \/ NoPortLeft(b) \/ AddPatch(b)
  \/ CreateService(b) \/ PatchService(b)
  \/ RemoveWrite(b) \/ DeleteService(b) \/ Notify(b)
  \/ ExistsService(b) \/ ExistsRoute(b) \/ GetDestination(b)

Next ==
  \E b \in Bridges :
     \/ \E op \in Operations, d \in DestsOf[ClientOf[b]] : Call(b, op, d)
     \/ Acquire(b)
     \/ Work(b) \/ CallFails(b)
     \/ Return(b)

Spec == Init /\ [][Next]_vars

-----------------------------------------------------------------------------
(* Properties.                                                             *)

TypeOK ==
  /\ routes \in SUBSET Route
  /\ services \in [Ports -> Label \cup {NoService}]
  /\ cmLock \in Bridges \cup {Nobody}
  /\ pc \in [Bridges -> {"idle"} \cup Operations \cup InLock \cup Calls \cup Results]
  /\ arg \in [Bridges -> Dests \cup {NoDest}]
  /\ snap \in [Bridges -> SUBSET Route]
  /\ port \in [Bridges -> Ports \cup {NoPort}]
  /\ fresh \in SUBSET Bridges

(* No two routes share a port: nginx would have two servers on it and one  *)
(* bridge's traffic would go to another's client.  It rests on the lock,   *)
(* for the port is chosen from one read and written by a later patch.      *)
UniqueIn(R) == \A r, s \in R : r.port = s.port => r = s
PortsUnique == UniqueIn(routes)

(* The lock is held by a bridge exactly while it edits the config map.     *)
LockDiscipline == \A b \in Bridges : pc[b] \in InLock <=> cmLock = b

(* An operation is called for a destination in the client's own subnet.    *)
ArgInSubnet == \A b \in Bridges : pc[b] # "idle" => arg[b] \in DestsOf[ClientOf[b]]

(* What the edit is computed from is still what the config map says when   *)
(* it is written: nothing that another bridge did in between is lost, the  *)
(* chosen port is still free and the replace is never refused.             *)
SnapshotCurrent ==
  \A b \in Bridges :
     /\ pc[b] \in {"pick", "patch"} => snap[b] = routes
     /\ pc[b] = "patch" => port[b] \in FreePorts(routes)
     /\ pc[b] = "write" => /\ b \in fresh
                           /\ \E r \in Hits(b) : snap[b] = routes \ {r}

(* Every route leads into the subnet of its own peer. *)
RoutesInSubnets == \A r \in routes : r.dest \in DestsOf[r.peer]

(* The inductive invariant: the edit is protected by the lock throughout.  *)
Inv ==
  /\ TypeOK
  /\ PortsUnique
  /\ LockDiscipline
  /\ ArgInSubnet
  /\ SnapshotCurrent
  /\ RoutesInSubnets

(* Every operation a handler awaits returns, also when the API answers a   *)
(* conflict inside the block: no handler waits for the lock for ever.      *)
OperationsReturn == \A b \in Bridges : pc[b] # "idle" ~> pc[b] = "idle"

(* remove_destination ignores the peer it is given: that a bridge takes    *)
(* out a route of its own client, to its own destination, is owed to the   *)
(* subnets, which must have no address in common.                          *)
SubnetsDisjoint ==
  \A c, d \in Clients : c # d => DestsOf[c] \cap DestsOf[d] = {}

RemovesOwnRoute ==
  [][SubnetsDisjoint =>
       \A b \in Bridges : pc[b] = "write" /\ pc'[b] = "delete" =>
         \A r \in routes \ routes' : r.peer = ClientOf[b] /\ r.dest = arg[b]]_vars

(* The edits of the config map are those of the abstract table, each in    *)
(* one step, however many bridges are at it.                               *)
Table == INSTANCE RouteTable WITH table <- routes

ImplementsTable == Table!Spec
=============================================================================
