----------------------------- MODULE RouteTable -----------------------------
(***************************************************************************)
(* What Stowaway promises about its proxy routes: a table of routes, each  *)
(* from one proxy port to one destination of one peer, in which a route is *)
(* added or taken out in a single step.  connection/abstract.py states the *)
(* two operations; StowawayRoutes shows how the operator carries them out  *)
(* with several calls to the Kubernetes API under one lock.                *)
(***************************************************************************)
EXTENDS Integers

CONSTANTS
  Clients,    \* the GefyraClients (peers)
  Dests,      \* the destinations "ip:port" routes lead to
  Ports       \* the ports Stowaway may listen on, 10000 .. 59999 in the code

VARIABLE table

Route == [peer : Clients, dest : Dests, port : Ports]

(* The ports of a set of routes. *)
PortsIn(R) == {r.port : r \in R}

Init == table = {}

(* Mutant of AddAt: the port is not looked up among the taken ones. *)
AddAtAny(peer, dest, p) ==
  table' = table \cup {[peer |-> peer, dest |-> dest, port |-> p]}

(* add_destination: the new route takes a port no other route has. *)
AddAt(peer, dest, p) ==
  /\ p \notin PortsIn(table)
  /\ table' = table \cup {[peer |-> peer, dest |-> dest, port |-> p]}

Add(peer, dest) == \E p \in Ports : AddAt(peer, dest, p)

(* remove_destination: one route to that destination of that peer goes. *)
Remove(peer, dest) ==
  \E r \in table :
     /\ r.peer = peer
     /\ r.dest = dest
     /\ table' = table \ {r}

Next == \E peer \in Clients, dest \in Dests : Add(peer, dest) \/ Remove(peer, dest)

Spec == Init /\ [][Next]_table
=============================================================================
