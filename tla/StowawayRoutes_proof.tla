------------------------ MODULE StowawayRoutes_proof ------------------------
(***************************************************************************)
(* Proofs about StowawayRoutes, for any number of bridges, clients and     *)
(* ports: the inductive invariant Inv, what follows from it, and that the  *)
(* edits of the config map implement RouteTable.                           *)
(***************************************************************************)
EXTENDS StowawayRoutes, TLAPS

(* _get_free_proxyroute_port returns a free port when there is one. *)
LEMMA LowestIsFree ==
  ASSUME NEW R, FreePorts(R) # {}
  PROVE  Lowest(FreePorts(R)) \in FreePorts(R)
<1>1. FreePorts(R) \in SUBSET Ports
  BY DEF FreePorts
<1>2. \E p \in FreePorts(R) : \A q \in FreePorts(R) : p <= q
  BY <1>1, PortsAssumption
<1> QED
  BY <1>2 DEF Lowest

(* A route on a free port keeps the ports apart. *)
LEMMA FreePortKeepsUnique ==
  ASSUME NEW R, NEW r, UniqueIn(R), r.port \in FreePorts(R)
  PROVE  UniqueIn(R \cup {r})
  BY DEF UniqueIn, FreePorts, PortsIn

(* So does leaving routes out. *)
LEMMA SubsetKeepsUnique ==
  ASSUME NEW R, NEW S, UniqueIn(R), S \subseteq R
  PROVE  UniqueIn(S)
  BY DEF UniqueIn

(* The route an operation adds is a route into its peer's subnet. *)
LEMMA NewRouteTyped ==
  ASSUME TypeOK, ArgInSubnet, NEW b \in Bridges, pc[b] = "patch", port[b] \in Ports
  PROVE  /\ NewRoute(b) \in Route
         /\ NewRoute(b).port = port[b]
         /\ NewRoute(b).dest \in DestsOf[NewRoute(b).peer]
  BY ClientAssumption DEF TypeOK, ArgInSubnet, NewRoute, Route

LEMMA InitInv == Init => Inv
  BY NobodyAssumption
  DEF Init, Inv, TypeOK, PortsUnique, UniqueIn, LockDiscipline, ArgInSubnet,
      SnapshotCurrent, RoutesInSubnets, InLock

(* At most one bridge is inside the block of the lock. *)
LEMMA Exclusion ==
  ASSUME LockDiscipline, NEW a \in Bridges, NEW b \in Bridges,
         pc[a] \in InLock, pc[b] \in InLock
  PROVE  a = b
  BY DEF LockDiscipline

-----------------------------------------------------------------------------
(* What the steps that leave the config map and its lock alone disturb.    *)
Quiet(b) == /\ UNCHANGED <<routes, cmLock, snap, fresh>>
            /\ pc[b] \notin InLock
            /\ pc' = [pc EXCEPT ![b] = pc'[b]]
            /\ pc'[b] \in {"idle"} \cup Operations \cup Calls \cup Results
            /\ port' = [port EXCEPT ![b] = port'[b]]
            /\ port'[b] \in Ports \cup {NoPort}
            /\ services' \in [Ports -> Label \cup {NoService}]
            /\ arg' = [arg EXCEPT ![b] = arg'[b]]
            /\ arg'[b] \in Dests \cup {NoDest}
            /\ pc'[b] # "idle" => arg'[b] \in DestsOf[ClientOf[b]]

LEMMA QuietKeepsInv ==
  ASSUME Inv, NEW b \in Bridges, Quiet(b)
  PROVE  Inv'
<1> USE DEF Inv, Quiet
<1>1. TypeOK'
  BY DEF TypeOK, InLock
<1>2. PortsUnique'
  BY DEF PortsUnique
<1>3. LockDiscipline'
  BY DEF LockDiscipline, TypeOK, InLock, Operations, Calls, Results
<1>4. ArgInSubnet'
  BY DEF ArgInSubnet, TypeOK
<1>5. SnapshotCurrent'
  <2> SUFFICES ASSUME NEW a \in Bridges
               PROVE  /\ pc'[a] \in {"pick", "patch"} => snap'[a] = routes'
                      /\ pc'[a] = "patch" => port'[a] \in FreePorts(routes')
                      /\ pc'[a] = "write" => /\ a \in fresh'
                                             /\ \E r \in Hits(a)' : snap'[a] = routes' \ {r}
    BY DEF SnapshotCurrent
  <2>1. CASE a = b
    BY <2>1 DEF TypeOK, InLock, Operations, Calls, Results
  <2>2. CASE a # b
    <3>1. pc'[a] = pc[a] /\ port'[a] = port[a] /\ arg'[a] = arg[a]
      BY <2>2 DEF TypeOK
    <3>2. Hits(a)' = Hits(a)
      BY <3>1 DEF Hits
    <3> QED
      BY <3>1, <3>2 DEF SnapshotCurrent
  <2> QED
    BY <2>1, <2>2
<1>6. RoutesInSubnets'
  BY DEF RoutesInSubnets
<1> QED
  BY <1>1, <1>2, <1>3, <1>4, <1>5, <1>6

(* A label a service gets from its caller. *)
LEMMA OwnLabelTyped ==
  ASSUME TypeOK, ArgInSubnet, NEW b \in Bridges, pc[b] # "idle"
  PROVE  OwnLabel(b) \in Label
  BY ClientAssumption DEF TypeOK, ArgInSubnet, OwnLabel, Label

-----------------------------------------------------------------------------
(* The steps of the lock's owner.  While one bridge has the lock the facts *)
(* about every other bridge are vacuous, which is what each proof uses.    *)

LEMMA AcquireKeepsInv ==
  ASSUME Inv, NEW b \in Bridges, AddRead(b) \/ RemoveRead(b)
  PROVE  Inv'
<1> USE DEF Inv
<1>1. \A a \in Bridges : pc[a] \notin InLock
  BY NobodyAssumption DEF LockDiscipline, AddRead, RemoveRead
<1>2. CASE AddRead(b)
  <2>1. TypeOK'
    BY <1>2 DEF AddRead, TypeOK, InLock
  <2>2. LockDiscipline'
    BY <1>2, <1>1 DEF AddRead, TypeOK, LockDiscipline, InLock
  <2>3. SnapshotCurrent'
    BY <1>2, <1>1 DEF AddRead, TypeOK, SnapshotCurrent, InLock
  <2> QED
    BY <1>2, <2>1, <2>2, <2>3 DEF AddRead, TypeOK, PortsUnique, ArgInSubnet, RoutesInSubnets
<1>3. CASE RemoveRead(b)
  <2>0. PICK r \in Hits(b) : /\ snap' = [snap EXCEPT ![b] = routes \ {r}]
                             /\ port' = [port EXCEPT ![b] = r.port]
    BY <1>3 DEF RemoveRead
  <2>1. TypeOK'
    BY <1>3, <2>0 DEF RemoveRead, TypeOK, InLock, Hits, Route
  <2>2. LockDiscipline'
    BY <1>3, <1>1 DEF RemoveRead, TypeOK, LockDiscipline, InLock
  <2>3. SnapshotCurrent'
    BY <1>3, <2>0, <1>1 DEF RemoveRead, TypeOK, SnapshotCurrent, InLock, Hits
  <2> QED
    BY <1>3, <2>1, <2>2, <2>3 DEF RemoveRead, TypeOK, PortsUnique, ArgInSubnet, RoutesInSubnets
<1> QED
  BY <1>2, <1>3

LEMMA PickPortKeepsInv ==
  ASSUME Inv, NEW b \in Bridges, PickPort(b)
  PROVE  Inv'
<1> USE DEF Inv
<1>1. Lowest(FreePorts(routes)) \in FreePorts(routes)
  BY LowestIsFree DEF PickPort
<1>2. TypeOK'
  BY <1>1 DEF PickPort, TypeOK, InLock, FreePorts
<1>3. LockDiscipline'
  BY DEF PickPort, TypeOK, LockDiscipline, InLock
<1>4. SnapshotCurrent'
  <2>1. \A a \in Bridges : pc'[a] \in InLock => a = b
    BY <1>3 DEF LockDiscipline, PickPort, InLock, TypeOK
  <2>2. FreePorts(routes)' = FreePorts(routes)
    BY DEF PickPort, FreePorts, PortsIn
  <2>3. /\ pc'[b] = "patch" 
        /\ snap'[b] = routes'
        /\ port'[b] \in FreePorts(routes')
    BY <1>1, <2>2 DEF PickPort, SnapshotCurrent, TypeOK
  <2> QED
    BY <2>1, <2>3 DEF SnapshotCurrent, InLock
<1> QED
  BY <1>2, <1>3, <1>4 DEF PickPort, TypeOK, PortsUnique, ArgInSubnet, RoutesInSubnets

(* Nobody is in the block after it is left, so only the routes written and *)
(* the types remain to be looked at.                                       *)
LEMMA ReleaseKeepsInv ==
  ASSUME Inv, NEW b \in Bridges, pc[b] \in InLock, Release(b),
         pc' = [pc EXCEPT ![b] = pc'[b]],
         pc'[b] \in Calls \cup Results,
         UNCHANGED <<services, arg, port>>,
         fresh' \subseteq fresh,
         routes' \in SUBSET Route, PortsUnique', RoutesInSubnets'
  PROVE  Inv'
<1> USE DEF Inv
<1>1. TypeOK'
  BY DEF TypeOK, Release
<1>2. \A a \in Bridges : pc'[a] \notin InLock
  <2> SUFFICES ASSUME NEW a \in Bridges
               PROVE  pc'[a] \notin InLock
    OBVIOUS
  <2>1. CASE a = b
    BY <2>1 DEF TypeOK, Calls, Results, InLock
  <2>2. CASE a # b
    BY <2>2, Exclusion DEF TypeOK
  <2> QED
    BY <2>1, <2>2
<1>3. LockDiscipline'
  BY <1>2, NobodyAssumption DEF LockDiscipline, Release
<1>4. SnapshotCurrent'
  BY <1>2 DEF SnapshotCurrent, InLock
<1>5. ArgInSubnet'
  BY DEF ArgInSubnet, TypeOK, InLock
<1> QED
  BY <1>1, <1>3, <1>4, <1>5

LEMMA AddPatchKeepsInv ==
  ASSUME Inv, NEW b \in Bridges, AddPatch(b)
  PROVE  Inv'
<1> USE DEF Inv
<1>1. port[b] \in FreePorts(routes) /\ snap[b] = routes
  BY DEF AddPatch, SnapshotCurrent
<1>2. routes' = routes \cup {NewRoute(b)}
  BY <1>1 DEF AddPatch
<1>3. /\ NewRoute(b) \in Route
      /\ NewRoute(b).port = port[b]
      /\ NewRoute(b).dest \in DestsOf[NewRoute(b).peer]
  BY <1>1, NewRouteTyped DEF AddPatch, FreePorts
<1>4. routes' \in SUBSET Route /\ RoutesInSubnets'
  BY <1>2, <1>3 DEF TypeOK, RoutesInSubnets
<1>5. PortsUnique'
  BY <1>1, <1>2, <1>3, FreePortKeepsUnique DEF PortsUnique
<1>6. /\ pc' = [pc EXCEPT ![b] = pc'[b]]
      /\ pc'[b] \in Calls \cup Results
      /\ pc[b] \in InLock
  BY DEF AddPatch, TypeOK, Calls, InLock
<1> QED
  BY <1>4, <1>5, <1>6, ReleaseKeepsInv DEF AddPatch

LEMMA RemoveWriteKeepsInv ==
  ASSUME Inv, NEW b \in Bridges, RemoveWrite(b)
  PROVE  Inv'
<1> USE DEF Inv
<1>1. routes' \subseteq routes
  BY DEF RemoveWrite, SnapshotCurrent
<1>2. routes' \in SUBSET Route /\ RoutesInSubnets'
  BY <1>1 DEF TypeOK, RoutesInSubnets
<1>3. PortsUnique'
  BY <1>1, SubsetKeepsUnique DEF PortsUnique
<1>4. /\ pc' = [pc EXCEPT ![b] = pc'[b]]
      /\ pc'[b] \in Calls \cup Results
      /\ pc[b] \in InLock
  BY DEF RemoveWrite, TypeOK, Calls, Results, InLock
<1>5. fresh' \subseteq fresh
  BY DEF RemoveWrite
<1> QED
  BY <1>2, <1>3, <1>4, <1>5, ReleaseKeepsInv DEF RemoveWrite

(* The operation gives up inside the block: no port, or a failing call. *)
LEMMA GiveUpKeepsInv ==
  ASSUME Inv, NEW b \in Bridges, pc[b] \in InLock, NoPortLeft(b) \/ CallFails(b)
  PROVE  Inv'
<1> USE DEF Inv
<1>1. /\ Release(b)
      /\ fresh' \subseteq fresh
      /\ pc' = [pc EXCEPT ![b] = "failed"]
      /\ UNCHANGED <<routes, services, arg, port>>
  BY DEF NoPortLeft, CallFails, InLock, Calls
<1>2. /\ pc' = [pc EXCEPT ![b] = pc'[b]]
      /\ pc'[b] \in Calls \cup Results
  BY <1>1 DEF TypeOK, Results
<1>3. routes' \in SUBSET Route /\ PortsUnique' /\ RoutesInSubnets'
  BY <1>1 DEF TypeOK, PortsUnique, RoutesInSubnets
<1> QED
  BY <1>1, <1>2, <1>3, ReleaseKeepsInv

-----------------------------------------------------------------------------
(* The steps outside the block are quiet.                                  *)

LEMMA CallIsQuiet ==
  ASSUME Inv, NEW b \in Bridges, NEW op \in Operations,
         NEW d \in DestsOf[ClientOf[b]], Call(b, op, d)
  PROVE  Quiet(b)
  BY ClientAssumption DEF Inv, Quiet, Call, Begin, TypeOK, InLock, Operations

LEMMA ReturnIsQuiet ==
  ASSUME Inv, NEW b \in Bridges, Return(b)
  PROVE  Quiet(b)
  BY DEF Inv, Quiet, Return, TypeOK, InLock, Results

LEMMA ServiceStepIsQuiet ==
  ASSUME Inv, NEW b \in Bridges,
         CreateService(b) \/ PatchService(b) \/ DeleteService(b)
  PROVE  Quiet(b)
<1> USE DEF Inv
<1>1. CASE CreateService(b)
  BY <1>1, OwnLabelTyped
  DEF CreateService, Quiet, TypeOK, ArgInSubnet, InLock, Calls
<1>2. CASE PatchService(b)
  BY <1>2, OwnLabelTyped
  DEF PatchService, Quiet, TypeOK, ArgInSubnet, InLock, Calls, Results
<1>3. CASE DeleteService(b)
  BY <1>3 DEF DeleteService, Quiet, TypeOK, ArgInSubnet, InLock, Calls
<1> QED
  BY <1>1, <1>2, <1>3

LEMMA OtherStepIsQuiet ==
  ASSUME Inv, NEW b \in Bridges,
         \/ Notify(b) \/ RemoveNothing(b)
         \/ ExistsService(b) \/ ExistsRoute(b) \/ GetDestination(b)
         \/ CallFails(b) /\ pc[b] \notin InLock
  PROVE  Quiet(b)
<1> USE DEF Inv, Quiet, TypeOK, ArgInSubnet, InLock, Calls, Results
<1>1. CASE Notify(b)
  BY <1>1 DEF Notify
<1>2. CASE RemoveNothing(b)
  BY <1>2 DEF RemoveNothing
<1>3. CASE ExistsService(b)
  BY <1>3 DEF ExistsService
<1>4. CASE ExistsRoute(b)
  BY <1>4 DEF ExistsRoute
<1>5. CASE GetDestination(b)
  <2> DEFINE found == Labelled(ClientOf[b], arg[b])
  <2>1. found # {} => Lowest(found) \in Ports
    <3>1. found \in SUBSET Ports
      BY DEF Labelled
    <3> HIDE DEF found
    <3>2. found # {} => \E p \in found : \A q \in found : p <= q
      BY <3>1, PortsAssumption
    <3> QED
      BY <3>1, <3>2 DEF Lowest
  <2> QED
    BY <1>5, <2>1 DEF GetDestination
<1>6. CASE CallFails(b) /\ pc[b] \notin InLock
  BY <1>6 DEF CallFails
<1> QED
  BY <1>1, <1>2, <1>3, <1>4, <1>5, <1>6

LEMMA NextKeepsInv == Inv /\ [Next]_vars => Inv'
<1> SUFFICES ASSUME Inv, [Next]_vars
             PROVE  Inv'
  OBVIOUS
<1>1. CASE UNCHANGED vars
  BY <1>1
  DEF vars, Inv, TypeOK, PortsUnique, LockDiscipline, ArgInSubnet,
      SnapshotCurrent, RoutesInSubnets, Hits
<1>2. CASE Next
  <2>1. PICK b \in Bridges :
           \/ \E op \in Operations, d \in DestsOf[ClientOf[b]] : Call(b, op, d)
           \/ Acquire(b) \/ Work(b) \/ CallFails(b) \/ Return(b)
    BY <1>2 DEF Next
  <2>2. CASE \E op \in Operations, d \in DestsOf[ClientOf[b]] : Call(b, op, d)
    BY <2>2, CallIsQuiet, QuietKeepsInv
  <2>3. CASE Acquire(b)
    BY <2>3, AcquireKeepsInv, OtherStepIsQuiet, QuietKeepsInv DEF Acquire
  <2>4. CASE Work(b) \/ CallFails(b)
    <3>1. CASE PickPort(b) \/ NoPortLeft(b)
      <4>1. pc[b] \in InLock
        BY <3>1 DEF PickPort, NoPortLeft, InLock
      <4> QED
        BY <3>1, <4>1, PickPortKeepsInv, GiveUpKeepsInv
    <3>2. CASE AddPatch(b) \/ RemoveWrite(b)
      BY <3>2, AddPatchKeepsInv, RemoveWriteKeepsInv
    <3>3. CASE CallFails(b)
      BY <3>3, GiveUpKeepsInv, OtherStepIsQuiet, QuietKeepsInv
    <3>4. CASE CreateService(b) \/ PatchService(b) \/ DeleteService(b)
      BY <3>4, ServiceStepIsQuiet, QuietKeepsInv
    <3>5. CASE Notify(b) \/ ExistsService(b) \/ ExistsRoute(b) \/ GetDestination(b)
      BY <3>5, OtherStepIsQuiet, QuietKeepsInv
    <3> QED
      BY <2>4, <3>1, <3>2, <3>3, <3>4, <3>5 DEF Work
  <2>5. CASE Return(b)
    BY <2>5, ReturnIsQuiet, QuietKeepsInv
  <2> QED
    BY <2>1, <2>2, <2>3, <2>4, <2>5
<1> QED
  BY <1>1, <1>2

(* Inv holds throughout: stowaway/__init__.py:41 "serialize proxyroutes    *)
(* ConfigMap read-modify-write operations" does what it says for handlers. *)
THEOREM InvHolds == Spec => []Inv
<1>1. Init => Inv
  BY InitInv
<1>2. Inv /\ [Next]_vars => Inv'
  BY NextKeepsInv
<1> QED
  BY <1>1, <1>2, PTL DEF Spec

(* Every variable stays in its type, and with it no port outside the range *)
(* is ever written into a route.                                           *)
THEOREM TypeCorrect == Spec => []TypeOK
<1>1. Inv => TypeOK
  BY DEF Inv
<1> QED
  BY <1>1, InvHolds, PTL

(* However many bridges run their operations at the same time, no two      *)
(* routes of the config map ever have the same proxy port.                 *)
THEOREM PortsStayUnique == Spec => []PortsUnique
<1>1. Inv => PortsUnique
  BY DEF Inv
<1> QED
  BY <1>1, InvHolds, PTL

(* An edit is always computed from what the config map still says: no      *)
(* bridge's entry is overwritten by another's.                             *)
THEOREM NoEditIsStale == Spec => []SnapshotCurrent
<1>1. Inv => SnapshotCurrent
  BY DEF Inv
<1> QED
  BY <1>1, InvHolds, PTL

-----------------------------------------------------------------------------
(* Whose route is removed, and the refinement.                             *)

(* The entry an edit is about to leave out is of the bridge's own client.  *)
LEMMA HitIsOwn ==
  ASSUME SubnetsDisjoint, Inv, NEW b \in Bridges, pc[b] # "idle", NEW r \in Hits(b)
  PROVE  r \in routes /\ r.peer = ClientOf[b] /\ r.dest = arg[b] /\ r.dest \in Dests
<1> USE DEF Inv
<1>1. ClientOf[b] \in Clients
  BY ClientAssumption
<1>2. arg[b] \in Dests /\ arg[b] \in DestsOf[ClientOf[b]]
  BY <1>1, ClientAssumption DEF ArgInSubnet
<1>3. r \in routes /\ r.dest = arg[b] /\ r.peer \in Clients /\ r.dest \in DestsOf[r.peer]
  BY DEF Hits, TypeOK, Route, RoutesInSubnets
<1> QED
  BY <1>1, <1>2, <1>3 DEF SubnetsDisjoint

LEMMA StepRemovesOwn ==
  ASSUME Inv, [Next]_vars, SubnetsDisjoint, NEW b \in Bridges,
         pc[b] = "write", pc'[b] = "delete", NEW r \in routes \ routes'
  PROVE  r.peer = ClientOf[b] /\ r.dest = arg[b]
<1> USE DEF Inv
<1>1. Next
  BY DEF vars
<1>2. PICK a \in Bridges :
         \/ \E op \in Operations, d \in DestsOf[ClientOf[a]] : Call(a, op, d)
         \/ Acquire(a) \/ Work(a) \/ CallFails(a) \/ Return(a)
  BY <1>1 DEF Next
<1>3. a = b
  <2>1. pc' = [pc EXCEPT ![a] = pc'[a]]
    BY <1>2
    DEF TypeOK, Call, Begin, Acquire, Work, Return, AddRead, RemoveRead, RemoveNothing,
        PickPort, NoPortLeft, AddPatch, CreateService, PatchService, CallFails,
        RemoveWrite, DeleteService, Notify, ExistsService, ExistsRoute, GetDestination
  <2> QED
    BY <2>1 DEF TypeOK
<1>4. RemoveWrite(b)
  BY <1>2, <1>3
  DEF TypeOK, Call, Begin, Acquire, Work, Return, Operations, Results, AddRead,
      RemoveRead, RemoveNothing, PickPort, NoPortLeft, AddPatch, CreateService,
      PatchService, CallFails, DeleteService, Notify, ExistsService, ExistsRoute,
      GetDestination
<1>5. PICK s \in Hits(b) : snap[b] = routes \ {s}
  BY DEF SnapshotCurrent
<1>6. r = s
  BY <1>4, <1>5 DEF RemoveWrite, SnapshotCurrent
<1> QED
  BY <1>6, HitIsOwn

(* As long as no address belongs to two clients, a bridge takes out only   *)
(* routes of its own client to the destination it was asked to remove.     *)
THEOREM OnlyOwnRoutesRemoved == Spec => RemovesOwnRoute
<1> DEFINE P == SubnetsDisjoint =>
                  \A b \in Bridges : pc[b] = "write" /\ pc'[b] = "delete" =>
                    \A r \in routes \ routes' : r.peer = ClientOf[b] /\ r.dest = arg[b]
<1>1. Inv /\ [Next]_vars => P
  BY StepRemovesOwn
<1>2. RemovesOwnRoute <=> [][P]_vars
  BY DEF RemovesOwnRoute
<1> HIDE DEF P
<1> QED
  BY <1>1, <1>2, InvHolds, PTL DEF Spec

LEMMA StepIsTableStep ==
  ASSUME Inv, Next
  PROVE  Table!Next \/ UNCHANGED routes
<1> USE DEF Inv
<1>1. PICK b \in Bridges :
         \/ \E op \in Operations, d \in DestsOf[ClientOf[b]] : Call(b, op, d)
         \/ Acquire(b) \/ Work(b) \/ CallFails(b) \/ Return(b)
  BY DEF Next
<1>2. ClientOf[b] \in Clients
  BY ClientAssumption
<1>3. CASE AddPatch(b)
  <2>1. port[b] \in FreePorts(routes) /\ snap[b] = routes
    BY <1>3 DEF AddPatch, SnapshotCurrent
  <2>2. port[b] \in Ports /\ port[b] \notin Table!PortsIn(routes)
    BY <2>1 DEF FreePorts, PortsIn, Table!PortsIn
  <2>3. arg[b] \in Dests
    BY <1>3, <1>2, ClientAssumption DEF AddPatch, ArgInSubnet
  <2>4. Table!Add(ClientOf[b], arg[b])
    BY <1>3, <2>1, <2>2 DEF AddPatch, NewRoute, Table!Add, Table!AddAt
  <2> QED
    BY <1>2, <2>3, <2>4 DEF Table!Next
<1>4. CASE RemoveWrite(b)
  <2>1. PICK r \in Hits(b) : snap[b] = routes \ {r}
    BY <1>4 DEF RemoveWrite, SnapshotCurrent
  <2>2. r \in routes /\ r.peer \in Clients /\ r.dest \in Dests
    BY <2>1 DEF Hits, TypeOK, Route
  <2>3. b \in fresh
    BY <1>4 DEF RemoveWrite, SnapshotCurrent
  <2>4. Table!Remove(r.peer, r.dest)
    BY <1>4, <2>1, <2>2, <2>3 DEF RemoveWrite, Table!Remove
  <2> QED
    BY <2>2, <2>4 DEF Table!Next
<1>5. CASE ~AddPatch(b) /\ ~RemoveWrite(b)
  BY <1>1, <1>5
  DEF Call, Acquire, Work, Return, AddRead, RemoveRead, RemoveNothing, PickPort,
      NoPortLeft, CreateService, PatchService, CallFails, DeleteService, Notify,
      ExistsService, ExistsRoute, GetDestination
<1> QED
  BY <1>3, <1>4, <1>5

(* The operator's edits of the config map, each a read and a later write,  *)
(* are the atomic ones of RouteTable.                                      *)
THEOREM EditsImplementTable == Spec => ImplementsTable
<1>1. Init => Table!Init
  BY DEF Init, Table!Init
<1>2. Inv /\ [Next]_vars => [Table!Next]_routes
  BY StepIsTableStep DEF vars
<1> QED
  BY <1>1, <1>2, InvHolds, PTL DEF Spec, ImplementsTable, Table!Spec
=============================================================================
