-------------------------- MODULE RouteSweep_proof --------------------------
(***************************************************************************)
(* Proofs about RouteSweep, for any number of bridges, ports and faults:   *)
(* its types, and that the sweep, which holds no lock, takes no route away *)
(* from a bridge it has listed with it.                                    *)
(***************************************************************************)
EXTENDS RouteSweep, StowawayRoutes_proof

(* The destination of a bridge is a destination, of its client. *)
LEMMA DestTyped == \A b \in Bridges : DestOf[b] \in Dests /\ ClientOf[b] \in Clients
  BY DestAssumption, ClientAssumption

(* What is left of the types when one bridge takes a step: its operation   *)
(* has a destination and a port, and what it writes is typed.              *)
OperationStep(b) ==
  /\ TypeOK'
  /\ pc' = [pc EXCEPT ![b] = pc'[b]]
  /\ arg' = [arg EXCEPT ![b] = arg'[b]]
  /\ port' = [port EXCEPT ![b] = port'[b]]
  /\ pc'[b] # "idle" => arg'[b] \in Dests
  /\ pc'[b] = "patch" => port'[b] \in Ports

LEMMA StepKeepsOperationsTyped ==
  ASSUME TypeOK, OperationsTyped, NEW b \in Bridges, OperationStep(b)
  PROVE  OperationsTyped'
  BY DEF OperationStep, OperationsTyped, TypeOK

LEMMA WorkIsTyped ==
  ASSUME TypeOK, OperationsTyped, NEW b \in Bridges, Acquire(b) \/ Work(b) \/ CallFails(b)
  PROVE  OperationStep(b)
<1> USE DEF OperationStep
<1>1. CASE AddRead(b)
  BY <1>1 DEF AddRead, TypeOK, OperationsTyped, Operations, InLock
<1>2. CASE RemoveRead(b)
  BY <1>2 DEF RemoveRead, TypeOK, OperationsTyped, Operations, InLock, Hits, Route
<1>3. CASE RemoveNothing(b)
  BY <1>3 DEF RemoveNothing, TypeOK, OperationsTyped, Operations, Calls
<1>4. CASE PickPort(b)
  <2>1. Lowest(FreePorts(routes)) \in Ports
    BY <1>4, LowestIsFree DEF PickPort, FreePorts
  <2> QED
    BY <1>4, <2>1 DEF PickPort, TypeOK, OperationsTyped, InLock
<1>5. CASE NoPortLeft(b)
  BY <1>5 DEF NoPortLeft, Release, TypeOK, OperationsTyped, Results
<1>6. CASE AddPatch(b)
  <2>1. NewRoute(b) \in Route
    BY <1>6, ClientAssumption DEF AddPatch, NewRoute, Route, OperationsTyped
  <2> QED
    BY <1>6, <2>1 DEF AddPatch, Release, TypeOK, OperationsTyped, Calls
<1>7. CASE CreateService(b) \/ PatchService(b)
  <2>1. OwnLabel(b) \in Label
    BY <1>7, ClientAssumption DEF CreateService, PatchService, OwnLabel, Label, OperationsTyped
  <2> QED
    BY <1>7, <2>1 DEF CreateService, PatchService, TypeOK, OperationsTyped, Calls, Results
<1>8. CASE CallFails(b)
  BY <1>8 DEF CallFails, Release, TypeOK, OperationsTyped, Results, InLock, Calls
<1>9. CASE RemoveWrite(b)
  BY <1>9 DEF RemoveWrite, Release, TypeOK, OperationsTyped, Results, Calls
<1>10. CASE DeleteService(b) \/ Notify(b)
  BY <1>10 DEF DeleteService, Notify, TypeOK, OperationsTyped, Results, Calls
<1>11. CASE ExistsService(b) \/ ExistsRoute(b)
  BY <1>11 DEF ExistsService, ExistsRoute, TypeOK, OperationsTyped, Results, Calls
<1>12. CASE GetDestination(b)
  <2>1. \A S \in SUBSET Ports : S # {} => Lowest(S) \in Ports
    BY PortsAssumption DEF Lowest
  <2>2. Labelled(ClientOf[b], arg[b]) \in SUBSET Ports
    BY DEF Labelled
  <2> QED
    BY <1>12, <2>1, <2>2 DEF GetDestination, TypeOK, OperationsTyped, Results
<1> QED
  BY <1>1, <1>2, <1>3, <1>4, <1>5, <1>6, <1>7, <1>8, <1>9, <1>10, <1>11, <1>12 DEF Acquire, Work

-----------------------------------------------------------------------------
(* The bridges' handlers.                                                  *)

(* What a bridge does can make the sweep's copy an old one, nothing else. *)
LEMMA WaitingKeepsCopy ==
  ASSUME CopyCurrent, SweepWaits
  PROVE  CopyCurrent'
  BY DEF CopyCurrent, SweepWaits, ListedFor, NoEndpoints

LEMMA HandleIsTyped ==
  ASSUME TypeOK, OperationsTyped, NEW b \in Bridges, NEW next, NEW op \in Operations,
         Handle(b, next, op)
  PROVE  OperationStep(b)
  BY DestTyped DEF Handle, Begin, OperationStep, TypeOK, OperationsTyped, Operations

LEMMA ConcludeIsTyped ==
  ASSUME TypeOK, OperationsTyped, NEW b \in Bridges, NEW next, Conclude(b, next)
  PROVE  OperationStep(b)
  BY DEF Conclude, Return, OperationStep, TypeOK, OperationsTyped

(* The types of what RouteSweep adds to StowawayRoutes, without the sweep. *)
BridgesTyped ==
  /\ life \in [Bridges -> {"absent", "setup", "confirm", "up", "down", "teardown", "gone"}]
  /\ once \subseteq Bridges
  /\ endpoint \in [Bridges -> Ports \cup {NoPort}]
  /\ faults \in 0..MaxFaults

SweepTyped ==
  /\ sweep \in {"idle", "list", "purge", "replace", "clean", "dead"}
  /\ copy \in SUBSET Route
  /\ listed \in [Bridges -> Ports \cup {NoPort}]
  /\ swept \in SUBSET Ports
  /\ current \in BOOLEAN

LEMMA TypesSplit == SweepTypeOK <=> TypeOK /\ BridgesTyped /\ SweepTyped
  BY DEF SweepTypeOK, BridgesTyped, SweepTyped

LEMMA FaultIsCounted ==
  ASSUME BridgesTyped, Fault
  PROVE  faults' \in 0..MaxFaults
  BY DestAssumption DEF BridgesTyped, Fault

LEMMA BridgeStepIsTyped ==
  ASSUME SweepTypeOK, OperationsTyped, NEW b \in Bridges, Handler(b) \/ Timer(b) \/ User(b)
  PROVE  OperationStep(b) /\ BridgesTyped' /\ SweepWaits
<1> USE TypesSplit
<1>1. SweepWaits
  BY DEF Handler, Timer, User
<1>2. CASE Operate(b)
  <2>1. OperationStep(b)
    BY <1>2, WorkIsTyped DEF Operate, Denies, Work
  <2>2. BridgesTyped'
    BY <1>2, FaultIsCounted DEF Operate, bridgeVars, BridgesTyped
  <2> QED
    BY <1>1, <2>1, <2>2
<1>3. CASE Proceed(b) \/ Timer(b) \/ User(b)
  <2>1. OperationStep(b)
    BY <1>3, HandleIsTyped DEF Proceed, Timer, User, Setup, Delete, Reconcile, Operations
  <2>2. BridgesTyped'
    BY <1>3 DEF Proceed, Timer, User, Setup, Delete, Reconcile, Handle, BridgesTyped
  <2> QED
    BY <1>1, <2>1, <2>2
<1>4. CASE Confirm(b)
  <2>1. OperationStep(b)
    BY <1>4, HandleIsTyped DEF Confirm, Operations
  <2>2. BridgesTyped'
    BY <1>4 DEF Confirm, Handle, BridgesTyped, TypeOK
  <2> QED
    BY <1>1, <2>1, <2>2
<1>5. CASE SetUp(b) \/ NotSetUp(b) \/ TornDown(b)
  <2>1. OperationStep(b)
    BY <1>5, ConcludeIsTyped DEF SetUp, NotSetUp, TornDown
  <2>2. BridgesTyped'
    BY <1>5, FaultIsCounted DEF SetUp, NotSetUp, TornDown, Conclude, BridgesTyped
  <2> QED
    BY <1>1, <2>1, <2>2
<1> QED
  BY <1>2, <1>3, <1>4, <1>5 DEF Handler

LEMMA BridgeStepKeepsInv ==
  ASSUME SweepInv, NEW b \in Bridges, Handler(b) \/ Timer(b) \/ User(b)
  PROVE  SweepInv'
<1>1. OperationStep(b) /\ BridgesTyped' /\ SweepWaits
  BY BridgeStepIsTyped DEF SweepInv
<1>2. SweepTyped'
  BY <1>1, TypesSplit DEF SweepInv, SweepTyped, SweepWaits
<1>3. OperationsTyped'
  BY <1>1, StepKeepsOperationsTyped, TypesSplit DEF SweepInv
<1>4. CopyCurrent'
  BY <1>1, WaitingKeepsCopy DEF SweepInv
<1> QED
  BY <1>1, <1>2, <1>3, <1>4 DEF SweepInv, OperationStep, SweepTypeOK, BridgesTyped, SweepTyped

-----------------------------------------------------------------------------
(* The sweep.                                                              *)

LEMMA SweepEndsTyped ==
  ASSUME NEW at \in {"idle", "dead"}, SweepEnds(at)
  PROVE  SweepTyped' /\ CopyCurrent'
  BY DEF SweepEnds, SweepTyped, CopyCurrent, NoEndpoints

(* The steps that leave what bridges see alone. *)
LEMMA LookingKeepsInv ==
  ASSUME SweepInv,
         \/ SweepRead \/ SweepNothing \/ SweepStumbles
         \/ SweepPurge \/ SweepMatch \/ SweepFails
  PROVE  SweepInv'
<1> USE TypesSplit
<1>1. UNCHANGED <<vars, bridgeVars>> /\ faults' \in 0..MaxFaults
  BY FaultIsCounted DEF SweepInv, SweepRead, SweepNothing, SweepStumbles, SweepPurge,
     SweepMatch, SweepFails, BridgesTyped
<1>2. TypeOK' /\ BridgesTyped' /\ OperationsTyped'
  BY <1>1 DEF SweepInv, vars, bridgeVars, TypeOK, BridgesTyped, OperationsTyped
<1>3. SweepTyped' /\ CopyCurrent'
  <2>1. CASE SweepRead
    BY <2>1, <1>1 DEF SweepRead, SweepInv, SweepTyped, CopyCurrent, vars, TypeOK
  <2>2. CASE SweepNothing \/ SweepStumbles \/ SweepFails
    BY <2>2, SweepEndsTyped DEF SweepNothing, SweepStumbles, SweepFails
  <2>3. CASE SweepPurge
    <3>1. PortsIn(copy) \in SUBSET Ports
      BY DEF SweepInv, SweepTyped, PortsIn, Route
    <3>2. SweepTyped'
      BY <2>3, <3>1 DEF SweepPurge, SweepInv, SweepTyped
    <3>3. \A r \in routes, b \in Bridges : ~ListedFor(b, r)'
      BY <2>3, PortsAssumption
      DEF SweepPurge, SweepInv, CopyCurrent, NoEndpoints, ListedFor, TypeOK, Route
    <3> QED
      BY <2>3, <1>1, <3>2, <3>3 DEF SweepPurge, CopyCurrent, vars, ListedFor
  <2>4. CASE SweepMatch
    <3> DEFINE keep == {r \in copy : Matches(r) # {}}
    <3>1. CASE keep = copy
      BY <2>4, <3>1, SweepEndsTyped DEF SweepMatch
    <3>2. CASE keep # copy
      <4>1. /\ copy' = keep /\ swept' = PortsIn(copy \ keep) /\ sweep' = "replace"
            /\ listed' = [b \in Bridges |-> IF Present(b) THEN endpoint[b] ELSE NoPort]
            /\ current' = current /\ sweep = "list"
        BY <2>4, <3>2 DEF SweepMatch
      <4>2. PortsIn(copy \ keep) \in SUBSET Ports
        BY DEF SweepInv, SweepTyped, PortsIn, Route
      <4>3. SweepTyped'
        BY <4>1, <4>2 DEF SweepInv, SweepTyped, BridgesTyped
      <4>4. \A r \in copy \ keep, b \in Bridges : ~ListedFor(b, r)'
        BY <4>1, PortsAssumption
        DEF SweepInv, SweepTyped, ListedFor, Route, Matches, Alike, Present
      <4> QED
        BY <4>1, <1>1, <4>3, <4>4 DEF SweepInv, CopyCurrent, vars, ListedFor
    <3> QED
      BY <3>1, <3>2
  <2> QED
    BY <2>1, <2>2, <2>3, <2>4
<1> QED
  BY <1>2, <1>3 DEF SweepInv, SweepTypeOK, BridgesTyped, SweepTyped

LEMMA ReplaceKeepsInv ==
  ASSUME SweepInv, SweepReplace
  PROVE  SweepInv'
<1> USE TypesSplit DEF SweepInv
<1>1. CASE current
  <2>1. Replaced
    BY <1>1 DEF SweepReplace
  <2>2. TypeOK' /\ OperationsTyped'
    BY <2>1 DEF Replaced, TypeOK, OperationsTyped, SweepTyped
  <2>3. BridgesTyped'
    BY DEF SweepReplace, bridgeVars, BridgesTyped
  <2>4. SweepTyped' /\ CopyCurrent'
    <3>1. CASE swept = {}
      BY <2>1, <3>1, SweepEndsTyped DEF Replaced
    <3>2. CASE swept # {}
      BY <2>1, <3>2 DEF Replaced, SweepTyped, CopyCurrent
    <3> QED
      BY <3>1, <3>2
  <2> QED
    BY <2>2, <2>3, <2>4 DEF SweepTypeOK, BridgesTyped, SweepTyped
<1>2. CASE ~current
  <2>1. SweepEnds("dead") /\ UNCHANGED <<vars, bridgeVars, faults>>
    BY <1>2 DEF SweepReplace
  <2>2. TypeOK' /\ BridgesTyped' /\ OperationsTyped'
    BY <2>1 DEF vars, bridgeVars, TypeOK, BridgesTyped, OperationsTyped
  <2> QED
    BY <2>1, <2>2, SweepEndsTyped DEF SweepTypeOK, BridgesTyped, SweepTyped
<1> QED
  BY <1>1, <1>2

LEMMA ServiceKeepsInv ==
  ASSUME SweepInv, SweepService
  PROVE  SweepInv'
<1> USE TypesSplit DEF SweepInv
<1>1. TypeOK' /\ OperationsTyped'
  BY DEF SweepService, TypeOK, OperationsTyped, bridgeVars
<1>2. BridgesTyped'
  BY FaultIsCounted DEF SweepService, bridgeVars, BridgesTyped
<1>3. SweepTyped' /\ CopyCurrent'
  <2>1. PICK p \in swept :
           IF swept # {p}
           THEN /\ swept' = swept \ {p}
                /\ UNCHANGED <<sweep, copy, listed, current>>
           ELSE IF sweep = "clean"
                THEN SweepEnds("idle")
                ELSE /\ swept' = {}
                     /\ sweep' = "replace"
                     /\ UNCHANGED <<copy, listed, current>>
    BY DEF SweepService
  <2>2. UNCHANGED routes /\ sweep \in {"purge", "clean"}
    BY DEF SweepService
  <2>3. CASE swept # {p}
    BY <2>1, <2>2, <2>3 DEF SweepTyped, CopyCurrent, ListedFor
  <2>4. CASE swept = {p} /\ sweep = "clean"
    BY <2>1, <2>4, SweepEndsTyped
  <2>5. CASE swept = {p} /\ sweep = "purge"
    BY <2>1, <2>2, <2>5 DEF SweepTyped, CopyCurrent, ListedFor
  <2> QED
    BY <2>2, <2>3, <2>4, <2>5
<1> QED
  BY <1>1, <1>2, <1>3 DEF SweepTypeOK, BridgesTyped, SweepTyped

-----------------------------------------------------------------------------

LEMMA InitSweepInv == InitAll => SweepInv
<1> SUFFICES ASSUME InitAll PROVE SweepInv
  OBVIOUS
<1>1. TypeOK
  BY InitInv DEF InitAll, Inv
<1>2. BridgesTyped
  BY DestAssumption DEF InitAll, BridgesTyped, NoEndpoints
<1>3. SweepTyped
  BY DEF InitAll, SweepTyped, NoEndpoints
<1>4. OperationsTyped
  BY DEF InitAll, Init, OperationsTyped
<1>5. CopyCurrent
  BY DEF InitAll, CopyCurrent
<1> QED
  BY <1>1, <1>2, <1>3, <1>4, <1>5, TypesSplit DEF SweepInv

LEMMA NextKeepsSweepInv == SweepInv /\ [NextAll]_allVars => SweepInv'
<1> SUFFICES ASSUME SweepInv, [NextAll]_allVars
             PROVE  SweepInv'
  OBVIOUS
<1>1. CASE NextAll
  BY <1>1, BridgeStepKeepsInv, LookingKeepsInv, ReplaceKeepsInv, ServiceKeepsInv
  DEF NextAll, Sweep
<1>2. CASE UNCHANGED allVars
  BY <1>2 DEF allVars, vars, bridgeVars, sweepVars, SweepInv, SweepTypeOK, TypeOK,
     OperationsTyped, CopyCurrent, ListedFor, NoEndpoints
<1> QED
  BY <1>1, <1>2

(* The sweep's copy, as long as its resourceVersion is the current one, is *)
(* the config map, and what it leaves out belongs to no bridge it listed.  *)
THEOREM SweepInvHolds == SweepSpec => []SweepInv
<1> QED
  BY InitSweepInv, NextKeepsSweepInv, PTL DEF SweepSpec

(* Type correctness of the composition of the sweep and the bridges. *)
THEOREM SweepTypeCorrect == SweepSpec => []SweepTypeOK
<1>1. SweepInv => SweepTypeOK
  BY DEF SweepInv
<1> QED
  BY <1>1, SweepInvHolds, PTL

LEMMA SweepStepKeepsListed ==
  ASSUME SweepInv, NextAll, sweep = "replace", sweep' # "replace"
  PROVE  \A r \in routes \ routes', b \in Bridges : ~ListedFor(b, r)
<1>1. ~SweepWaits
  BY DEF SweepWaits
<1>2. SweepReplace \/ UNCHANGED routes
  BY <1>1 DEF NextAll, Handler, Timer, User, Sweep, SweepRead, SweepNothing, SweepStumbles,
     SweepPurge, SweepMatch, SweepService, SweepFails, vars
<1>3. CASE SweepReplace
  BY <1>3 DEF SweepReplace, Replaced, SweepInv, CopyCurrent, vars
<1> QED
  BY <1>2, <1>3

(* reconcile_proxyroutes never takes a route away from a bridge that it    *)
(* has listed with the route's port, though it edits without the lock.     *)
THEOREM ListedRoutesStay == SweepSpec => SweepKeepsListed
<1>1. SweepInv /\ [NextAll]_allVars =>
        [sweep = "replace" /\ sweep' # "replace" =>
           \A r \in routes \ routes', b \in Bridges : ~ListedFor(b, r)]_allVars
  BY SweepStepKeepsListed DEF allVars, sweepVars
<1> QED
  BY <1>1, SweepInvHolds, PTL DEF SweepSpec, SweepKeepsListed
=============================================================================
