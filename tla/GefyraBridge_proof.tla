------------------------- MODULE GefyraBridge_proof -------------------------
(***************************************************************************)
(* Proofs about GefyraBridge, for any number of bridges, targets, edits,   *)
(* faults and restarts: its types, that one process at a time is inside a  *)
(* handler on a target, and what it takes to leave a bridge in a           *)
(* transitional state (BridgeInv).  Then, while no call fails and no edit crosses a     *)
(* handler: a bridge that says ACTIVE is served, a deleted one leaves      *)
(* nothing, and the rules of two clients lead apart (CalmInv).             *)
(***************************************************************************)
EXTENDS GefyraBridge, TLAPS

(* What a process remembers. *)
Memory == [task : Tasks \cup {"none"}, state : States, dest : Dests \cup {NoDest},
           goal : Goals, port : MaybePort, rules : [Bridges -> MaybePort]]

(* The process is inside a handler, under the lock of its target. *)
Working(h) == pc[h] \notin {"idle", "lock"}

Locked == \A h \in Procs : Working(h) => lock[Target(h)] = h

(* Nothing is done for an object that is not there; a handler adds a route *)
(* for a destination it has, when it sets the bridge up.                   *)
Named ==
  /\ \A b \in Bridges : phase[b] # "absent" => dest[b] \in Dests
  /\ \A b \in Bridges : todo[b] # {} => phase[b] # "absent"
  /\ \A h \in Procs : pc[h] # "idle" => phase[Of(h)] # "absent" /\ mem[h].dest \in Dests
  /\ \A h \in Procs : pc[h] = "add" => mem[h].goal = "setup"

(* A handler of the bridge is between set_installed and activate, or sets  *)
(* it up: it will go on to ACTIVE or ERROR.                                *)
Midway(h) ==
  \/ pc[h] \in {"set_installed", "set up", "not set up", "establish", "impair"}
  \/ /\ pc[h] \in {"exists", "get", "get again", "add", "endpoint", "route", "list", "commit"}
     /\ mem[h].goal = "setup"

Stable == {"REQUESTED", "ACTIVE", "ERROR"}

Settled ==
  restarts = 0 =>
    \A b \in Bridges \ unsaved : state[b] \in Stable \/ \E who \in {"worker", "timer"} : Midway(<<b, who>>)

BridgeInv == TypeOK /\ Named /\ Locked /\ Settled

-----------------------------------------------------------------------------
(* The types, in parts.                                                    *)

ObjectTyped ==
  /\ phase \in [Bridges -> {"absent", "present", "deleting", "gone"}]
  /\ state \in [Bridges -> States]
  /\ wasActive \in [Bridges -> BOOLEAN]
  /\ dest \in [Bridges -> Dests \cup {NoDest}]
  /\ endpoint \in [Bridges -> MaybePort]

KopfTyped ==
  /\ handled \in [Bridges -> Dests \cup {NoDest}]
  /\ todo \in [Bridges -> SUBSET {"create", "delete"}]

ClusterTyped ==
  /\ table \in SUBSET Table!Route
  /\ rules \in [Targets -> [Bridges -> MaybePort]]
  /\ ready \in [Targets -> BOOLEAN]

LockTyped == lock \in [Targets -> Procs \cup {Nobody}]

ProcsTyped == pc \in [Procs -> Pcs] /\ mem \in [Procs -> Memory]

BoundsTyped ==
  /\ edits \in 0..MaxEdits /\ faults \in 0..MaxFaults /\ restarts \in 0..MaxRestarts
  /\ crossed \in BOOLEAN /\ unsaved \in SUBSET Bridges

LEMMA TypesSplit ==
  TypeOK <=> ObjectTyped /\ KopfTyped /\ ClusterTyped /\ LockTyped /\ ProcsTyped /\ BoundsTyped
  BY DEF TypeOK, ObjectTyped, KopfTyped, ClusterTyped, LockTyped, ProcsTyped, BoundsTyped, Memory

LEMMA TypesJoin ==
  ASSUME ObjectTyped', KopfTyped', ClusterTyped', LockTyped', ProcsTyped', BoundsTyped'
  PROVE  TypeOK'
  BY DEF TypeOK, ObjectTyped, KopfTyped, ClusterTyped, LockTyped, ProcsTyped, BoundsTyped, Memory

LEMMA ProcOfBridge ==
  \A h \in Procs : Of(h) \in Bridges /\ Target(h) \in Targets
  BY BridgeAssumption DEF Procs, Of, Target

LEMMA IdleTyped == Idle \in Memory
  BY DEF Idle, Memory, Tasks, States, Goals, MaybePort, NoRules

-----------------------------------------------------------------------------
(* What every step of a handler has in common.  It is inside the handler;  *)
(* it changes its own place and memory, and the state of its bridge only;  *)
(* it goes on under the lock or gives it back.                             *)
HandlerStep(h) ==
  /\ UNCHANGED <<phase, dest, restarts>>
  /\ pc' = [pc EXCEPT ![h] = pc'[h]] /\ pc'[h] \in Pcs
  /\ mem' = [mem EXCEPT ![h] = mem'[h]] /\ mem'[h] \in Memory
  /\ state' = [state EXCEPT ![Of(h)] = state'[Of(h)]]
  /\ \A b \in Bridges : todo'[b] \subseteq todo[b]
  /\ unsaved \subseteq unsaved'
  /\ Working(h)
  /\ \/ Working(h)' /\ lock' = lock
     \/ pc'[h] = "idle" /\ lock' = [lock EXCEPT ![Target(h)] = Nobody]
  /\ pc'[h] # "idle" => mem'[h].dest = mem[h].dest
  /\ pc'[h] = "add" => mem'[h].goal = "setup"
  /\ state[Of(h)] \in Stable \/ Midway(h)
       => state'[Of(h)] \in Stable \/ Midway(h)' \/ Of(h) \in unsaved'

OtherTypes == ObjectTyped /\ KopfTyped /\ ClusterTyped /\ BoundsTyped

LEMMA PersistIsTyped ==
  ASSUME TypeOK, NEW h \in Procs, NEW s \in States, Persist(h, s)
  PROVE  /\ ObjectTyped' /\ KopfTyped' /\ ClusterTyped' /\ BoundsTyped'
         /\ UNCHANGED <<phase, dest, restarts, unsaved, lock, todo>>
         /\ state' = [state EXCEPT ![Of(h)] = s] /\ state'[Of(h)] = s
  BY TypesSplit, ProcOfBridge
  DEF Persist, kopf, cluster, bounds, ObjectTyped, KopfTyped, ClusterTyped, BoundsTyped

(* The machine's own steps. *)
LEMMA MachineStep ==
  ASSUME TypeOK, NEW h \in Procs,
         \/ Install(h) \/ Restore(h) \/ SetInstalled(h)
         \/ Activated(h) \/ Establish(h) \/ Impair(h)
  PROVE  HandlerStep(h) /\ OtherTypes'
<1> USE TypesSplit, ProcOfBridge DEF HandlerStep, OtherTypes, ProcsTyped, Goto
<1>1. CASE Install(h)
  <2>1. CASE ready[Target(h)]
    <3>1. Persist(h, "INSTALLING")
      BY <1>1, <2>1 DEF Install
    <3>2. OtherTypes' /\ UNCHANGED <<phase, dest, restarts, unsaved, lock, todo>>
          /\ state' = [state EXCEPT ![Of(h)] = "INSTALLING"]
      BY <3>1, PersistIsTyped DEF States
    <3> QED
      BY <1>1, <2>1, <3>2 DEF Install, Pcs, Working, Midway, ObjectTyped
  <2>2. CASE ~ready[Target(h)]
    BY <1>1, <2>2 DEF Install, Pcs, Working, Midway, object, kopf, cluster, bounds,
       ObjectTyped, KopfTyped, ClusterTyped, BoundsTyped
  <2> QED
    BY <2>1, <2>2
<1>2. CASE Restore(h)
  <2>1. OtherTypes' /\ UNCHANGED <<phase, dest, restarts, unsaved, lock, todo>>
        /\ state' = [state EXCEPT ![Of(h)] = "RESTORING"]
    BY <1>2, PersistIsTyped DEF Restore, States
  <2> QED
    BY <1>2, <2>1 DEF Restore, Pcs, Working, Midway, ObjectTyped
<1>3. CASE SetInstalled(h)
  <2>1. OtherTypes' /\ UNCHANGED <<phase, dest, restarts, unsaved, lock, todo>>
        /\ state' = [state EXCEPT ![Of(h)] = "INSTALLED"]
    BY <1>3, PersistIsTyped DEF SetInstalled, States
  <2> QED
    <3>1. /\ mem' = [mem EXCEPT ![h].goal = "setup"] /\ Goto(h, "exists") /\ pc[h] = "set_installed"
      BY <1>3 DEF SetInstalled, Turn
    <3>2. "setup" \in Goals /\ "exists" \in Pcs
      BY DEF Goals, Pcs
    <3>3. /\ mem' = [mem EXCEPT ![h] = mem'[h]] /\ mem'[h] \in Memory /\ mem'[h].dest = mem[h].dest
          /\ mem'[h].goal = "setup"
      BY <3>1, <3>2 DEF Memory
    <3>4. pc' = [pc EXCEPT ![h] = "exists"] /\ pc'[h] = "exists"
      BY <3>1
    <3> QED
      BY <2>1, <3>1, <3>2, <3>3, <3>4 DEF Working, Midway, ObjectTyped
<1>4. CASE Activated(h)
  <2>1. OtherTypes' /\ UNCHANGED <<phase, dest, restarts, unsaved, lock, todo>>
        /\ state' = [state EXCEPT ![Of(h)] = "CREATING"]
    BY <1>4, PersistIsTyped DEF Activated, States
  <2> QED
    BY <1>4, <2>1 DEF Activated, Pcs, Working, Midway, ObjectTyped
<1>5. CASE Establish(h)
  <2>1. OtherTypes' /\ UNCHANGED <<phase, dest, restarts, unsaved, lock, todo>>
        /\ state' = [state EXCEPT ![Of(h)] = "ACTIVE"] /\ state'[Of(h)] = "ACTIVE"
    BY <1>5, PersistIsTyped DEF Establish, States
  <2> QED
    BY <1>5, <2>1 DEF Establish, Pcs, Working, Stable
<1>6. CASE Impair(h)
  <2>1. OtherTypes' /\ UNCHANGED <<phase, dest, restarts, unsaved, lock, todo>>
        /\ state' = [state EXCEPT ![Of(h)] = "ERROR"] /\ state'[Of(h)] = "ERROR"
    BY <1>6, PersistIsTyped DEF Impair, States
  <2> QED
    BY <1>6, <2>1 DEF Impair, Pcs, Working, Stable
<1> QED
  BY <1>1, <1>2, <1>3, <1>4, <1>5, <1>6

(* The calls to the providers.  A step that writes nothing but the process *)
(* itself: *)
Quiet == UNCHANGED <<object, kopf, cluster, lock, bounds>>

LEMMA QuietIsTyped ==
  ASSUME TypeOK, Quiet
  PROVE  OtherTypes' /\ UNCHANGED <<phase, state, dest, restarts, unsaved, todo, lock>>
  BY TypesSplit
  DEF Quiet, object, kopf, cluster, bounds, OtherTypes, ObjectTyped, KopfTyped,
      ClusterTyped, BoundsTyped

(* A handler learns a port, or the rules it will commit. *)
Learns(h) ==
  /\ mem' = [mem EXCEPT ![h] = mem'[h]] /\ mem'[h] \in Memory
  /\ mem'[h].goal = mem[h].goal /\ mem'[h].dest = mem[h].dest

LEMMA PortLearnt ==
  ASSUME ProcsTyped, NEW h \in Procs, NEW p \in MaybePort,
         mem' = [mem EXCEPT ![h].port = p]
  PROVE  Learns(h)
  BY DEF ProcsTyped, Memory, Learns

LEMMA RulesLearnt ==
  ASSUME ProcsTyped, NEW h \in Procs, NEW f \in [Bridges -> MaybePort],
         mem' = [mem EXCEPT ![h].rules = f]
  PROVE  Learns(h)
  BY DEF ProcsTyped, Memory, Learns

LEMMA LookingStep ==
  ASSUME TypeOK, NEW h \in Procs,
         Exists(h) \/ Get(h) \/ CheckRoute(h) \/ ListBridges(h)
  PROVE  HandlerStep(h) /\ OtherTypes'
<1> USE TypesSplit, ProcOfBridge DEF HandlerStep, ProcsTyped, Goto
<1>1. OtherTypes' /\ UNCHANGED <<phase, state, dest, restarts, unsaved, todo, lock>>
  BY QuietIsTyped DEF Quiet, Exists, Get, CheckRoute, ListBridges
<1>2. mem[h].goal \in Goals /\ state \in [Bridges -> States]
  BY DEF Memory, ObjectTyped
<1>3. CASE Exists(h)
  BY <1>1, <1>2, <1>3 DEF Exists, Missing, TornDown, Goals, Pcs, Working, Midway
<1>4. CASE Get(h)
  <2>1. \A r \in table : r.port \in MaybePort
    BY DEF ClusterTyped, Table!Route, MaybePort
  <2>2. mem' = mem \/ Learns(h)
    BY <1>4, <2>1, PortLearnt DEF Get, OwnRoutes
  <2> QED
    BY <1>1, <1>2, <1>4, <2>2 DEF Get, Learns, Goals, Pcs, Working, Midway
<1>5. CASE CheckRoute(h)
  BY <1>1, <1>2, <1>5 DEF CheckRoute, Goals, Pcs, Working, Midway
<1>6. CASE ListBridges(h)
  <2>1. [b \in Bridges |-> IF b \in Listed(h) THEN endpoint[b] ELSE NoPort]
          \in [Bridges -> MaybePort]
    BY DEF ObjectTyped, MaybePort
  <2>2. mem' = mem \/ Learns(h)
    BY <1>6, <2>1, RulesLearnt DEF ListBridges
  <2> QED
    BY <1>1, <1>2, <1>6, <2>2 DEF ListBridges, Learns, Unready, Goals, Pcs, Working, Midway
<1> QED
  BY <1>3, <1>4, <1>5, <1>6

LEMMA Added ==
  ASSUME TypeOK, Named, NEW h \in Procs, pc[h] = "add",
         NEW p \in Ports, Table!AddAt(ClientOf[Of(h)], Destination(h), p)
  PROVE  table' \in SUBSET Table!Route
<1>1. Destination(h) \in Dests
  BY ProcOfBridge DEF Named, Destination
<1>2. ClientOf[Of(h)] \in Clients
  BY ProcOfBridge, BridgeAssumption
<1> QED
  BY <1>1, <1>2 DEF TypeOK, Table!AddAt, Table!Route

(* The bounds, when a call may fail. *)
LEMMA FaultFits ==
  ASSUME BoundsTyped, MayFail, faults' = faults + 1
  PROVE  faults' \in 0..MaxFaults
  BY BoundAssumption DEF BoundsTyped, MayFail

LEMMA FaultIsCounted ==
  ASSUME BoundsTyped, UNCHANGED <<edits, restarts, crossed, unsaved>>,
         faults' = faults \/ (MayFail /\ faults' = faults + 1)
  PROVE  BoundsTyped'
  BY BoundAssumption DEF BoundsTyped, MayFail

LEMMA WritingStep ==
  ASSUME TypeOK, Named, NEW h \in Procs,
         Add(h) \/ AddFails(h) \/ WriteEndpoint(h) \/ Commit(h) \/ Remove(h)
  PROVE  HandlerStep(h) /\ OtherTypes'
<1> USE TypesSplit, ProcOfBridge DEF HandlerStep, OtherTypes, ProcsTyped, Goto, kopf, bounds
<1>1. mem[h].goal \in Goals /\ state \in [Bridges -> States]
  BY DEF Memory, ObjectTyped
<1>2. CASE Add(h)
  <2>1. Learns(h)
    BY <1>2, PortLearnt DEF Add, MaybePort
  <2>2. ClusterTyped'
    BY <1>2, Added DEF Add, ClusterTyped
  <2>3. ObjectTyped' /\ KopfTyped' /\ BoundsTyped'
    BY <1>2 DEF Add, object, ObjectTyped, KopfTyped, BoundsTyped
  <2> QED
    BY <1>1, <1>2, <2>1, <2>2, <2>3 DEF Add, Learns, object, Pcs, Working, Midway, Named
<1>3. CASE AddFails(h)
  <2>1. ClusterTyped'
    BY <1>3, Added DEF AddFails, ClusterTyped
  <2>2. ObjectTyped' /\ KopfTyped'
    BY <1>3 DEF AddFails, object, ObjectTyped, KopfTyped
  <2>3. BoundsTyped'
    BY <1>3, FaultIsCounted DEF AddFails
  <2> QED
    BY <1>1, <1>3, <2>1, <2>2, <2>3 DEF AddFails, object, Pcs, Working, Midway
<1>4. CASE WriteEndpoint(h)
  <2>1. ObjectTyped'
    BY <1>4 DEF WriteEndpoint, ObjectTyped, Memory
  <2>2. ClusterTyped' /\ KopfTyped' /\ BoundsTyped'
    BY <1>4 DEF WriteEndpoint, cluster, ClusterTyped, KopfTyped, BoundsTyped
  <2> QED
    BY <1>1, <1>4, <2>1, <2>2 DEF WriteEndpoint, Pcs, Working, Midway
<1>5. CASE Commit(h)
  <2>1. ClusterTyped'
    BY <1>5 DEF Commit, ClusterTyped, Memory
  <2>2. ObjectTyped' /\ KopfTyped' /\ BoundsTyped'
    BY <1>5 DEF Commit, object, ObjectTyped, KopfTyped, BoundsTyped
  <2> QED
    BY <1>1, <1>5, <2>1, <2>2 DEF Commit, Unready, object, Goals, Pcs, Working, Midway
<1>6. CASE Remove(h)
  <2>1. ClusterTyped'
    BY <1>6 DEF Remove, ClusterTyped
  <2>2. ObjectTyped' /\ KopfTyped' /\ BoundsTyped'
    BY <1>6, FaultIsCounted DEF Remove, object, ObjectTyped, KopfTyped, BoundsTyped
  <2> QED
    BY <1>1, <1>6, <2>1, <2>2 DEF Remove, TornDown, object, Pcs, Working, Midway
<1> QED
  BY <1>2, <1>3, <1>4, <1>5, <1>6

(* The handler returns, or raises. *)
LEMMA EndingStep ==
  ASSUME TypeOK, NEW h \in Procs, Finish(h) \/ Raise(h)
  PROVE  HandlerStep(h) /\ OtherTypes'
<1> USE TypesSplit, ProcOfBridge, IdleTyped DEF HandlerStep, OtherTypes, ProcsTyped, Goto
<1>1. UNCHANGED <<phase, state, dest, restarts, unsaved>>
      /\ ObjectTyped' /\ ClusterTyped' /\ BoundsTyped'
  BY DEF Finish, Raise, object, cluster, bounds, ObjectTyped, ClusterTyped, BoundsTyped
<1>2. KopfTyped' /\ \A b \in Bridges : todo'[b] \subseteq todo[b]
  <2>1. CASE Finish(h)
    <3>1. todo' = [todo EXCEPT ![Of(h)] = @ \ {mem[h].task}]
      BY <2>1 DEF Finish
    <3>2. mem[h].dest \in Dests \cup {NoDest}
      BY DEF Memory
    <3>3. handled' = handled \/ handled' = [handled EXCEPT ![Of(h)] = mem[h].dest]
      BY <2>1 DEF Finish
    <3> QED
      BY <3>1, <3>2, <3>3 DEF KopfTyped
  <2>2. CASE Raise(h)
    BY <2>2 DEF Raise, kopf, KopfTyped
  <2> QED
    BY <2>1, <2>2
<1> QED
  BY <1>1, <1>2 DEF Finish, Raise, Pcs, Working, Midway, ObjectTyped

(* A call fails: a write of the state leaves the bridge among the unsaved, *)
(* any other one leaves its state alone.                                   *)
LEMMA PersistFailsStep ==
  ASSUME TypeOK, NEW h \in Procs, PersistFails(h)
  PROVE  HandlerStep(h) /\ OtherTypes'
<1> USE TypesSplit, ProcOfBridge DEF HandlerStep, OtherTypes, ProcsTyped, Goto, kopf, cluster
<1>1. Entered(h) \in States
  BY DEF PersistFails, Entered, States
<1>2. /\ state' = [state EXCEPT ![Of(h)] = state'[Of(h)]]
      /\ ObjectTyped'
  BY <1>1 DEF PersistFails, ObjectTyped
<1>3. BoundsTyped'
  <2>1. faults' \in 0..MaxFaults
    BY FaultFits DEF PersistFails
  <2>2. unsaved' \in SUBSET Bridges
    BY DEF PersistFails, BoundsTyped
  <2>3. UNCHANGED <<edits, restarts, crossed>>
    BY DEF PersistFails
  <2> QED
    BY Zenon, <2>1, <2>2, <2>3 DEF BoundsTyped
<1>4. ClusterTyped' /\ KopfTyped'
  BY DEF PersistFails, ClusterTyped, KopfTyped
<1> QED
  BY <1>2, <1>3, <1>4 DEF PersistFails, Pcs, Working

LEMMA CallFailsStep ==
  ASSUME TypeOK, Named, NEW h \in Procs, CallFails(h)
  PROVE  HandlerStep(h) /\ OtherTypes'
<1> USE TypesSplit, ProcOfBridge DEF HandlerStep, OtherTypes, ProcsTyped, Goto, kopf
<1>1. mem[h].goal \in Goals /\ mem[h].port \in MaybePort /\ mem[h].rules \in [Bridges -> MaybePort]
  BY DEF Memory
<1>2. ObjectTyped' /\ ClusterTyped'
  BY <1>1 DEF CallFails, ObjectTyped, ClusterTyped
<1>3. KopfTyped' /\ BoundsTyped'
  BY FaultIsCounted DEF CallFails, KopfTyped
<1>4. \E at \in {Failed(h), Missing(h)} : pc' = [pc EXCEPT ![h] = at] /\ (at = Missing(h) => pc[h] = "exists" \/ at = Failed(h))
  BY DEF CallFails
<1>5. /\ Failed(h) \in Pcs \ {"idle", "lock", "add"}
      /\ mem[h].goal = "setup" => Failed(h) = "not set up"
  BY <1>1 DEF Failed, Goals, Pcs
<1>6. /\ Missing(h) \in Pcs \ {"idle", "lock"}
      /\ Missing(h) = "add" => mem[h].goal = "setup"
      /\ mem[h].goal = "setup" => Missing(h) = "add"
  BY <1>1 DEF Missing, TornDown, Goals, Pcs
<1>7. UNCHANGED <<phase, state, dest, lock, mem, restarts, unsaved, todo>> /\ Working(h)
  BY DEF CallFails, Working
<1> QED
  BY <1>2, <1>3, <1>4, <1>5, <1>6, <1>7 DEF CallFails, Working, Midway, ObjectTyped

LEMMA StepIsHandlerStep ==
  ASSUME TypeOK, Named, NEW h \in Procs, Step(h)
  PROVE  HandlerStep(h) /\ OtherTypes'
  BY MachineStep, PersistFailsStep, CallFailsStep, LookingStep, WritingStep, EndingStep DEF Step

-----------------------------------------------------------------------------
(* Every step keeps the invariant.                                         *)

(* Two processes inside handlers of one target are one. *)
LEMMA OneWorks ==
  ASSUME Locked, NEW g \in Procs, NEW h \in Procs, Target(g) = Target(h),
         Working(g), Working(h)
  PROVE  g = h
  BY DEF Locked

LEMMA ProcsOf ==
  /\ \A b \in Bridges, who \in {"worker", "timer"} :
        <<b, who>> \in Procs /\ Of(<<b, who>>) = b /\ Target(<<b, who>>) = TargetOf[b]
  /\ \A h \in Procs : \E who \in {"worker", "timer"} : h = <<Of(h), who>>
  /\ \A h \in Procs : Target(h) = TargetOf[Of(h)]
  BY DEF Procs, Of, Target

LEMMA MidwayWorks == \A h \in Procs : Midway(h) => Working(h)
  BY DEF Midway, Working

(* A step of a handler: no other process is in a handler on its target,    *)
(* and what it does to its own bridge HandlerStep says.                    *)
LEMMA HandlerStepKeepsInv ==
  ASSUME BridgeInv, NEW h \in Procs, HandlerStep(h), OtherTypes'
  PROVE  BridgeInv'
<1> USE DEF BridgeInv
<1> USE TypesSplit, ProcOfBridge
<1>1. TypeOK'
  <2>1. ProcsTyped' /\ LockTyped'
    BY DEF HandlerStep, ProcsTyped, LockTyped
  <2> QED
    BY <2>1, TypesJoin DEF OtherTypes
<1>2. Named'
  <2>1. \A b \in Bridges : /\ phase'[b] = phase[b] /\ dest'[b] = dest[b]
                           /\ todo'[b] \subseteq todo[b]
    BY DEF HandlerStep
  <2>2. \A g \in Procs : /\ pc'[g] # "idle" => pc[g] # "idle" /\ mem'[g].dest = mem[g].dest
                         /\ pc'[g] = "add" => mem'[g].goal = "setup"
    BY DEF HandlerStep, Named, ProcsTyped, Working
  <2> QED
    BY <2>1, <2>2 DEF Named
<1>3. \A g \in Procs \ {h} : /\ Working(g)' <=> Working(g)
                             /\ Midway(g)' <=> Midway(g)
  BY DEF HandlerStep, ProcsTyped, Working, Midway
<1>4. Locked'
  <2> SUFFICES ASSUME NEW g \in Procs, Working(g)'
               PROVE  lock'[Target(g)] = g
    BY DEF Locked
  <2>1. CASE g = h
    BY <2>1 DEF HandlerStep, Locked, Working
  <2>2. CASE g # h
    <3>1. Working(g) /\ Target(g) # Target(h)
      BY <1>3, <2>2, OneWorks DEF HandlerStep
    <3> QED
      BY <3>1 DEF HandlerStep, Locked, LockTyped
  <2> QED
    BY <2>1, <2>2
<1>5. Settled'
  <2> SUFFICES ASSUME restarts = 0, NEW b \in Bridges \ unsaved'
               PROVE  state'[b] \in Stable \/ \E who \in {"worker", "timer"} : Midway(<<b, who>>)'
    BY DEF HandlerStep, Settled
  <2>0. b \in Bridges \ unsaved
    BY DEF HandlerStep
  <2>1. state[b] \in Stable \/ \E who \in {"worker", "timer"} : Midway(<<b, who>>)
    BY <2>0 DEF Settled
  <2>2. CASE b = Of(h)
    <3>1. state[b] \in Stable \/ Midway(h)
      <4>1. ASSUME NEW who \in {"worker", "timer"}, Midway(<<b, who>>)
            PROVE  Midway(h)
        <5>1. <<b, who>> \in Procs /\ Target(<<b, who>>) = Target(h) /\ Working(<<b, who>>)
          BY <2>2, <4>1, ProcsOf, MidwayWorks
        <5>2. Working(h)
          BY DEF HandlerStep
        <5>3. <<b, who>> = h
          BY <5>1, <5>2, OneWorks
        <5> QED
          BY <4>1, <5>3
      <4> QED
        BY <2>1, <4>1
    <3>2. state'[b] \in Stable \/ Midway(h)'
      BY <2>2, <3>1 DEF HandlerStep
    <3> QED
      BY <2>2, <3>2, ProcsOf
  <2>3. CASE b # Of(h)
    <3>1. state'[b] = state[b]
      BY <2>3 DEF HandlerStep, ObjectTyped
    <3>2. \A who \in {"worker", "timer"} : Midway(<<b, who>>)' <=> Midway(<<b, who>>)
      BY <1>3, <2>3, ProcsOf
    <3> QED
      BY <2>1, <3>1, <3>2
  <2> QED
    BY <2>2, <2>3
<1> QED
  BY <1>1, <1>2, <1>4, <1>5

(* Users and the cluster touch no process and no state. *)
LEMMA OutsideStepKeepsInv ==
  ASSUME BridgeInv, UNCHANGED <<state, lock, pc, mem, restarts, unsaved>>,
         TypeOK', Named'
  PROVE  BridgeInv'
  BY DEF BridgeInv, Locked, Settled, Working, Midway

LEMMA CreateKeepsInv ==
  ASSUME BridgeInv, NEW b \in Bridges, NEW d \in Dests, CreateAt(b, d)
  PROVE  BridgeInv'
<1> USE TypesSplit DEF BridgeInv, kopf, cluster, bounds
<1>1. TypeOK'
  <2>1. ObjectTyped' /\ KopfTyped'
    BY DEF CreateAt, ObjectTyped, KopfTyped
  <2>2. ClusterTyped' /\ LockTyped' /\ ProcsTyped' /\ BoundsTyped'
    BY DEF CreateAt, ClusterTyped, LockTyped, ProcsTyped, BoundsTyped
  <2> QED
    BY <2>1, <2>2, TypesJoin
<1>2. Named'
  BY DEF CreateAt, Named, ObjectTyped, KopfTyped
<1> QED
  BY <1>1, <1>2, OutsideStepKeepsInv DEF CreateAt

LEMMA UserStep ==
  ASSUME BridgeInv, NEW b \in Bridges, Users(b) \/ RemoveFinalizer(b)
  PROVE  BridgeInv'
<1> USE TypesSplit DEF BridgeInv, kopf, cluster, bounds
<1>1. CASE CreateObject(b)
  BY <1>1, BridgeAssumption, CreateKeepsInv DEF CreateObject
<1>2. CASE EditDestination(b)
  <2>1. PICK d \in DestsOf[b] : dest' = [dest EXCEPT ![b] = d]
    BY <1>2 DEF EditDestination
  <2>2. d \in Dests
    BY BridgeAssumption
  <2>3. TypeOK'
    <3>1. ObjectTyped' /\ BoundsTyped'
      BY <1>2, <2>1, <2>2, BoundAssumption DEF EditDestination, MayEdit, ObjectTyped, BoundsTyped
    <3>2. KopfTyped' /\ ClusterTyped' /\ LockTyped' /\ ProcsTyped'
      BY <1>2 DEF EditDestination, KopfTyped, ClusterTyped, LockTyped, ProcsTyped
    <3> QED
      BY <3>1, <3>2, TypesJoin
  <2>4. Named'
    BY <1>2, <2>1, <2>2 DEF EditDestination, Named, ObjectTyped
  <2> QED
    BY <1>2, <2>3, <2>4, OutsideStepKeepsInv DEF EditDestination
<1>3. CASE DeleteObject(b) \/ RemoveFinalizer(b)
  <2>1. UNCHANGED <<state, wasActive, dest, endpoint, handled, cluster, lock, pc, mem, bounds>>
    BY <1>3 DEF DeleteObject, RemoveFinalizer
  <2>2. TypeOK'
    <3>1. ObjectTyped' /\ KopfTyped'
      BY <1>3 DEF DeleteObject, RemoveFinalizer, ObjectTyped, KopfTyped
    <3>2. ClusterTyped' /\ LockTyped' /\ ProcsTyped' /\ BoundsTyped'
      BY <2>1 DEF ClusterTyped, LockTyped, ProcsTyped, BoundsTyped
    <3> QED
      BY <3>1, <3>2, TypesJoin
  <2>3. Named'
    <3>1. \A c \in Bridges : /\ phase'[c] = "absent" <=> phase[c] = "absent"
                             /\ todo'[c] # {} => todo[c] # {} \/ c = b
      BY <1>3 DEF DeleteObject, RemoveFinalizer, ObjectTyped, KopfTyped
    <3>2. phase[b] # "absent"
      BY <1>3 DEF DeleteObject, RemoveFinalizer
    <3>3. \A c \in Bridges : todo'[c] # {} => phase'[c] # "absent"
      BY <3>1, <3>2 DEF Named
    <3>4. \A g \in Procs : pc'[g] # "idle" => phase'[Of(g)] # "absent"
      BY <2>1, <3>1, ProcOfBridge DEF Named
    <3> QED
      BY <2>1, <3>1, <3>3, <3>4 DEF Named
  <2> QED
    BY <2>1, <2>2, <2>3, OutsideStepKeepsInv
<1> QED
  BY <1>1, <1>2, <1>3 DEF Users

LEMMA PodStep ==
  ASSUME BridgeInv, NEW t \in Targets, PodGoes(t) \/ PodReturns(t)
  PROVE  BridgeInv'
<1> USE TypesSplit DEF BridgeInv, object, kopf, bounds
<1>1. UNCHANGED <<object, kopf, table, lock, pc, mem, edits, restarts, crossed, unsaved>>
  BY DEF PodGoes, PodReturns
<1>2. ClusterTyped'
  <2>1. ready' \in [Targets -> BOOLEAN]
    BY DEF PodGoes, PodReturns, ClusterTyped
  <2>2. NoRules \in [Bridges -> MaybePort]
    BY DEF NoRules, MaybePort
  <2>3. rules' \in [Targets -> [Bridges -> MaybePort]]
    BY <2>2 DEF PodGoes, PodReturns, ClusterTyped
  <2> QED
    BY <1>1, <2>1, <2>3 DEF ClusterTyped
<1>3. BoundsTyped'
  BY FaultIsCounted DEF PodGoes, PodReturns
<1>4. ObjectTyped' /\ KopfTyped' /\ LockTyped' /\ ProcsTyped'
  BY <1>1 DEF ObjectTyped, KopfTyped, LockTyped, ProcsTyped
<1>5. TypeOK'
  BY <1>2, <1>3, <1>4, TypesJoin
<1>6. Named'
  BY <1>1 DEF Named
<1> QED
  BY <1>1, <1>5, <1>6, OutsideStepKeepsInv

(* A handler that starts has read the object, and waits for the lock. *)
LEMMA StartKeepsInv ==
  ASSUME BridgeInv, NEW b \in Bridges, NEW who \in {"worker", "timer"}, NEW task \in Tasks,
         phase[b] # "absent", Start(b, who, task),
         UNCHANGED <<phase, state, dest, todo, lock, restarts, unsaved>>, OtherTypes'
  PROVE  BridgeInv'
<1> DEFINE h == <<b, who>>
<1> USE TypesSplit DEF BridgeInv
<1>1. h \in Procs /\ Of(h) = b
  BY ProcsOf
<1>2. mem'[h] \in Memory /\ mem'[h].dest = dest[b]
  <2>1. mem'[h] = [Idle EXCEPT !.task = task, !.state = state[b], !.dest = dest[b]]
    BY <1>1 DEF Start, ProcsTyped
  <2> QED
    BY <2>1, IdleTyped DEF Memory, ObjectTyped
<1>3. pc' = [pc EXCEPT ![h] = "lock"] /\ mem' = [mem EXCEPT ![h] = mem'[h]] /\ pc[h] = "idle"
  BY <1>1 DEF Start, ProcsTyped
<1> HIDE DEF h
<1>4. TypeOK'
  <2>1. ProcsTyped' /\ LockTyped'
    BY <1>1, <1>2, <1>3 DEF ProcsTyped, LockTyped, Pcs
  <2> QED
    BY <2>1, TypesJoin DEF OtherTypes
<1>5. Named'
  BY <1>1, <1>2, <1>3 DEF Named, ProcsTyped
<1>6. \A g \in Procs : (Working(g)' <=> Working(g)) /\ (Midway(g)' <=> Midway(g))
  BY <1>1, <1>3 DEF ProcsTyped, Working, Midway
<1>7. Locked' /\ Settled'
  BY <1>6, ProcsOf DEF Locked, Settled, Target
<1> QED
  BY <1>4, <1>5, <1>7

LEMMA StartStep ==
  ASSUME BridgeInv, NEW b \in Bridges, StartCause(b) \/ StartUpdate(b) \/ StartTimer(b)
  PROVE  BridgeInv'
<1> USE TypesSplit DEF BridgeInv, object, kopf, cluster, bounds
<1>1. CASE StartCause(b)
  <2>1. PICK task \in todo[b] : Start(b, "worker", task)
    BY <1>1 DEF StartCause
  <2>2. task \in Tasks /\ phase[b] # "absent"
    BY DEF KopfTyped, Tasks, Named
  <2>3. Quiet
    BY <1>1 DEF StartCause, Quiet
  <2> QED
    BY <2>1, <2>2, <2>3, QuietIsTyped, StartKeepsInv
<1>2. CASE StartUpdate(b)
  <2>1. phase[b] # "absent"
    BY <1>2 DEF StartUpdate
  <2>2. UNCHANGED <<object, todo, cluster, lock, bounds>>
    BY <1>2 DEF StartUpdate
  <2>3. OtherTypes'
    BY <1>2 DEF StartUpdate, OtherTypes, ObjectTyped, KopfTyped, ClusterTyped, BoundsTyped
  <2>4. CASE Start(b, "worker", "update")
    BY <2>1, <2>2, <2>3, <2>4, StartKeepsInv DEF Tasks
  <2>5. CASE UNCHANGED <<pc, mem>>
    <3>1. TypeOK'
      BY <2>2, <2>3, <2>5, TypesJoin DEF OtherTypes, LockTyped, ProcsTyped
    <3>2. Named'
      BY <2>2, <2>5 DEF Named
    <3> QED
      BY <2>2, <2>5, <3>1, <3>2, OutsideStepKeepsInv
  <2> QED
    BY <1>2, <2>4, <2>5 DEF StartUpdate
<1>3. CASE StartTimer(b)
  <2>1. Quiet /\ phase[b] # "absent" /\ Start(b, "timer", "reconcile")
    BY <1>3 DEF StartTimer, Quiet
  <2> QED
    BY <2>1, QuietIsTyped, StartKeepsInv DEF Tasks
<1> QED
  BY <1>1, <1>2, <1>3

LEMMA EnterStep ==
  ASSUME BridgeInv, NEW h \in Procs, Enter(h)
  PROVE  BridgeInv'
<1> USE TypesSplit, ProcOfBridge DEF BridgeInv
<1>1. UNCHANGED <<object, kopf, cluster, bounds>>
  BY DEF Enter
<1>2. Entry(h)[1] \in Goals /\ Entry(h)[2] \in Pcs \ {"idle", "lock", "add"}
  BY DEF Entry, Goals, Pcs
<1>3. pc' = [pc EXCEPT ![h] = Entry(h)[2]]
  BY DEF Enter, Turn, Goto
<1>4. mem' = [mem EXCEPT ![h].goal = Entry(h)[1]]
  BY DEF Enter, Turn
<1>5. mem' = [mem EXCEPT ![h] = mem'[h]] /\ mem'[h] \in Memory /\ mem'[h].dest = mem[h].dest
  BY <1>2, <1>4 DEF ProcsTyped, Memory
<1>6. TypeOK'
  <2>1. OtherTypes'
    BY <1>1 DEF OtherTypes, object, kopf, cluster, bounds,
       ObjectTyped, KopfTyped, ClusterTyped, BoundsTyped
  <2>2. ProcsTyped' /\ LockTyped'
    BY <1>2, <1>3, <1>5 DEF Enter, ProcsTyped, LockTyped
  <2> QED
    BY <2>1, <2>2, TypesJoin DEF OtherTypes
<1>7. Named'
  <2>1. UNCHANGED <<phase, dest, todo>>
    BY <1>1 DEF object, kopf
  <2>2. \A g \in Procs : /\ pc'[g] # "idle" => pc[g] # "idle" /\ mem'[g].dest = mem[g].dest
                         /\ pc'[g] = "add" => mem'[g].goal = "setup"
    BY <1>2, <1>3, <1>5 DEF Enter, Named, ProcsTyped
  <2> QED
    BY <2>1, <2>2 DEF Named
<1>8. \A g \in Procs : Target(g) = Target(h) => ~Working(g)
  BY AbsentAssumption DEF Enter, Locked, Procs
<1>9. Locked'
  <2>1. \A g \in Procs \ {h} : Working(g)' => Working(g)
    BY <1>3 DEF ProcsTyped, Working
  <2>2. lock' = [lock EXCEPT ![Target(h)] = h]
    BY DEF Enter
  <2> QED
    BY <1>8, <2>1, <2>2 DEF Locked, LockTyped
<1>10. Settled'
  <2> SUFFICES ASSUME restarts = 0, NEW b \in Bridges \ unsaved
               PROVE  state'[b] \in Stable \/ \E who \in {"worker", "timer"} : Midway(<<b, who>>)'
    BY <1>1 DEF bounds, Settled
  <2>1. state'[b] = state[b]
    BY <1>1 DEF object
  <2>2. \A who \in {"worker", "timer"} : Midway(<<b, who>>) => Midway(<<b, who>>)'
    <3> SUFFICES ASSUME NEW who \in {"worker", "timer"}, Midway(<<b, who>>)
                 PROVE  Midway(<<b, who>>)'
      OBVIOUS
    <3>1. <<b, who>> \in Procs /\ <<b, who>> # h
      BY <1>8, ProcsOf, MidwayWorks
    <3> QED
      BY <1>3, <1>5, <3>1 DEF Midway, ProcsTyped
  <2> QED
    BY <2>1, <2>2 DEF Settled
<1> QED
  BY <1>6, <1>7, <1>9, <1>10

LEMMA RestartStep ==
  ASSUME BridgeInv, Restart
  PROVE  BridgeInv'
<1> USE TypesSplit DEF BridgeInv, object, cluster
<1>1. restarts' = restarts + 1 /\ restarts' # 0 /\ BoundsTyped'
  BY BoundAssumption DEF Restart, MayFail, BoundsTyped
<1>2. ObjectTyped' /\ KopfTyped' /\ ClusterTyped'
  BY DEF Restart, ObjectTyped, KopfTyped, ClusterTyped
<1>3. LockTyped' /\ ProcsTyped'
  BY IdleTyped DEF Restart, LockTyped, ProcsTyped, Pcs
<1>4. TypeOK'
  BY <1>1, <1>2, <1>3, TypesJoin
<1>5. Named'
  <2>1. \A b \in Bridges : todo'[b] # {} => phase[b] # "absent"
    BY DEF Restart
  <2> QED
    BY <2>1 DEF Restart, Named
<1>6. Locked' /\ Settled'
  BY <1>1 DEF Restart, Locked, Settled, Working
<1> QED
  BY <1>4, <1>5, <1>6

LEMMA InitIsInvariant == Init => BridgeInv
<1> SUFFICES ASSUME Init PROVE BridgeInv
  OBVIOUS
<1> USE DEF Init
<1>1. TypeOK
  <2>1. ObjectTyped /\ KopfTyped /\ LockTyped
    BY DEF ObjectTyped, KopfTyped, LockTyped, States, MaybePort
  <2>4. BoundsTyped
    <3>1. crossed \in BOOLEAN /\ unsaved \in SUBSET Bridges
      OBVIOUS
    <3>2. edits \in 0..MaxEdits /\ faults \in 0..MaxFaults /\ restarts \in 0..MaxRestarts
      BY BoundAssumption
    <3> QED
      BY <3>1, <3>2 DEF BoundsTyped
  <2>2. ClusterTyped
    BY DEF ClusterTyped, Table!Init, NoRules, MaybePort
  <2>3. ProcsTyped
    BY IdleTyped DEF ProcsTyped, Pcs
  <2> QED
    BY <2>1, <2>2, <2>3, <2>4, TypesSplit
<1>2. Named /\ Locked /\ Settled
  BY DEF Named, Locked, Settled, Working, Stable
<1> QED
  BY <1>1, <1>2 DEF BridgeInv

LEMMA NextKeepsInv == BridgeInv /\ [Next]_vars => BridgeInv'
<1> SUFFICES ASSUME BridgeInv, [Next]_vars PROVE BridgeInv'
  OBVIOUS
<1>1. CASE Operator
  <2>1. ASSUME NEW h \in Procs, Step(h) PROVE BridgeInv'
    BY <2>1, StepIsHandlerStep, HandlerStepKeepsInv DEF BridgeInv
  <2> QED
    BY <1>1, <2>1, EnterStep, RestartStep, PodStep, StartStep, UserStep DEF Operator, Dispatch
<1>2. CASE \E b \in Bridges : Users(b)
  BY <1>2, UserStep
<1>3. CASE UNCHANGED vars
  <2>1. TypeOK' /\ Named'
    BY <1>3 DEF BridgeInv, vars, TypeOK, Named
  <2> QED
    BY <1>3, <2>1, OutsideStepKeepsInv DEF vars
<1> QED
  BY <1>1, <1>2, <1>3 DEF Next

-----------------------------------------------------------------------------
(* The invariant holds in every reachable state. *)
THEOREM BridgeInvariant == Spec => []BridgeInv
  BY InitIsInvariant, NextKeepsInv, PTL DEF Spec

(* Whatever fails and however handlers of many bridges interleave, the     *)
(* object, the routes, the rules and the handlers' memories keep their     *)
(* types: in particular no route without a destination is ever added.      *)
THEOREM BridgeTypes == Spec => []TypeOK
<1>1. BridgeInv => TypeOK
  BY DEF BridgeInv
<1> QED
  BY <1>1, BridgeInvariant, PTL

(* The lock of a target is held by the one process that is inside a        *)
(* handler on it: worker and timer of a bridge, and those of its siblings, *)
(* never overlap.                                                          *)
OneAtATime ==
  \A g, h \in Procs : Target(g) = Target(h) /\ Working(g) /\ Working(h) => g = h

THEOREM HandlersExclude == Spec => []OneAtATime
<1>1. BridgeInv => OneAtATime
  BY OneWorks DEF BridgeInv, OneAtATime
<1> QED
  BY <1>1, BridgeInvariant, PTL

LEMMA SettledAtRest == BridgeInv => NoTransitionalState
<1> SUFFICES ASSUME BridgeInv, NEW b \in Bridges \ unsaved,
                    lock[TargetOf[b]] = Nobody, restarts = 0
             PROVE  state[b] \in Stable
  BY DEF NoTransitionalState, Stable
<1>1. ASSUME NEW who \in {"worker", "timer"} PROVE ~Midway(<<b, who>>)
  <2>1. <<b, who>> \in Procs /\ Target(<<b, who>>) = TargetOf[b]
    BY ProcsOf
  <2>2. ~Working(<<b, who>>)
    BY <2>1, AbsentAssumption DEF BridgeInv, Locked, Procs
  <2> QED
    BY <2>1, <2>2, MidwayWorks
<1> QED
  BY <1>1 DEF BridgeInv, Settled

(* Without a restart a bridge whose target is not being worked on, and     *)
(* none of whose state writes has failed, is never in INSTALLING,          *)
(* INSTALLED, RESTORING or CREATING: the handler that made it so has gone  *)
(* on to ACTIVE or ERROR, whichever other calls failed on the way.         *)
THEOREM NothingIsLeftMidway == Spec => []NoTransitionalState
  BY SettledAtRest, BridgeInvariant, PTL

-----------------------------------------------------------------------------
(* The routes of Stowaway.                                                 *)
LEMMA AddIsTableStep ==
  ASSUME TypeOK, Named, NEW h \in Procs, pc[h] = "add",
         NEW p \in Ports, Table!AddAt(ClientOf[Of(h)], Destination(h), p)
  PROVE  Table!Next
<1>1. Of(h) \in Bridges /\ Destination(h) \in Dests
  BY ProcOfBridge DEF Named, Destination
<1>2. ClientOf[Of(h)] \in Clients
  BY <1>1, BridgeAssumption
<1>3. Table!Add(ClientOf[Of(h)], Destination(h))
  BY DEF Table!Add
<1> QED
  BY <1>1, <1>2, <1>3 DEF Table!Next

LEMMA RemoveIsTableStep ==
  ASSUME TypeOK, NEW r \in table, table' = table \ {r}
  PROVE  Table!Next
<1>1. r.peer \in Clients /\ r.dest \in Dests
  BY DEF TypeOK, Table!Route
<1>2. Table!Remove(r.peer, r.dest)
  BY DEF Table!Remove
<1> QED
  BY <1>1, <1>2 DEF Table!Next

LEMMA HandlerEditsTable ==
  ASSUME TypeOK, Named, NEW h \in Procs, Step(h)
  PROVE  Table!Next \/ UNCHANGED table
<1>1. CASE Add(h)
  BY <1>1, AddIsTableStep DEF Add
<1>2. CASE AddFails(h)
  BY <1>2, AddIsTableStep DEF AddFails
<1>3. CASE Remove(h)
  BY <1>3, RemoveIsTableStep DEF Remove
<1>4. CASE Finish(h) \/ Raise(h) \/ Install(h) \/ Restore(h) \/ SetInstalled(h)
           \/ Activated(h) \/ Establish(h) \/ Impair(h)
  BY <1>4 DEF Finish, Raise, Install, Restore, SetInstalled, Activated, Establish, Impair,
              Persist, cluster
<1>5. CASE Exists(h) \/ Get(h) \/ WriteEndpoint(h) \/ CheckRoute(h) \/ ListBridges(h) \/ Commit(h)
  BY <1>5 DEF Exists, Get, WriteEndpoint, CheckRoute, ListBridges, Commit, cluster
<1>6. CASE PersistFails(h) \/ CallFails(h)
  BY <1>6 DEF PersistFails, CallFails, cluster
<1> QED
  BY <1>1, <1>2, <1>3, <1>4, <1>5, <1>6 DEF Step

LEMMA NextEditsTable == BridgeInv /\ [Next]_vars => [Table!Next]_table
<1> SUFFICES ASSUME BridgeInv, [Next]_vars PROVE Table!Next \/ UNCHANGED table
  OBVIOUS
<1>1. ASSUME NEW h \in Procs, Enter(h) \/ Step(h) PROVE Table!Next \/ UNCHANGED table
  BY <1>1, HandlerEditsTable DEF BridgeInv, Enter, cluster
<1>2. ASSUME NEW b \in Bridges, Dispatch(b) \/ StartTimer(b) \/ Users(b) PROVE UNCHANGED table
  BY <1>2 DEF Dispatch, StartCause, StartUpdate, RemoveFinalizer, StartTimer, Users,
              CreateObject, CreateAt, EditDestination, DeleteObject, cluster
<1>3. ASSUME NEW t \in Targets, PodGoes(t) \/ PodReturns(t) PROVE UNCHANGED table
  BY <1>3 DEF PodGoes, PodReturns
<1>4. CASE Restart \/ UNCHANGED vars
  BY <1>4 DEF Restart, vars, cluster
<1> QED
  BY <1>1, <1>2, <1>3, <1>4 DEF Next, Operator

(* Whatever the handlers of all bridges do, with calls that fail before or *)
(* after they have written and restarts in between, the proxy routes go    *)
(* through the table that connection/abstract.py promises: one route comes *)
(* or goes in a step, for a client there is, to a destination that was     *)
(* asked for, at a port no other route has.                                *)
THEOREM BridgesKeepTheTable == Spec => Table!Spec
<1>1. Init => Table!Init
  BY DEF Init
<1> QED
  BY <1>1, NextEditsTable, BridgeInvariant, PTL DEF Spec, Table!Spec

-----------------------------------------------------------------------------
(* What a target's Carrier and Stowaway have, while no call fails.         *)
(*                                                                         *)
(* From here on no call fails, the operator does not restart and no edit   *)
(* crosses another handler (Undisturbed).  Of the bridges it is assumed    *)
(* that no two of them may ask for one destination (SharedRouteIsKept says *)
(* what the code does otherwise), and of Stowaway that it has a port for   *)
(* every destination.                                                      *)
Unshared == \A a, b \in Bridges : a # b => DestsOf[a] \cap DestsOf[b] = {}

PortsSuffice ==
  \A f \in [Dests -> MaybePort], d \in Dests :
     \E p \in Ports : \A e \in Dests \ {d} : f[e] # p

HandlersOf(b) == {h \in Procs : Of(h) = b}

(* The routes that only b can have asked for, and its rule.                *)
RoutesOf(b) == {r \in table : r.dest \in DestsOf[b]}
RuleOf(b)   == rules[TargetOf[b]][b]

AllReady == \A t \in Targets : ready[t]

(* A port and a destination have one route, and it leads to the client     *)
(* whose bridge asks for that destination.                                 *)
Apart ==
  /\ \A b \in Bridges : \A r \in RoutesOf(b) : r.peer = ClientOf[b]
  /\ \A r, s \in table : r.port = s.port \/ r.dest = s.dest => r = s

Elsewhere == \A t \in Targets, b \in Bridges : TargetOf[b] # t => rules[t][b] = NoPort

(* The rule of a bridge leads to a route of its own, also while a handler  *)
(* of the bridge takes away the one and makes another.                     *)
RuleLeads(b) ==
  phase[b] = "present" /\ RuleOf(b) # NoPort /\ ~Leftover(TargetOf[b])
    => \E r \in RoutesOf(b) : r.port = RuleOf(b)

(* The Carrier has a rule of b, its endpoint, or what a bridge that goes   *)
(* left there; in any case some rule leads to the endpoint.                *)
Ruled(b) ==
  /\ RuleOf(b) # NoPort
  /\ \E c \in Bridges : rules[TargetOf[b]][c] = endpoint[b]
  /\ RuleOf(b) = endpoint[b] \/ Leftover(TargetOf[b])

LeadsToAny(b, D) == \E r \in RoutesOf(b) : r.port = endpoint[b] /\ r.dest \in D

(* What b has while nothing sets it up or tears it down.                   *)
Good(b) ==
  IF handled[b] = NoDest
  THEN state[b] = "REQUESTED" /\ endpoint[b] = NoPort /\ RuleOf(b) = NoPort
  ELSE state[b] = "ACTIVE" /\ Ruled(b) /\ LeadsToAny(b, {dest[b], handled[b]})

(* The handler has not begun to change anything, or is through with it.    *)
Keeps(h) ==
  \/ ~Working(h)
  \/ pc[h] = "done" /\ mem[h].task = "reconcile"
  \/ pc[h] \in {"exists", "get", "route"} /\ (mem[h].goal = "probe" \/ mem[h].task = "delete")

Kept(b) ==
  /\ phase[b] = "present" \/ "delete" \in todo[b]
  /\ \A h \in HandlersOf(b) : Keeps(h)

(* The course of an object, and of the causes kopf owes it. *)
Creating(b) == pc[<<b, "worker">>] = "done" /\ mem[<<b, "worker">>].task = "create"

Life(b) ==
  /\ phase[b] = "absent" => /\ endpoint[b] = NoPort /\ handled[b] = NoDest
                            /\ state[b] = "REQUESTED" /\ RuleOf(b) = NoPort
  /\ phase[b] # "absent" => dest[b] \in DestsOf[b]
  /\ handled[b] \in DestsOf[b] \cup {NoDest}
  /\ "create" \in todo[b] => phase[b] = "present" /\ handled[b] = NoDest
  /\ "delete" \in todo[b] => phase[b] = "deleting"
  /\ phase[b] = "present" /\ handled[b] = NoDest => "create" \in todo[b]
  /\ handled[b] = NoDest /\ ~Creating(b) => ~wasActive[b] /\ pc[<<b, "timer">>] = "idle"

(* What a handler that has been started has read, and why. *)
Started(h) ==
  LET b == Of(h)
      m == mem[h]
  IN  pc[h] # "idle" =>
        /\ phase[b] \in {"present", "deleting"}
        /\ m.dest \in DestsOf[b]
        /\ h = <<b, "timer">> => m.task = "reconcile"
        /\ h = <<b, "worker">> => m.task \in {"create", "update", "delete"}
        /\ m.task = "create" => handled[b] = NoDest /\ (pc[h] = "lock" => m.state = "REQUESTED")
        /\ m.task = "update" => m.dest = dest[b] /\ handled[b] \notin {NoDest, dest[b]}
        /\ m.task = "delete" => m.dest = dest[b] /\ "delete" \in todo[b]

(* Where a handler may be, for each goal and each task. *)
Way(h) ==
  LET m == mem[h]
  IN  /\ m.goal = "setup" => pc[h] \notin {"remove", "raised", "not set up", "impair"}
      /\ m.goal = "probe" => pc[h] \in {"exists", "get", "route", "restore", "set_installed", "done"}
      /\ m.goal = "teardown" =>
           pc[h] \in {"exists", "get", "route", "list", "commit", "remove", "restore",
                      "set_installed", "done"}
      /\ m.task = "create" => m.goal = "setup"
      /\ m.task = "update" => m.goal # "probe" /\ (pc[h] = "done" => m.goal = "setup")
      /\ m.task = "delete" => m.goal = "teardown" /\ pc[h] \notin {"restore", "set_installed"}
      /\ m.task = "reconcile" => m.goal # "teardown"

(* The route the handler has found or made, at the port it remembers. *)
Holds(h) == \E r \in RoutesOf(Of(h)) : r.dest = Destination(h) /\ r.port = mem[h].port

(* What a handler has done so far. *)
Course(h) ==
  LET b  == Of(h)
      m  == mem[h]
      at == pc[h]
  IN  /\ at = "add" => \A r \in RoutesOf(b) : r.dest # Destination(h)
      /\ at = "get" /\ m.goal # "probe" => \E r \in RoutesOf(b) : r.dest = Destination(h)
      /\ at = "endpoint" \/ (at = "route" /\ m.goal = "teardown") => Holds(h)
      /\ at \in {"get again", "route", "list", "commit", "set up", "establish"} /\ m.goal = "setup"
           => Holds(h) /\ endpoint[b] = m.port
      /\ at \in {"set up", "establish"} => Ruled(b)
      /\ at = "done" /\ m.task \in {"create", "update"} =>
           state[b] = "ACTIVE" /\ Ruled(b) /\ LeadsToAny(b, {m.dest})
      /\ at = "remove" => \A r \in RoutesOf(b) : r.dest = Destination(h) => RuleOf(b) # r.port
      /\ at \in {"remove", "done"} /\ m.task = "delete" /\ handled[b] = m.dest => RuleOf(b) = NoPort
      /\ at = "done" /\ m.task = "delete" /\ handled[b] = m.dest =>
           \A r \in RoutesOf(b) : r.dest # m.dest

(* The configuration a handler is about to commit has the endpoint of      *)
(* every bridge of the target, except of one it tears down, and no other.  *)
Takes(h, c) == TargetOf[c] = Target(h) /\ ~(mem[h].goal = "teardown" /\ c = Of(h))

Composed(h) ==
  \A c \in Bridges :
     /\ Takes(h, c) /\ phase[c] # "gone" => mem[h].rules[c] = endpoint[c]
     /\ ~Takes(h, c) => mem[h].rules[c] = NoPort

Fine(b) ==
  /\ Life(b)
  /\ RuleLeads(b)
  /\ Kept(b) => Good(b)
  /\ \A h \in HandlersOf(b) : Started(h) /\ (Working(h) => Way(h) /\ Course(h))

Orderly ==
  /\ AllReady /\ Apart /\ Elsewhere
  /\ \A h \in Procs : pc[h] = "commit" => Composed(h)
  /\ \A b \in Bridges : Fine(b)

CalmInv == Unshared /\ PortsSuffice /\ Undisturbed => Orderly

-----------------------------------------------------------------------------
(* What concerns one bridge only is kept by the steps of all others.       *)
Aside(c) ==
  /\ phase'[c] = phase[c] /\ state'[c] = state[c] /\ wasActive'[c] = wasActive[c]
  /\ dest'[c] = dest[c] /\ endpoint'[c] = endpoint[c]
  /\ handled'[c] = handled[c] /\ todo'[c] = todo[c]
  /\ \A h \in HandlersOf(c) : pc'[h] = pc[h] /\ mem'[h] = mem[h]
  /\ RoutesOf(c)' = RoutesOf(c)
  /\ rules'[TargetOf[c]] = rules[TargetOf[c]]
  /\ Leftover(TargetOf[c]) => Leftover(TargetOf[c])'

LEMMA HandlersKnown ==
  ASSUME NEW b \in Bridges
  PROVE  /\ <<b, "worker">> \in HandlersOf(b) /\ <<b, "timer">> \in HandlersOf(b)
         /\ \A h \in HandlersOf(b) : h \in Procs /\ Of(h) = b /\ Target(h) = TargetOf[b]
         /\ \A h \in HandlersOf(b) : h = <<b, "worker">> \/ h = <<b, "timer">>
         /\ HandlersOf(b)' = HandlersOf(b)
  BY ProcsOf DEF HandlersOf, Of

LEMMA AsideKeepsFine ==
  ASSUME NEW c \in Bridges, Aside(c), Fine(c)
  PROVE  Fine(c)'
<1> USE HandlersKnown DEF Aside, Fine
<1>1. RuleOf(c)' = RuleOf(c)
  BY DEF RuleOf
<1>2. Ruled(c) => Ruled(c)'
  BY <1>1 DEF Ruled
<1>3. \A D : LeadsToAny(c, D)' <=> LeadsToAny(c, D)
  BY DEF LeadsToAny
<1>4. Life(c)'
  BY <1>1 DEF Life, Creating
<1>5. RuleLeads(c)'
  BY <1>1 DEF RuleLeads
<1>6. ASSUME Kept(c)' PROVE Good(c)'
  <2>1. Kept(c)
    BY <1>6 DEF Kept, Keeps, Working
  <2> QED
    BY <1>1, <1>2, <1>3, <2>1 DEF Good
<1>7. ASSUME NEW h \in HandlersOf(c)
      PROVE  Started(h)' /\ (Working(h)' => Way(h)' /\ Course(h)')
  <2>0. pc'[h] = pc[h] /\ mem'[h] = mem[h] /\ Of(h) = c
    OBVIOUS
  <2>1. Started(h)' /\ (Working(h)' => Working(h))
    <3>1. Started(h)
      OBVIOUS
    <3> QED
      BY <2>0, <3>1 DEF Started, Working
  <2>2. Way(h) => Way(h)'
    BY <2>0 DEF Way
  <2>3. Destination(h)' = Destination(h)
    BY <2>0 DEF Destination
  <2>4. Holds(h) => Holds(h)'
    BY <2>0, <2>3 DEF Holds
  <2>5. Course(h) => Course(h)'
    <3> HIDE DEF Fine
    <3> SUFFICES ASSUME Course(h) PROVE Course(h)'
      OBVIOUS
    <3>1. state'[c] = state[c] /\ handled'[c] = handled[c] /\ endpoint'[c] = endpoint[c]
      OBVIOUS
    <3>2. RoutesOf(c)' = RoutesOf(c)
      OBVIOUS
    <3>3. LeadsToAny(c, {mem[h].dest}) => LeadsToAny(c, {mem[h].dest})'
      BY <2>0, <3>1, <3>2 DEF LeadsToAny
    <3> HIDE DEF Aside
    <3> QED
      BY ZenonT(40), <1>1, <1>2, <2>0, <2>3, <2>4, <3>1, <3>2, <3>3 DEF Course
  <2> QED
    BY <2>1, <2>2, <2>5
<1> QED
  BY <1>4, <1>5, <1>6, <1>7

-----------------------------------------------------------------------------
(* What the steps of a handler have in common until it ends: it changes    *)
(* its own memory and object only.                                         *)
World == Unshared /\ PortsSuffice /\ BridgeInv /\ Orderly

Inner(h) ==
  /\ UNCHANGED <<phase, dest, handled, todo, ready, lock>>
  /\ pc' = [pc EXCEPT ![h] = pc'[h]]
  /\ mem' = [mem EXCEPT ![h] = mem'[h]]
  /\ mem'[h].task = mem[h].task /\ mem'[h].dest = mem[h].dest
  /\ state' = [state EXCEPT ![Of(h)] = state'[Of(h)]]
  /\ wasActive' = [wasActive EXCEPT ![Of(h)] = wasActive'[Of(h)]]
  /\ endpoint' = [endpoint EXCEPT ![Of(h)] = endpoint'[Of(h)]]
  /\ Working(h) /\ Working(h)'

(* The machine's own steps, and those that ask and write. *)
Acts(h) ==
  \/ Install(h) \/ Restore(h) \/ SetInstalled(h) \/ Activated(h) \/ Establish(h)
  \/ Exists(h) \/ Get(h) \/ Add(h) \/ WriteEndpoint(h)
  \/ CheckRoute(h) \/ ListBridges(h) \/ Commit(h) \/ Remove(h)

LEMMA PersistChanges ==
  ASSUME TypeOK, NEW h \in Procs, NEW s \in States, Persist(h, s)
  PROVE  /\ UNCHANGED <<phase, dest, handled, todo, ready, lock, table, rules>>
         /\ state' = [state EXCEPT ![Of(h)] = s] /\ state'[Of(h)] = s
         /\ wasActive' = [wasActive EXCEPT ![Of(h)] = wasActive'[Of(h)]]
         /\ s # "ACTIVE" => wasActive'[Of(h)] = wasActive[Of(h)]
         /\ endpoint' = endpoint /\ endpoint' = [endpoint EXCEPT ![Of(h)] = endpoint'[Of(h)]]
<1> USE ProcOfBridge, TypesSplit DEF ObjectTyped
<1>1. /\ UNCHANGED <<phase, dest, endpoint, handled, todo, ready, lock, table, rules>>
      /\ state' = [state EXCEPT ![Of(h)] = s]
  BY DEF Persist, kopf, cluster, bounds
<1>2. wasActive' = [wasActive EXCEPT ![Of(h)] = @ \/ s = "ACTIVE"]
  BY DEF Persist
<1>3. /\ wasActive' = [wasActive EXCEPT ![Of(h)] = wasActive'[Of(h)]]
      /\ s # "ACTIVE" => wasActive'[Of(h)] = wasActive[Of(h)]
  BY <1>2
<1> QED
  BY <1>1, <1>3

LEMMA SameObject ==
  ASSUME TypeOK, NEW h \in Procs, UNCHANGED object
  PROVE  /\ UNCHANGED <<phase, dest>>
         /\ state' = [state EXCEPT ![Of(h)] = state'[Of(h)]]
         /\ wasActive' = [wasActive EXCEPT ![Of(h)] = wasActive'[Of(h)]]
         /\ endpoint' = [endpoint EXCEPT ![Of(h)] = endpoint'[Of(h)]]
  BY ProcOfBridge, TypesSplit DEF object, ObjectTyped

LEMMA ActsIsInner ==
  ASSUME TypeOK, Named, NEW h \in Procs, Acts(h), Working(h)', lock' = lock
  PROVE  Inner(h)
<1> USE DEF Inner
<1>1. HandlerStep(h)
  BY StepIsHandlerStep DEF Acts, Step
<1>2. pc' = [pc EXCEPT ![h] = pc'[h]] /\ mem' = [mem EXCEPT ![h] = mem'[h]] /\ Working(h)
  BY <1>1 DEF HandlerStep
<1>3. pc'[h] # "idle" => mem'[h].dest = mem[h].dest
  BY <1>1 DEF HandlerStep
<1>4. mem'[h].dest = mem[h].dest
  BY <1>3 DEF Working
<1>5. mem'[h].task = mem[h].task
  <2>1. mem[h] \in Memory /\ mem \in [Procs -> Memory]
    BY TypesSplit DEF ProcsTyped
  <2>2. \/ mem' = mem
        \/ \E g : mem' = [mem EXCEPT ![h].goal = g]
        \/ \E p : mem' = [mem EXCEPT ![h].port = p]
        \/ \E f : mem' = [mem EXCEPT ![h].rules = f]
    BY DEF Acts, Install, Restore, SetInstalled, Activated, Establish, Turn,
       Exists, Get, Add, WriteEndpoint, CheckRoute, ListBridges, Commit, Remove
  <2> QED
    BY <2>1, <2>2 DEF Memory
<1>6. CASE Install(h) \/ Restore(h) \/ SetInstalled(h) \/ Activated(h) \/ Establish(h)
  <2>1. (\E s \in States : Persist(h, s)) \/ UNCHANGED <<object, kopf, cluster, lock, bounds>>
    BY <1>6 DEF Install, Restore, SetInstalled, Activated, Establish, States
  <2> QED
    BY <1>2, <1>4, <1>5, <2>1, PersistChanges, SameObject DEF kopf, cluster
<1>7. CASE WriteEndpoint(h)
  BY <1>2, <1>4, <1>5, <1>7, ProcOfBridge, TypesSplit DEF WriteEndpoint, kopf, cluster, ObjectTyped
<1>8. CASE \/ Exists(h) \/ Get(h) \/ Add(h) \/ CheckRoute(h) \/ ListBridges(h)
           \/ Commit(h) \/ Remove(h)
  <2>1. UNCHANGED <<object, kopf, ready>>
    BY <1>8 DEF Exists, Get, Add, CheckRoute, ListBridges, Commit, Remove, cluster
  <2> QED
    BY <1>2, <1>4, <1>5, <2>1, SameObject DEF kopf
<1> QED
  BY <1>6, <1>7, <1>8 DEF Acts

(* A handler turns only to destinations of its bridge. *)
LEMMA FineOf ==
  ASSUME Orderly, NEW h \in Procs
  PROVE  /\ Of(h) \in Bridges /\ Target(h) = TargetOf[Of(h)] /\ h \in HandlersOf(Of(h))
         /\ Fine(Of(h)) /\ Life(Of(h)) /\ RuleLeads(Of(h)) /\ (Kept(Of(h)) => Good(Of(h)))
         /\ Started(h) /\ (Working(h) => Way(h) /\ Course(h))
         /\ h = <<Of(h), "worker">> \/ h = <<Of(h), "timer">>
<1>1. Of(h) \in Bridges /\ Target(h) = TargetOf[Of(h)] /\ h \in HandlersOf(Of(h))
  BY ProcOfBridge DEF Target, HandlersOf, Of
<1>2. Fine(Of(h))
  BY <1>1 DEF Orderly
<1> QED
  BY <1>1, <1>2, HandlersKnown DEF Fine

LEMMA DestinationIsOwn ==
  ASSUME Orderly, NEW h \in Procs, Working(h)
  PROVE  Destination(h) \in DestsOf[Of(h)]
<1>1. Started(h) /\ Life(Of(h))
  BY FineOf
<1>2. pc[h] # "idle"
  BY DEF Working
<1> QED
  BY <1>1, <1>2 DEF Started, Life, Destination

LEMMA OthersRest ==
  ASSUME World, NEW h \in Procs, Working(h), NEW g \in Procs, Working(g), g # h
  PROVE  Target(g) # Target(h) /\ Of(g) # Of(h)
  BY OneWorks DEF World, BridgeInv, Target, Of

(* The other handler of the bridge. *)
LEMMA InnerKeepsOwn ==
  ASSUME World, NEW h \in Procs, Inner(h),
         Way(h)', Course(h)', RuleLeads(Of(h))', Kept(Of(h))' => Good(Of(h))',
         \/ wasActive'[Of(h)] = wasActive[Of(h)]
         \/ pc'[h] = "done" /\ mem[h].task # "delete",
         pc[h] # "done"
  PROVE  Fine(Of(h))'
<1> DEFINE b == Of(h)
<1>0. Orderly /\ TypeOK
  BY DEF World, BridgeInv
<1>1. /\ b \in Bridges /\ h \in HandlersOf(b) /\ Fine(b) /\ Life(b) /\ Started(h)
      /\ h = <<b, "worker">> \/ h = <<b, "timer">>
  BY <1>0, FineOf
<1>2. pc[h] # "idle" /\ pc[h] # "lock" /\ pc'[h] # "idle" /\ pc'[h] # "lock"
  BY DEF Inner, Working
<1>3. pc' = [pc EXCEPT ![h] = pc'[h]] /\ mem' = [mem EXCEPT ![h] = mem'[h]]
  BY DEF Inner
<1>4. pc \in [Procs -> Pcs] /\ mem \in [Procs -> Memory]
  BY <1>0, TypesSplit DEF ProcsTyped
<1>5. \A g \in HandlersOf(b) \ {h} : pc'[g] = pc[g] /\ mem'[g] = mem[g] /\ ~Working(g)
  <2> SUFFICES ASSUME NEW g \in HandlersOf(b), g # h
               PROVE  pc'[g] = pc[g] /\ mem'[g] = mem[g] /\ ~Working(g)
    OBVIOUS
  <2>1. g \in Procs /\ Of(g) = b
    BY <1>1, HandlersKnown
  <2>2. ~Working(g)
    BY <2>1, OthersRest DEF Inner
  <2> QED
    BY <1>3, <1>4, <2>1, <2>2
<1>6. phase'[b] = phase[b] /\ dest'[b] = dest[b] /\ handled'[b] = handled[b] /\ todo'[b] = todo[b]
  BY DEF Inner
<1>7. phase[b] # "absent"
  BY <1>1, <1>2 DEF Started
<1>8. Life(b)'
  <2>1. ASSUME handled[b] = NoDest, ~Creating(b)'
        PROVE  ~wasActive'[b] /\ pc'[<<b, "timer">>] = "idle"
    <3>1. ~Creating(b)
      <4>1. CASE h = <<b, "worker">>
        BY <4>1 DEF Creating
      <4>2. CASE h = <<b, "timer">>
        BY <1>1, <1>5, <4>2, HandlersKnown DEF Creating, Working
      <4> QED
        BY <1>1, <4>1, <4>2
    <3>2. ~wasActive[b] /\ pc[<<b, "timer">>] = "idle"
      BY <1>1, <2>1, <3>1 DEF Life
    <3>3. h = <<b, "worker">> /\ pc'[<<b, "timer">>] = "idle"
      BY <1>1, <1>2, <1>5, <3>2, HandlersKnown
    <3>4. wasActive'[b] = wasActive[b]
      <4> SUFFICES ASSUME pc'[h] = "done", mem[h].task # "delete" PROVE FALSE
        OBVIOUS
      <4>1. mem[h].task = "create"
        BY <1>1, <1>2, <1>7, <2>1, <3>3 DEF Started, Life
      <4> QED
        BY <2>1, <3>3, <4>1 DEF Creating, Inner
    <3> QED
      BY <3>2, <3>3, <3>4
  <2> QED
    BY <1>1, <1>6, <1>7, <2>1 DEF Life
<1>9. ASSUME NEW g \in HandlersOf(b)
      PROVE  Started(g)' /\ (Working(g)' => Way(g)' /\ Course(g)')
  <2>1. Started(g) /\ Of(g) = b
    BY <1>1, HandlersKnown DEF Fine
  <2>2. CASE g = h
    <3>1. Started(h)'
      BY <1>2, <1>6, <2>1, <2>2 DEF Started, Inner
    <3> QED
      BY <2>2, <3>1
  <2>3. CASE g # h
    <3>1. pc'[g] = pc[g] /\ mem'[g] = mem[g] /\ ~Working(g)
      BY <1>5, <2>3
    <3>2. Started(g)'
      BY <1>6, <2>1, <3>1 DEF Started
    <3> QED
      BY <3>1, <3>2 DEF Working
  <2> QED
    BY <2>2, <2>3
<1> QED
  BY <1>1, <1>8, <1>9, HandlersKnown DEF Fine

(* The other bridges: *)
LEMMA InnerKeepsOthers ==
  ASSUME World, NEW h \in Procs, Inner(h), NEW c \in Bridges, c # Of(h),
         RoutesOf(c)' = RoutesOf(c), rules'[TargetOf[c]] = rules[TargetOf[c]]
  PROVE  Fine(c)'
<1> USE DEF Inner
<1>1. TypeOK /\ Fine(c)
  BY DEF World, BridgeInv, Orderly
<1>2. Of(h) \in Bridges
  BY ProcOfBridge
<1>3. state'[c] = state[c] /\ wasActive'[c] = wasActive[c] /\ endpoint'[c] = endpoint[c]
  BY <1>1, <1>2, TypesSplit DEF ObjectTyped
<1>4. \A g \in HandlersOf(c) : pc'[g] = pc[g] /\ mem'[g] = mem[g]
  BY <1>1, TypesSplit DEF HandlersOf, ProcsTyped
<1>5. Leftover(TargetOf[c]) => Leftover(TargetOf[c])'
  BY DEF Leftover
<1>6. Aside(c)
  BY <1>3, <1>4, <1>5 DEF Aside
<1> QED
  BY <1>1, <1>6, AsideKeepsFine

(* and what the others are about to commit. *)
LEMMA InnerKeepsComposed ==
  ASSUME World, NEW h \in Procs, Inner(h), NEW g \in Procs, g # h, pc'[g] = "commit"
  PROVE  Composed(g)'
<1>1. TypeOK /\ Orderly
  BY DEF World, BridgeInv
<1>2. pc'[g] = pc[g] /\ mem'[g] = mem[g]
  BY <1>1, TypesSplit DEF ProcsTyped, Inner
<1>3. Composed(g) /\ Working(g) /\ Working(h)
  BY <1>1, <1>2 DEF Orderly, Working, Inner
<1>4. Target(g) # Target(h) /\ Of(g) # Of(h)
  BY <1>3, OthersRest
<1>5. \A c \in Bridges : Takes(g, c)' <=> Takes(g, c)
  BY <1>2 DEF Takes
<1>6. \A c \in Bridges : Takes(g, c) => endpoint'[c] = endpoint[c]
  BY <1>1, <1>4, TypesSplit DEF Takes, Inner, Target, Of, ObjectTyped
<1>7. UNCHANGED phase
  BY DEF Inner
<1> QED
  BY <1>2, <1>3, <1>5, <1>6, <1>7 DEF Composed

(* The obligations of a step that does not replace a configuration. *)
LEMMA InnerKeepsOrderly ==
  ASSUME World, NEW h \in Procs, Inner(h),
         Apart', UNCHANGED rules,
         pc'[h] = "commit" => Composed(h)',
         Way(h)', Course(h)', RuleLeads(Of(h))', Kept(Of(h))' => Good(Of(h))',
         \/ wasActive'[Of(h)] = wasActive[Of(h)]
         \/ pc'[h] = "done" /\ mem[h].task # "delete",
         pc[h] # "done",
         \A c \in Bridges \ {Of(h)} : RoutesOf(c)' = RoutesOf(c)
  PROVE  Orderly'
<1>1. AllReady' /\ Elsewhere'
  BY DEF World, Orderly, AllReady, Elsewhere, Inner
<1>2. \A g \in Procs : pc'[g] = "commit" => Composed(g)'
  BY InnerKeepsComposed
<1>3. \A c \in Bridges : Fine(c)'
  BY InnerKeepsOwn, InnerKeepsOthers
<1> QED
  BY <1>1, <1>2, <1>3 DEF Orderly

LEMMA LooksKeepsOrderly ==
  ASSUME World, NEW h \in Procs, Inner(h), UNCHANGED <<table, rules>>,
         pc'[h] = "commit" => Composed(h)',
         Way(h)', Course(h)', Kept(Of(h))' => Good(Of(h))',
         \/ wasActive'[Of(h)] = wasActive[Of(h)]
         \/ pc'[h] = "done" /\ mem[h].task # "delete",
         pc[h] # "done"
  PROVE  Orderly'
<1>1. \A c \in Bridges : RoutesOf(c)' = RoutesOf(c)
  BY DEF RoutesOf
<1>2. Apart'
  BY <1>1 DEF World, Orderly, Apart
<1>3. RuleLeads(Of(h))'
  <2>1. RuleLeads(Of(h)) /\ Of(h) \in Bridges
    BY FineOf DEF World
  <2>2. Leftover(TargetOf[Of(h)])' <=> Leftover(TargetOf[Of(h)])
    BY DEF Inner, Leftover
  <2> QED
    BY <1>1, <2>1, <2>2 DEF RuleLeads, RuleOf, Inner
<1> QED
  BY <1>1, <1>2, <1>3, InnerKeepsOrderly

(* In such a step the operators that do not read what it writes stay. *)
LEMMA LooksKeepsViews ==
  ASSUME World, NEW h \in Procs, Inner(h), UNCHANGED <<table, rules>>
  PROVE  /\ RuleOf(Of(h))' = RuleOf(Of(h))
         /\ endpoint'[Of(h)] = endpoint[Of(h)] => (Ruled(Of(h))' <=> Ruled(Of(h)))
         /\ mem'[h].goal = mem[h].goal =>
              /\ Destination(h)' = Destination(h)
              /\ mem'[h].port = mem[h].port => (Holds(h)' <=> Holds(h))
<1>1. RuleOf(Of(h))' = RuleOf(Of(h))
  BY DEF RuleOf
<1>2. Leftover(TargetOf[Of(h)])' <=> Leftover(TargetOf[Of(h)])
  BY DEF Inner, Leftover
<1>3. endpoint'[Of(h)] = endpoint[Of(h)] => (Ruled(Of(h))' <=> Ruled(Of(h)))
  BY <1>1, <1>2 DEF Ruled
<1>4. mem'[h].goal = mem[h].goal => Destination(h)' = Destination(h)
  BY DEF Inner, Destination
<1>5. RoutesOf(Of(h))' = RoutesOf(Of(h))
  BY DEF RoutesOf
<1> QED
  BY <1>1, <1>3, <1>4, <1>5 DEF Holds

LEMMA TimerHandled ==
  ASSUME World, NEW h \in Procs, Working(h), mem[h].task = "reconcile"
  PROVE  handled[Of(h)] # NoDest /\ h = <<Of(h), "timer">>
<1>1. Of(h) \in Bridges /\ Life(Of(h)) /\ Started(h) /\ pc[h] # "idle"
      /\ (h = <<Of(h), "worker">> \/ h = <<Of(h), "timer">>)
  BY FineOf DEF World, Working
<1>2. h = <<Of(h), "timer">>
  BY <1>1 DEF Started
<1>3. ~Creating(Of(h))
  <2> SUFFICES ASSUME pc[<<Of(h), "worker">>] = "done" PROVE FALSE
    BY DEF Creating
  <2>1. <<Of(h), "worker">> \in Procs /\ Of(<<Of(h), "worker">>) = Of(h)
    BY <1>1, ProcsOf
  <2>2. Working(<<Of(h), "worker">>) /\ <<Of(h), "worker">> # h
    BY <1>2 DEF Working
  <2> QED
    BY <2>1, <2>2, OthersRest
<1> QED
  BY <1>1, <1>2, <1>3 DEF Life

LEMMA NotKept ==
  ASSUME World, NEW h \in Procs, ~Keeps(h)'
  PROVE  ~Kept(Of(h))'
<1>1. Of(h) \in Bridges /\ h \in HandlersOf(Of(h)) /\ h \in HandlersOf(Of(h))'
  BY FineOf, HandlersKnown DEF World
<1> QED
  BY <1>1 DEF Kept

LEMMA MachineKeepsOrderly ==
  ASSUME World, NEW h \in Procs,
         Install(h) \/ Restore(h) \/ SetInstalled(h) \/ Activated(h) \/ Establish(h)
  PROVE  Orderly'
<1> DEFINE b == Of(h)
<1>0. TypeOK /\ Named /\ Orderly
  BY DEF World, BridgeInv
<1>1. /\ b \in Bridges /\ Target(h) = TargetOf[b] /\ Started(h) /\ Life(b)
      /\ (Working(h) => Way(h) /\ Course(h))
  BY <1>0, FineOf
<1>2. pc \in [Procs -> Pcs] /\ mem \in [Procs -> Memory] /\ mem[h] \in Memory /\ mem[h].goal \in Goals
  BY <1>0, TypesSplit DEF ProcsTyped, Memory
<1>3. Working(h) /\ Way(h) /\ Course(h)
  BY <1>1 DEF Working, Install, Restore, SetInstalled, Activated, Establish
<1>4. CASE Install(h)
  <2>1. Persist(h, "INSTALLING") /\ pc' = [pc EXCEPT ![h] = "set_installed"] /\ mem' = mem
    BY <1>0, <1>1, <1>4, ProcOfBridge DEF Install, Goto, Orderly, AllReady
  <2>2. /\ pc'[h] = "set_installed" /\ Working(h)' /\ UNCHANGED <<lock, table, rules>>
        /\ wasActive'[b] = wasActive[b]
    BY <1>0, <1>2, <2>1, PersistChanges DEF States, Working
  <2>3. Inner(h)
    BY <1>0, <1>4, <2>2, ActsIsInner DEF Acts
  <2>4. Way(h)'
    BY <1>2, <1>3, <1>4, <2>1, <2>2 DEF Way, Install, Goals
  <2>5. Course(h)' /\ ~Keeps(h)'
    BY <2>2 DEF Course, Keeps
  <2> QED
    BY <1>4, <2>2, <2>3, <2>4, <2>5, NotKept, LooksKeepsOrderly DEF Install
<1>5. CASE Restore(h)
  <2>1. Persist(h, "RESTORING") /\ pc' = [pc EXCEPT ![h] = "set_installed"] /\ mem' = mem
    BY <1>5 DEF Restore, Goto
  <2>2. /\ pc'[h] = "set_installed" /\ Working(h)' /\ UNCHANGED <<lock, table, rules>>
        /\ wasActive'[b] = wasActive[b]
    BY <1>0, <1>2, <2>1, PersistChanges DEF States, Working
  <2>3. Inner(h)
    BY <1>0, <1>5, <2>2, ActsIsInner DEF Acts
  <2>4. Way(h)'
    BY <1>2, <1>3, <1>5, <2>1, <2>2 DEF Way, Restore, Goals
  <2>5. Course(h)' /\ ~Keeps(h)'
    BY <2>2 DEF Course, Keeps
  <2> QED
    BY <1>5, <2>2, <2>3, <2>4, <2>5, NotKept, LooksKeepsOrderly DEF Restore
<1>6. CASE SetInstalled(h)
  <2>1. /\ Persist(h, "INSTALLED") /\ pc' = [pc EXCEPT ![h] = "exists"]
        /\ mem' = [mem EXCEPT ![h].goal = "setup"] /\ pc[h] = "set_installed"
    BY <1>6 DEF SetInstalled, Turn, Goto
  <2>2. /\ pc'[h] = "exists" /\ Working(h)' /\ UNCHANGED <<lock, table, rules>>
        /\ wasActive'[b] = wasActive[b] /\ mem'[h].goal = "setup" /\ mem'[h].task = mem[h].task
    BY <1>0, <1>2, <2>1, PersistChanges DEF States, Working, Memory
  <2>3. Inner(h)
    BY <1>0, <1>6, <2>2, ActsIsInner DEF Acts
  <2>4. Way(h)'
    BY <1>2, <1>3, <2>1, <2>2 DEF Way
  <2>5. Course(h)' /\ ~Keeps(h)'
    BY <1>3, <2>1, <2>2 DEF Course, Keeps, Way
  <2> QED
    BY <2>1, <2>2, <2>3, <2>4, <2>5, NotKept, LooksKeepsOrderly
<1>7. CASE Activated(h)
  <2>1. pc[h] = "set up" /\ mem[h].goal = "setup"
    BY <1>2, <1>3, <1>7 DEF Way, Activated, Goals
  <2>2. Persist(h, "CREATING") /\ pc' = [pc EXCEPT ![h] = "establish"] /\ mem' = mem
    BY <1>7, <2>1 DEF Activated, Goto
  <2>3. /\ pc'[h] = "establish" /\ Working(h)' /\ UNCHANGED <<lock, table, rules>>
        /\ wasActive'[b] = wasActive[b] /\ endpoint' = endpoint
    BY <1>0, <1>2, <2>2, PersistChanges DEF States, Working
  <2>4. Inner(h)
    BY <1>0, <1>7, <2>3, ActsIsInner DEF Acts
  <2>5. Way(h)'
    BY <1>2, <1>3, <2>1, <2>2, <2>3 DEF Way
  <2>6. Holds(h) /\ endpoint[b] = mem[h].port /\ Ruled(b)
    BY <1>3, <2>1 DEF Course
  <2>7. Holds(h)' /\ endpoint'[b] = mem'[h].port /\ Ruled(b)'
    BY <2>2, <2>3, <2>4, <2>6, LooksKeepsViews
  <2>8. Course(h)' /\ ~Keeps(h)'
    BY <2>3, <2>7 DEF Course, Keeps
  <2> QED
    BY <2>1, <2>3, <2>4, <2>5, <2>8, NotKept, LooksKeepsOrderly
<1>8. CASE Establish(h)
  <2>1. pc[h] = "establish" /\ mem[h].goal = "setup"
    BY <1>2, <1>3, <1>8 DEF Way, Establish, Goals
  <2>2. Persist(h, "ACTIVE") /\ pc' = [pc EXCEPT ![h] = "done"] /\ mem' = mem
    BY <1>8 DEF Establish, Goto
  <2>3. /\ pc'[h] = "done" /\ Working(h)' /\ UNCHANGED <<lock, table, rules>>
        /\ state'[b] = "ACTIVE" /\ endpoint' = endpoint /\ mem[h].task # "delete"
    BY <1>0, <1>2, <1>3, <2>1, <2>2, PersistChanges DEF States, Working, Way
  <2>4. Inner(h)
    BY <1>0, <1>8, <2>3, ActsIsInner DEF Acts
  <2>5. Way(h)'
    BY <1>2, <1>3, <2>1, <2>2, <2>3 DEF Way
  <2>6. Holds(h) /\ endpoint[b] = mem[h].port /\ Ruled(b)
    BY <1>3, <2>1 DEF Course
  <2>7. Holds(h)' /\ endpoint'[b] = mem'[h].port /\ Ruled(b)' /\ Destination(h)' = Destination(h)
    BY <2>2, <2>3, <2>4, <2>6, LooksKeepsViews
  <2>8. LeadsToAny(b, {Destination(h)})'
    BY <2>7 DEF Holds, LeadsToAny
  <2>9. Course(h)'
    <3>1. mem[h].task \in {"create", "update"} => Destination(h) = mem[h].dest
      BY <2>1 DEF Destination
    <3>2. mem[h].task \in {"create", "update"} => LeadsToAny(b, {mem[h].dest})'
      BY <2>2, <2>7, <2>8, <3>1 DEF LeadsToAny
    <3> QED
      BY <2>2, <2>3, <2>7, <3>2 DEF Course
  <2>10. ASSUME Kept(b)' PROVE Good(b)'
    <3>1. mem[h].task = "reconcile"
      BY <2>2, <2>3, <2>10, NotKept DEF Keeps
    <3>2. handled[b] # NoDest /\ Destination(h) = dest[b]
      BY <1>3, <3>1, TimerHandled DEF Destination
    <3>3. LeadsToAny(b, {dest[b], handled[b]})'
      BY <2>4, <2>7, <2>8, <3>2 DEF LeadsToAny, Inner
    <3> QED
      BY <2>3, <2>4, <2>7, <3>2, <3>3 DEF Good, Inner
  <2> QED
    BY <2>1, <2>3, <2>4, <2>5, <2>9, <2>10, LooksKeepsOrderly
<1> QED
  BY <1>4, <1>5, <1>6, <1>7, <1>8

LEMMA OwnRoutesAre ==
  ASSUME World, NEW h \in Procs, Working(h)
  PROVE  \A r : r \in OwnRoutes(h) <=> r \in RoutesOf(Of(h)) /\ r.dest = Destination(h)
<1>1. Of(h) \in Bridges /\ Destination(h) \in DestsOf[Of(h)] /\ Apart
  BY FineOf, DestinationIsOwn DEF World, Orderly
<1> QED
  BY <1>1 DEF OwnRoutes, RoutesOf, Apart

LEMMA RouteTypes ==
  ASSUME TypeOK
  PROVE  \A r \in table : r.port \in Ports /\ r.port # NoPort /\ r.dest \in Dests
  BY AbsentAssumption DEF TypeOK, Table!Route

(* A handler that looks where all was well leaves all well. *)
LEMMA LooksKeepsGood ==
  ASSUME World, NEW h \in Procs, Inner(h), UNCHANGED <<table, rules, state, endpoint>>,
         Keeps(h)' => Keeps(h)
  PROVE  Kept(Of(h))' => Good(Of(h))'
<1> DEFINE b == Of(h)
<1> SUFFICES ASSUME Kept(b)' PROVE Good(b)'
  OBVIOUS
<1>1. b \in Bridges /\ h \in HandlersOf(b) /\ (Kept(b) => Good(b)) /\ TypeOK
  BY FineOf DEF World, BridgeInv
<1>2. \A g \in HandlersOf(b) : Keeps(g)
  <2> SUFFICES ASSUME NEW g \in HandlersOf(b), g # h PROVE Keeps(g)
    BY <1>1, HandlersKnown DEF Kept
  <2>1. g \in Procs /\ Of(g) = b
    BY <1>1, HandlersKnown
  <2>2. ~Working(g)
    BY <2>1, OthersRest DEF Inner
  <2> QED
    BY <2>2 DEF Keeps
<1>3. Kept(b)
  BY <1>2 DEF Kept, Inner
<1>4. RuleOf(b)' = RuleOf(b) /\ (Ruled(b)' <=> Ruled(b))
  BY LooksKeepsViews
<1>5. LeadsToAny(b, {dest[b], handled[b]})' <=> LeadsToAny(b, {dest[b], handled[b]})
  BY DEF LeadsToAny, RoutesOf, Inner
<1> QED
  BY <1>1, <1>3, <1>4, <1>5 DEF Good, Inner

(* What a bridge has when its delete handler begins. *)
LEMMA DeleteFinds ==
  ASSUME World, NEW h \in Procs, pc[h] \in {"exists", "get", "route"}, mem[h].task = "delete",
         handled[Of(h)] = mem[h].dest
  PROVE  /\ Ruled(Of(h))
         /\ \E r \in RoutesOf(Of(h)) : r.dest = mem[h].dest /\ r.port = endpoint[Of(h)]
<1> DEFINE b == Of(h)
<1>1. /\ b \in Bridges /\ h \in HandlersOf(b) /\ (Kept(b) => Good(b)) /\ Started(h) /\ Life(b)
      /\ TypeOK
  BY FineOf DEF World, BridgeInv
<1>2. Working(h) /\ pc[h] # "idle"
  BY DEF Working
<1>3. \A g \in HandlersOf(b) : Keeps(g)
  <2> SUFFICES ASSUME NEW g \in HandlersOf(b) PROVE Keeps(g)
    OBVIOUS
  <2>1. g \in Procs /\ Of(g) = b
    BY <1>1, HandlersKnown
  <2>2. g = h \/ ~Working(g)
    BY <1>2, <2>1, OthersRest
  <2> QED
    BY <2>2 DEF Keeps
<1>4. Good(b) /\ mem[h].dest = dest[b] /\ mem[h].dest \in DestsOf[b]
  BY <1>1, <1>2, <1>3 DEF Kept, Started
<1>5. handled[b] # NoDest
  BY <1>1, <1>4, BridgeAssumption, AbsentAssumption
<1> QED
  BY <1>4, <1>5 DEF Good, LeadsToAny

LEMMA ExistsKeepsOrderly ==
  ASSUME World, NEW h \in Procs, Exists(h)
  PROVE  Orderly'
<1> DEFINE b == Of(h)
<1>0. TypeOK /\ Named /\ Orderly
  BY DEF World, BridgeInv
<1>1. pc[h] = "exists" /\ Working(h) /\ mem' = mem /\ UNCHANGED <<object, kopf, cluster, lock>>
  BY DEF Exists, Working
<1>2. Way(h) /\ Started(h) /\ pc[h] # "idle" /\ (h = <<b, "worker">> \/ h = <<b, "timer">>)
  BY <1>0, <1>1, FineOf
<1>3. mem[h].goal \in Goals /\ mem[h].task \in {"create", "update", "delete", "reconcile"}
  BY <1>0, <1>2, TypesSplit DEF ProcsTyped, Memory, Started
<1> DEFINE next == IF OwnRoutes(h) # {} THEN "get"
                   ELSE CASE mem[h].goal = "probe"    -> "restore"
                          [] mem[h].goal = "setup"    -> "add"
                          [] mem[h].goal = "teardown" -> TornDown(h)
<1>4. pc' = [pc EXCEPT ![h] = next] /\ pc'[h] = next
  BY <1>0, TypesSplit DEF Exists, Missing, Goto, ProcsTyped
<1>5. next \in {"get", "restore", "add", "done"}
  BY <1>3 DEF TornDown, Goals
<1>6. Inner(h)
  <2>1. Working(h)'
    BY <1>4, <1>5 DEF Working
  <2> QED
    BY <1>0, <1>1, <2>1, ActsIsInner DEF Acts
<1>7. UNCHANGED <<table, rules, state, endpoint, wasActive>>
  BY <1>1 DEF object, cluster
<1>8. next = "done" => mem[h].task = "delete" /\ mem[h].goal = "teardown"
  BY <1>2, <1>3 DEF TornDown, Way, Goals
<1>9. Way(h)'
  BY <1>1, <1>2, <1>3, <1>4, <1>5, <1>8 DEF Way, Goals, TornDown
<1>10. RuleOf(b)' = RuleOf(b) /\ Destination(h)' = Destination(h) /\ RoutesOf(b)' = RoutesOf(b)
  BY <1>1, <1>6, <1>7, LooksKeepsViews DEF RoutesOf
<1>11. Course(h)'
  <2>1. CASE next = "get"
    <3>1. \E r \in RoutesOf(b) : r.dest = Destination(h)
      BY <1>0, <1>1, <1>3, <2>1, OwnRoutesAre DEF Goals, TornDown
    <3> QED
      BY <1>1, <1>4, <1>10, <2>1, <3>1 DEF Course
  <2>2. CASE next = "add"
    <3>1. \A r \in RoutesOf(b) : r.dest # Destination(h)
      BY <1>1, <2>2, OwnRoutesAre
    <3> QED
      BY <1>1, <1>4, <1>10, <2>2, <3>1 DEF Course
  <2>3. CASE next = "restore"
    BY <1>4, <2>3 DEF Course
  <2>4. CASE next = "done"
    <3>1. mem[h].task = "delete" /\ Destination(h) = mem[h].dest
      BY <1>8, <2>4 DEF Destination
    <3>2. \A r \in RoutesOf(b) : r.dest # mem[h].dest
      BY <1>1, <2>4, <3>1, OwnRoutesAre
    <3>3. handled[b] # mem[h].dest
      BY <1>1, <3>1, <3>2, DeleteFinds
    <3> QED
      BY <1>1, <1>4, <1>6, <2>4, <3>1, <3>3 DEF Course, Inner
  <2> QED
    BY <1>5, <2>1, <2>2, <2>3, <2>4
<1>12. Keeps(h)' => Keeps(h)
  BY <1>1, <1>4, <1>5, <1>8 DEF Keeps, Working
<1> QED
  BY <1>1, <1>4, <1>5, <1>6, <1>7, <1>9, <1>11, <1>12, LooksKeepsGood, LooksKeepsOrderly

LEMMA GetKeepsOrderly ==
  ASSUME World, NEW h \in Procs, Get(h)
  PROVE  Orderly'
<1> DEFINE b == Of(h)
<1>0. TypeOK /\ Named /\ Orderly /\ Apart
  BY DEF World, BridgeInv, Orderly
<1>1. pc[h] \in {"get", "get again"} /\ Working(h) /\ UNCHANGED <<object, kopf, cluster, lock>>
  BY DEF Get, Working
<1>2. Way(h) /\ Course(h) /\ b \in Bridges
  BY <1>0, <1>1, FineOf
<1>3. mem[h].goal \in Goals /\ mem[h] \in Memory /\ mem \in [Procs -> Memory] /\ pc \in [Procs -> Pcs]
  BY <1>0, TypesSplit DEF ProcsTyped, Memory
<1>4. UNCHANGED <<table, rules, state, endpoint, wasActive>>
  BY <1>1 DEF object, cluster
<1>5. pc[h] = "get again" => mem[h].goal = "setup" /\ Holds(h) /\ endpoint[b] = mem[h].port
  BY <1>2, <1>3 DEF Way, Course, Goals
<1>6. CASE OwnRoutes(h) # {}
  <2>1. PICK r \in OwnRoutes(h) : mem' = [mem EXCEPT ![h].port = r.port]
    BY <1>6 DEF Get
  <2>2. /\ mem'[h].port = r.port /\ mem'[h].goal = mem[h].goal /\ mem'[h].task = mem[h].task
        /\ mem'[h].dest = mem[h].dest
    BY <1>3, <2>1 DEF Memory
  <2>3. pc'[h] = IF mem[h].goal = "setup" /\ pc[h] = "get" THEN "endpoint" ELSE "route"
    BY <1>3, <1>6 DEF Get, Goto
  <2>4. Inner(h)
    <3>1. Working(h)'
      BY <2>3 DEF Working
    <3> QED
      BY <1>0, <1>1, <3>1, ActsIsInner DEF Acts
  <2>5. r \in RoutesOf(b) /\ r.dest = Destination(h)
    BY <1>1, <2>1, OwnRoutesAre
  <2>6. Destination(h)' = Destination(h) /\ RoutesOf(b)' = RoutesOf(b)
    BY <1>4, <2>2, <2>4, LooksKeepsViews DEF RoutesOf
  <2>7. Holds(h)'
    BY <2>2, <2>5, <2>6 DEF Holds
  <2>8. pc[h] = "get again" => endpoint'[b] = mem'[h].port
    <3> SUFFICES ASSUME pc[h] = "get again" PROVE endpoint[b] = r.port
      BY <1>4, <2>2
    <3>1. PICK s \in RoutesOf(b) : s.dest = Destination(h) /\ s.port = mem[h].port
      BY <1>5 DEF Holds
    <3>2. r = s
      BY <1>0, <2>5, <3>1 DEF Apart, RoutesOf
    <3> QED
      BY <1>5, <3>1, <3>2
  <2>9. Way(h)'
    BY <1>2, <1>3, <2>2, <2>3 DEF Way, Goals
  <2>10. Course(h)'
    <3>1. mem[h].goal = "setup" /\ pc'[h] = "route" => pc[h] = "get again"
      BY <1>1, <2>3
    <3> QED
      BY <2>2, <2>3, <2>7, <2>8, <3>1 DEF Course
  <2>11. Keeps(h)' => Keeps(h)
    <3>1. pc[h] = "get again" => mem[h].goal # "probe" /\ mem[h].task # "delete"
      BY <1>2, <1>5 DEF Way
    <3> QED
      BY <1>1, <2>2, <2>3, <3>1 DEF Keeps, Working
  <2> QED
    BY <1>1, <1>4, <2>3, <2>4, <2>9, <2>10, <2>11, LooksKeepsGood, LooksKeepsOrderly
<1>7. CASE OwnRoutes(h) = {}
  <2>1. \A r \in RoutesOf(b) : r.dest # Destination(h)
    BY <1>1, <1>7, OwnRoutesAre
  <2>2. mem[h].goal = "probe"
    <3>1. ~Holds(h)
      BY <2>1 DEF Holds
    <3> QED
      BY <1>1, <1>2, <1>5, <2>1, <3>1 DEF Course
  <2>3. pc'[h] = "restore" /\ mem' = mem
    BY <1>3, <1>7, <2>2 DEF Get, Goto
  <2>4. Inner(h)
    <3>1. Working(h)'
      BY <2>3 DEF Working
    <3> QED
      BY <1>0, <1>1, <3>1, ActsIsInner DEF Acts
  <2>5. Way(h)' /\ Course(h)' /\ ~Keeps(h)'
    BY <1>2, <2>2, <2>3 DEF Way, Course, Keeps, Working
  <2> QED
    BY <1>1, <1>4, <2>3, <2>4, <2>5, NotKept, LooksKeepsOrderly
<1> QED
  BY <1>6, <1>7

(* The endpoint is found among the rules: it is the bridge's own rule.     *)
LEMMA RuleIsEndpoint ==
  ASSUME World, NEW h \in Procs, Working(h), Holds(h), RouteExists(h)
  PROVE  RuleOf(Of(h)) = mem[h].port \/ Leftover(TargetOf[Of(h)])
<1> DEFINE b == Of(h)
<1> DEFINE t == TargetOf[b]
<1> SUFFICES ASSUME RuleOf(b) # mem[h].port, ~Leftover(t)
             PROVE  FALSE
  OBVIOUS
<1>0. TypeOK /\ Orderly /\ Apart /\ Elsewhere /\ Unshared
  BY DEF World, BridgeInv, Orderly
<1>1. b \in Bridges /\ Target(h) = t /\ t \in Targets
  BY <1>0, FineOf, ProcOfBridge
<1>2. PICK c \in Bridges : rules[t][c] = mem[h].port
  BY <1>1 DEF RouteExists
<1>3. PICK s \in RoutesOf(b) : s.port = mem[h].port
  BY DEF Holds
<1>4. mem[h].port # NoPort
  BY <1>0, <1>3, RouteTypes DEF RoutesOf
<1>5. TargetOf[c] = t
  BY <1>0, <1>1, <1>2, <1>4 DEF Elsewhere
<1>6. RuleOf(c) = mem[h].port /\ c # b
  BY <1>2, <1>5 DEF RuleOf
<1>7. Life(c) /\ RuleLeads(c)
  BY <1>0 DEF Orderly, Fine
<1>8. phase[c] = "present"
  <2>1. phase[c] # "absent"
    BY <1>4, <1>6, <1>7 DEF Life
  <2>2. phase[c] \notin {"deleting", "gone"}
    BY <1>2, <1>4 DEF Leftover
  <2> QED
    BY <1>0, <2>1, <2>2, TypesSplit DEF ObjectTyped
<1>9. PICK r \in RoutesOf(c) : r.port = mem[h].port
  BY <1>4, <1>5, <1>6, <1>7, <1>8 DEF RuleLeads
<1>10. r = s
  BY <1>0, <1>3, <1>9 DEF Apart, RoutesOf
<1> QED
  BY <1>0, <1>1, <1>3, <1>6, <1>9, <1>10 DEF Unshared, RoutesOf

LEMMA CheckRouteKeepsOrderly ==
  ASSUME World, NEW h \in Procs, CheckRoute(h)
  PROVE  Orderly'
<1> DEFINE b == Of(h)
<1>0. TypeOK /\ Named /\ Orderly /\ Apart
  BY DEF World, BridgeInv, Orderly
<1>1. pc[h] = "route" /\ Working(h) /\ mem' = mem /\ UNCHANGED <<object, kopf, cluster, lock>>
  BY DEF CheckRoute, Working
<1>2. Way(h) /\ Course(h) /\ b \in Bridges /\ Target(h) = TargetOf[b] /\ Started(h) /\ pc[h] # "idle"
      /\ (h = <<b, "worker">> \/ h = <<b, "timer">>)
  BY <1>0, <1>1, FineOf
<1>3. /\ mem[h].goal \in Goals /\ mem[h].task \in {"create", "update", "delete", "reconcile"}
      /\ pc \in [Procs -> Pcs]
  BY <1>0, <1>2, TypesSplit DEF ProcsTyped, Memory, Started
<1>4. UNCHANGED <<table, rules, state, endpoint, wasActive>>
  BY <1>1 DEF object, cluster
<1> DEFINE next == CASE mem[h].goal = "probe"    -> IF RouteExists(h) THEN "done" ELSE "restore"
                     [] mem[h].goal = "setup"    -> IF RouteExists(h) THEN "set up" ELSE "list"
                     [] mem[h].goal = "teardown" -> IF RouteExists(h) THEN "list" ELSE "remove"
<1>5. pc'[h] = next
  BY <1>3 DEF CheckRoute, Goto
<1>6. next \in {"done", "restore", "set up", "list", "remove"}
  BY <1>3 DEF Goals
<1>7. Inner(h)
  <2>1. Working(h)'
    BY <1>5, <1>6 DEF Working
  <2> QED
    BY <1>0, <1>1, <2>1, ActsIsInner DEF Acts
<1>8. /\ RuleOf(b)' = RuleOf(b) /\ Destination(h)' = Destination(h) /\ RoutesOf(b)' = RoutesOf(b)
      /\ (Holds(h)' <=> Holds(h)) /\ (Ruled(b)' <=> Ruled(b)) /\ handled'[b] = handled[b]
  BY <1>1, <1>4, <1>7, LooksKeepsViews DEF RoutesOf, Inner
<1>9. CASE mem[h].goal = "probe"
  <2>1. next \in {"done", "restore"} /\ mem[h].task = "reconcile"
    BY <1>2, <1>3, <1>9 DEF Way
  <2>2. Way(h)' /\ Course(h)'
    BY <1>1, <1>2, <1>5, <1>9, <2>1 DEF Way, Course
  <2>3. Keeps(h)' => Keeps(h)
    BY <1>1, <1>9 DEF Keeps
  <2> QED
    BY <1>1, <1>4, <1>5, <1>7, <2>1, <2>2, <2>3, LooksKeepsGood, LooksKeepsOrderly
<1>10. CASE mem[h].goal = "setup"
  <2>1. next \in {"set up", "list"}
    BY <1>10
  <2>2. Holds(h) /\ endpoint[b] = mem[h].port
    BY <1>1, <1>2, <1>10 DEF Course
  <2>3. ASSUME next = "set up" PROVE Ruled(b)
    <3>1. RouteExists(h)
      BY <1>10, <2>3
    <3>2. RuleOf(b) # NoPort /\ \E c \in Bridges : rules[TargetOf[b]][c] = endpoint[b]
      BY <1>2, <2>2, <3>1 DEF RouteExists, RuleOf
    <3> QED
      BY <1>1, <2>2, <3>1, <3>2, RuleIsEndpoint DEF Ruled
  <2>4. Way(h)'
    BY <1>1, <1>2, <1>5, <1>10, <2>1 DEF Way
  <2>5. Holds(h)' /\ endpoint'[b] = mem'[h].port /\ (next = "set up" => Ruled(b)')
    BY <1>1, <1>4, <1>8, <2>2, <2>3
  <2>6. Course(h)'
    BY <1>5, <2>1, <2>5 DEF Course
  <2>7. ~Keeps(h)'
    BY <1>5, <1>7, <2>1 DEF Keeps, Inner
  <2> QED
    BY <1>1, <1>4, <1>5, <1>7, <2>1, <2>4, <2>6, <2>7, NotKept, LooksKeepsOrderly
<1>11. CASE mem[h].goal = "teardown"
  <2>1. next \in {"remove", "list"}
    BY <1>11
  <2>2. PICK s \in RoutesOf(b) : s.dest = Destination(h) /\ s.port = mem[h].port
    BY <1>1, <1>2, <1>11 DEF Course, Holds
  <2>3. ASSUME next = "remove", NEW r \in RoutesOf(b), r.dest = Destination(h)
        PROVE  RuleOf(b) # r.port
    <3>1. r = s
      BY <1>0, <2>2, <2>3 DEF Apart, RoutesOf
    <3>2. ~RouteExists(h)
      BY <1>11, <2>3
    <3>3. r.port # NoPort
      BY <1>0, RouteTypes DEF RoutesOf
    <3> QED
      BY <1>2, <2>2, <3>1, <3>2, <3>3 DEF RouteExists, RuleOf
  <2>4. ASSUME next = "remove", mem[h].task = "delete", handled[b] = mem[h].dest
        PROVE  FALSE
    <3>1. ~RouteExists(h)
      BY <1>11, <2>4
    <3>2. PICK r \in RoutesOf(b) : r.dest = mem[h].dest /\ r.port = endpoint[b]
      BY <1>1, <2>4, DeleteFinds
    <3>3. Ruled(b)
      BY <1>1, <2>4, DeleteFinds
    <3>4. r = s /\ endpoint[b] = mem[h].port
      <4>1. Destination(h) = mem[h].dest
        BY <2>4 DEF Destination
      <4> QED
        BY <1>0, <2>2, <3>2, <4>1 DEF Apart, RoutesOf
    <3> QED
      BY <1>2, <3>1, <3>3, <3>4 DEF Ruled, RouteExists, RuleOf
  <2>5. Way(h)'
    BY <1>1, <1>2, <1>5, <1>11, <2>1 DEF Way
  <2>6. Course(h)'
    <3>1. mem'[h].goal = "teardown" /\ mem'[h].task = mem[h].task /\ mem'[h].dest = mem[h].dest
      BY <1>1, <1>11
    <3>2. next = "remove" =>
            /\ \A r \in RoutesOf(b)' : r.dest = Destination(h)' => RuleOf(b)' # r.port
            /\ ~(mem'[h].task = "delete" /\ handled'[b] = mem'[h].dest)
      BY <1>8, <2>3, <2>4, <3>1
    <3> QED
      BY <1>5, <2>1, <3>1, <3>2 DEF Course
  <2>7. ~Keeps(h)'
    BY <1>5, <1>7, <2>1 DEF Keeps, Inner
  <2> QED
    BY <1>1, <1>4, <1>5, <1>7, <2>1, <2>5, <2>6, <2>7, NotKept, LooksKeepsOrderly
<1> QED
  BY <1>3, <1>9, <1>10, <1>11 DEF Goals

LEMMA ListKeepsOrderly ==
  ASSUME World, NEW h \in Procs, ListBridges(h)
  PROVE  Orderly'
<1> DEFINE b == Of(h)
<1>0. TypeOK /\ Named /\ Orderly
  BY DEF World, BridgeInv
<1>1. pc[h] = "list" /\ Working(h) /\ UNCHANGED <<object, kopf, cluster, lock>>
  BY DEF ListBridges, Working
<1>2. Way(h) /\ Course(h) /\ b \in Bridges /\ Target(h) = TargetOf[b]
  BY <1>0, <1>1, FineOf
<1>3. mem[h].goal \in Goals /\ mem[h] \in Memory /\ mem \in [Procs -> Memory] /\ pc \in [Procs -> Pcs]
  BY <1>0, TypesSplit DEF ProcsTyped, Memory
<1>4. UNCHANGED <<table, rules, state, endpoint, wasActive>>
  BY <1>1 DEF object, cluster
<1>5. ready[Target(h)]
  BY <1>0, ProcOfBridge DEF Orderly, AllReady
<1> DEFINE f == [c \in Bridges |-> IF c \in Listed(h) THEN endpoint[c] ELSE NoPort]
<1>6. mem' = [mem EXCEPT ![h].rules = f] /\ pc'[h] = "commit"
  BY <1>3, <1>5 DEF ListBridges, Goto
<1>7. /\ mem'[h].rules = f /\ mem'[h].goal = mem[h].goal /\ mem'[h].task = mem[h].task
      /\ mem'[h].dest = mem[h].dest /\ mem'[h].port = mem[h].port
  BY <1>3, <1>6 DEF Memory
<1>8. Inner(h)
  <2>1. Working(h)'
    BY <1>6 DEF Working
  <2> QED
    BY <1>0, <1>1, <2>1, ActsIsInner DEF Acts
<1>9. Composed(h)'
  <2> SUFFICES ASSUME NEW c \in Bridges
               PROVE  /\ Takes(h, c) /\ phase[c] # "gone" => f[c] = endpoint[c]
                      /\ ~Takes(h, c) => f[c] = NoPort
    BY <1>4, <1>7, <1>8 DEF Composed, Takes, Inner
  <2>1. Life(c) /\ phase[c] \in {"absent", "present", "deleting", "gone"}
    BY <1>0, TypesSplit DEF Orderly, Fine, ObjectTyped
  <2>2. phase[c] = "absent" => endpoint[c] = NoPort
    BY <2>1 DEF Life
  <2> QED
    BY <2>1, <2>2 DEF Takes, Listed
<1>10. Way(h)'
  BY <1>1, <1>2, <1>6, <1>7 DEF Way
<1>11. Course(h)'
  <2>1. mem[h].goal = "setup" => Holds(h) /\ endpoint[b] = mem[h].port
    BY <1>1, <1>2 DEF Course
  <2>2. Holds(h)' <=> Holds(h)
    BY <1>4, <1>7, <1>8, LooksKeepsViews
  <2> QED
    BY <1>4, <1>6, <1>7, <2>1, <2>2 DEF Course
<1>12. ~Keeps(h)'
  BY <1>6, <1>8 DEF Keeps, Inner
<1> QED
  BY <1>1, <1>4, <1>8, <1>9, <1>10, <1>11, <1>12, NotKept, LooksKeepsOrderly

LEMMA EndpointKeepsOrderly ==
  ASSUME World, NEW h \in Procs, WriteEndpoint(h)
  PROVE  Orderly'
<1> DEFINE b == Of(h)
<1>0. TypeOK /\ Named /\ Orderly
  BY DEF World, BridgeInv
<1>1. /\ pc[h] = "endpoint" /\ Working(h) /\ mem' = mem
      /\ UNCHANGED <<state, wasActive, table, rules, lock>>
  BY DEF WriteEndpoint, Working, cluster
<1>2. Way(h) /\ Course(h) /\ b \in Bridges
  BY <1>0, <1>1, FineOf
<1>3. mem[h].goal \in Goals /\ pc \in [Procs -> Pcs]
  BY <1>0, TypesSplit DEF ProcsTyped, Memory
<1>4. pc'[h] = "get again" /\ endpoint'[b] = mem[h].port
  BY <1>0, <1>2, <1>3, TypesSplit DEF WriteEndpoint, Goto, ObjectTyped
<1>5. Inner(h)
  <2>1. Working(h)'
    BY <1>4 DEF Working
  <2> QED
    BY <1>0, <1>1, <2>1, ActsIsInner DEF Acts
<1>6. mem[h].goal = "setup" /\ Holds(h)
  BY <1>1, <1>2, <1>3 DEF Way, Course, Goals
<1>7. Holds(h)'
  BY <1>1, <1>5, <1>6, LooksKeepsViews
<1>8. Way(h)' /\ Course(h)' /\ ~Keeps(h)'
  BY <1>1, <1>2, <1>4, <1>6, <1>7 DEF Way, Course, Keeps, Working
<1> QED
  BY <1>1, <1>4, <1>5, <1>8, NotKept, LooksKeepsOrderly

-----------------------------------------------------------------------------
(* The steps that change the routes. *)
LEMMA AddKeepsOrderly ==
  ASSUME World, NEW h \in Procs, Add(h)
  PROVE  Orderly'
<1> DEFINE b == Of(h)
<1>0. TypeOK /\ Named /\ Orderly /\ Apart /\ Unshared
  BY DEF World, BridgeInv, Orderly
<1>1. pc[h] = "add" /\ Working(h) /\ UNCHANGED <<object, kopf, rules, lock>>
  BY DEF Add, Working
<1>2. Way(h) /\ Course(h) /\ b \in Bridges /\ mem[h].goal = "setup" /\ RuleLeads(b)
  BY <1>0, <1>1, FineOf DEF Named
<1>3. mem[h] \in Memory /\ mem \in [Procs -> Memory] /\ pc \in [Procs -> Pcs]
  BY <1>0, TypesSplit DEF ProcsTyped
<1>4. PICK p \in Ports : /\ Table!AddAt(ClientOf[b], Destination(h), p)
                         /\ mem' = [mem EXCEPT ![h].port = p]
  BY DEF Add
<1>5. /\ mem'[h].port = p /\ mem'[h].goal = "setup" /\ mem'[h].task = mem[h].task
      /\ pc'[h] = "endpoint"
  BY <1>2, <1>3, <1>4 DEF Memory, Add, Goto
<1>6. Inner(h)
  <2>1. Working(h)'
    BY <1>5 DEF Working
  <2> QED
    BY <1>0, <1>1, <2>1, ActsIsInner DEF Acts
<1> DEFINE new == [peer |-> ClientOf[b], dest |-> Destination(h), port |-> p]
<1>7. table' = table \cup {new} /\ \A r \in table : r.port # p
  BY <1>4 DEF Table!AddAt, Table!PortsIn
<1>8. Destination(h) \in DestsOf[b] /\ Destination(h)' = Destination(h)
  BY <1>0, <1>1, <1>2, <1>5, <1>6, DestinationIsOwn DEF Destination, Inner
<1>9. \A r \in table : r.dest # Destination(h)
  BY <1>1, <1>2, <1>8 DEF Course, RoutesOf
<1>10. \A c \in Bridges \ {b} : RoutesOf(c)' = RoutesOf(c)
  <2> SUFFICES ASSUME NEW c \in Bridges \ {b} PROVE new.dest \notin DestsOf[c]
    BY <1>7 DEF RoutesOf
  <2> QED
    BY <1>0, <1>2, <1>8 DEF Unshared
<1>11. RoutesOf(b)' = RoutesOf(b) \cup {new}
  BY <1>7, <1>8 DEF RoutesOf
<1>12. Apart'
  <2>1. \A c \in Bridges : \A r \in RoutesOf(c)' : r.peer = ClientOf[c]
    BY <1>0, <1>10, <1>11 DEF Apart
  <2>2. ASSUME NEW r \in table', NEW s \in table', r.port = s.port \/ r.dest = s.dest
        PROVE  r = s
    BY <1>0, <1>7, <1>9, <2>2 DEF Apart
  <2> QED
    BY <2>1, <2>2 DEF Apart
<1>13. RuleLeads(b)'
  <2>1. Leftover(TargetOf[b])' <=> Leftover(TargetOf[b])
    BY <1>1, <1>6 DEF Leftover, Inner
  <2> QED
    BY <1>1, <1>2, <1>6, <1>11, <2>1 DEF RuleLeads, RuleOf, Inner
<1>14. Holds(h)'
  <2>1. new \in RoutesOf(b)' /\ new.dest = Destination(h)' /\ new.port = mem'[h].port
    BY <1>5, <1>8, <1>11
  <2> HIDE DEF new
  <2> QED
    BY <2>1 DEF Holds
<1>15. Way(h)' /\ Course(h)' /\ ~Keeps(h)'
  BY <1>1, <1>2, <1>5, <1>14 DEF Way, Course, Keeps, Working
<1>16. wasActive'[b] = wasActive[b] /\ UNCHANGED rules
  BY <1>1 DEF object
<1> QED
  BY <1>1, <1>5, <1>6, <1>10, <1>12, <1>13, <1>15, <1>16, NotKept, InnerKeepsOrderly

(* A port is left: every route has a destination of its own. *)
LEMMA AddHasPort ==
  ASSUME World, NEW h \in Procs, pc[h] = "add"
  PROVE  Ports # Table!PortsIn(table)
<1> SUFFICES ASSUME Ports = Table!PortsIn(table) PROVE FALSE
  OBVIOUS
<1>0. TypeOK /\ Orderly /\ Apart /\ PortsSuffice
  BY DEF World, BridgeInv, Orderly
<1>1. Working(h)
  BY DEF Working
<1>2. Of(h) \in Bridges /\ Course(h) /\ Destination(h) \in DestsOf[Of(h)]
  BY <1>0, <1>1, FineOf, DestinationIsOwn
<1>3. \A r \in table : r.dest # Destination(h)
  BY <1>2 DEF Course, RoutesOf
<1> DEFINE at(e) == {r \in table : r.dest = e}
<1> DEFINE f == [e \in Dests |-> IF at(e) = {} THEN NoPort ELSE (CHOOSE r \in at(e) : TRUE).port]
<1>4. \A r \in table : r.dest \in Dests /\ f[r.dest] = r.port
  <2> SUFFICES ASSUME NEW r \in table PROVE r.dest \in Dests /\ f[r.dest] = r.port
    OBVIOUS
  <2>1. r.dest \in Dests
    BY <1>0, RouteTypes
  <2>2. at(r.dest) = {r}
    BY <1>0 DEF Apart
  <2>3. (CHOOSE s \in at(r.dest) : TRUE) = r
    BY <2>2
  <2>4. at(r.dest) # {}
    BY <2>2
  <2> QED
    BY <2>1, <2>3, <2>4
<1>5. f \in [Dests -> MaybePort]
  <2>1. ASSUME NEW e \in Dests
        PROVE  (IF at(e) = {} THEN NoPort ELSE (CHOOSE r \in at(e) : TRUE).port) \in MaybePort
    <3>1. CASE at(e) = {}
      BY <3>1 DEF MaybePort
    <3>2. CASE at(e) # {}
      <4>1. (CHOOSE r \in at(e) : TRUE) \in table
        BY <3>2
      <4> QED
        BY <1>0, <3>2, <4>1, RouteTypes DEF MaybePort
    <3> QED
      BY <3>1, <3>2
  <2> QED
    BY <2>1
<1> HIDE DEF f
<1>6. Destination(h) \in Dests
  BY <1>2, BridgeAssumption
<1>7. PICK p \in Ports : \A e \in Dests \ {Destination(h)} : f[e] # p
  BY <1>0, <1>5, <1>6 DEF PortsSuffice
<1>8. PICK r \in table : r.port = p
  BY DEF Table!PortsIn
<1> QED
  BY <1>3, <1>4, <1>7, <1>8

LEMMA RemoveKeepsOrderly ==
  ASSUME World, NEW h \in Procs, Remove(h), faults' = faults
  PROVE  Orderly'
<1> DEFINE b == Of(h)
<1>0. TypeOK /\ Named /\ Orderly /\ Apart /\ Unshared
  BY DEF World, BridgeInv, Orderly
<1>1. pc[h] = "remove" /\ Working(h) /\ mem' = mem /\ UNCHANGED <<object, kopf, rules, lock>>
  BY DEF Remove, Working
<1>2. /\ Way(h) /\ Course(h) /\ b \in Bridges /\ RuleLeads(b) /\ Started(h) /\ pc[h] # "idle"
      /\ (h = <<b, "worker">> \/ h = <<b, "timer">>)
  BY <1>0, <1>1, FineOf
<1>3. /\ mem[h].goal \in Goals /\ mem[h].task \in {"create", "update", "delete", "reconcile"}
      /\ pc \in [Procs -> Pcs]
  BY <1>0, <1>2, TypesSplit DEF ProcsTyped, Memory, Started
<1>4. mem[h].goal = "teardown" /\ mem[h].task \in {"update", "delete"}
  BY <1>1, <1>2, <1>3 DEF Way, Goals
<1>5. pc'[h] = IF mem[h].task = "update" THEN "restore" ELSE "done"
  BY <1>3 DEF Remove, Goto, TornDown
<1>6. table' = {r \in table : r.dest # Destination(h)}
  <2>1. faults \in Nat
    BY <1>0, BoundAssumption DEF TypeOK
  <2>2. \/ \E r \in table : r.dest = Destination(h) /\ table' = table \ {r}
        \/ (\A r \in table : r.dest # Destination(h)) /\ table' = table
    BY <2>1 DEF Remove
  <2> QED
    BY <1>0, <2>2 DEF Apart
<1>7. Inner(h)
  <2>1. Working(h)'
    BY <1>5 DEF Working
  <2> QED
    BY <1>0, <1>1, <2>1, ActsIsInner DEF Acts
<1>8. Destination(h) \in DestsOf[b] /\ Destination(h)' = Destination(h)
  BY <1>0, <1>1, <1>7, DestinationIsOwn DEF Destination, Inner
<1>9. \A c \in Bridges \ {b} : RoutesOf(c)' = RoutesOf(c)
  BY <1>0, <1>2, <1>6, <1>8 DEF RoutesOf, Unshared
<1>10. \A r : r \in RoutesOf(b)' <=> r \in RoutesOf(b) /\ r.dest # Destination(h)
  BY <1>6 DEF RoutesOf
<1>11. Apart'
  <2>1. \A c \in Bridges : \A r \in RoutesOf(c)' : r.peer = ClientOf[c]
    BY <1>0, <1>9, <1>10 DEF Apart
  <2> QED
    BY <1>0, <1>6, <2>1 DEF Apart
<1>12. RuleLeads(b)'
  <2>1. Leftover(TargetOf[b])' <=> Leftover(TargetOf[b])
    BY <1>1, <1>7 DEF Leftover, Inner
  <2>2. \A r \in RoutesOf(b) : r.dest = Destination(h) => RuleOf(b) # r.port
    BY <1>1, <1>2 DEF Course
  <2> QED
    BY <1>1, <1>2, <1>7, <1>10, <2>1, <2>2 DEF RuleLeads, RuleOf, Inner
<1>13. Way(h)'
  BY <1>1, <1>2, <1>4, <1>5 DEF Way
<1>14. Course(h)'
  <2>1. CASE mem[h].task = "update"
    BY <1>5, <2>1 DEF Course
  <2>2. CASE mem[h].task = "delete"
    <3>1. handled[b] = mem[h].dest => RuleOf(b)' = NoPort
      BY <1>1, <1>2, <2>2 DEF Course, RuleOf
    <3>2. \A r \in RoutesOf(b)' : r.dest # mem[h].dest
      BY <1>10, <2>2 DEF Destination
    <3>3. pc'[h] = "done" /\ handled'[b] = handled[b]
      BY <1>5, <1>7, <2>2 DEF Inner
    <3> QED
      BY <1>1, <2>2, <3>1, <3>2, <3>3 DEF Course
  <2> QED
    BY <1>4, <2>1, <2>2
<1>15. ~Keeps(h)'
  BY <1>1, <1>4, <1>5 DEF Keeps, Working
<1>16. wasActive'[b] = wasActive[b] /\ UNCHANGED rules
  BY <1>1 DEF object
<1> QED
  BY <1>1, <1>5, <1>7, <1>9, <1>11, <1>12, <1>13, <1>14, <1>15, <1>16, NotKept, InnerKeepsOrderly

-----------------------------------------------------------------------------
(* A configuration is replaced: every bridge of the target has its         *)
(* endpoint in it.                                                         *)
LEMMA CommitKeepsSibling ==
  ASSUME World, NEW h \in Procs, Inner(h), pc[h] = "commit", Composed(h), UNCHANGED table,
         rules' = [rules EXCEPT ![Target(h)] = mem[h].rules],
         NEW c \in Bridges, c # Of(h), TargetOf[c] = Target(h)
  PROVE  Fine(c)'
<1> DEFINE t == TargetOf[c]
<1>0. TypeOK /\ Orderly
  BY DEF World, BridgeInv
<1>1. /\ Life(c) /\ (Kept(c) => Good(c)) /\ Of(h) \in Bridges /\ t \in Targets
      /\ \A g \in HandlersOf(c) : Started(g)
  BY <1>0, ProcOfBridge, FineOf DEF Orderly, Fine
<1>2. /\ phase'[c] = phase[c] /\ dest'[c] = dest[c] /\ handled'[c] = handled[c]
      /\ todo'[c] = todo[c] /\ state'[c] = state[c] /\ wasActive'[c] = wasActive[c]
      /\ endpoint'[c] = endpoint[c]
  BY <1>0, <1>1, TypesSplit DEF Inner, ObjectTyped
<1>3. \A g \in HandlersOf(c) : pc'[g] = pc[g] /\ mem'[g] = mem[g] /\ ~Working(g)
  <2> SUFFICES ASSUME NEW g \in HandlersOf(c)
               PROVE  pc'[g] = pc[g] /\ mem'[g] = mem[g] /\ ~Working(g)
    OBVIOUS
  <2>1. g \in Procs /\ Of(g) = c /\ Target(g) = t
    BY HandlersKnown
  <2>2. ~Working(g)
    BY <2>1, OthersRest DEF Inner
  <2> QED
    BY <1>0, <2>1, <2>2, TypesSplit DEF Inner, ProcsTyped
<1>4. rules'[t] = mem[h].rules
  BY <1>0, <1>1 DEF TypeOK
<1>5. phase[c] # "gone" => RuleOf(c)' = endpoint[c]
  BY <1>4 DEF Composed, Takes, RuleOf
<1>6. \A g \in HandlersOf(c) : Keeps(g)
  BY <1>3 DEF Keeps
<1>7. RoutesOf(c)' = RoutesOf(c)
  BY DEF RoutesOf
<1>8. phase[c] = "present" \/ "delete" \in todo[c] => Good(c) /\ phase[c] # "gone"
  BY <1>1, <1>6 DEF Kept, Life
<1>9. Life(c)'
  <2>1. Creating(c)' <=> Creating(c)
    BY <1>3, HandlersKnown DEF Creating
  <2>2. pc'[<<c, "timer">>] = pc[<<c, "timer">>]
    BY <1>3, HandlersKnown
  <2>3. phase[c] = "absent" => RuleOf(c)' = NoPort
    BY <1>1, <1>5 DEF Life
  <2> QED
    BY <1>1, <1>2, <2>1, <2>2, <2>3 DEF Life
<1>10. handled[c] # NoDest /\ Good(c) =>
         LeadsToAny(c, {dest[c], handled[c]})' /\ endpoint[c] # NoPort
  <2> SUFFICES ASSUME LeadsToAny(c, {dest[c], handled[c]})
               PROVE  LeadsToAny(c, {dest[c], handled[c]})' /\ endpoint[c] # NoPort
    BY DEF Good
  <2>1. PICK r \in RoutesOf(c) : r.port = endpoint[c] /\ r.dest \in {dest[c], handled[c]}
    BY DEF LeadsToAny
  <2> QED
    BY <1>0, <1>2, <1>7, <2>1, RouteTypes DEF LeadsToAny, RoutesOf
<1>11. RuleLeads(c)'
  <2> SUFFICES ASSUME phase[c] = "present", RuleOf(c)' # NoPort
               PROVE  \E r \in RoutesOf(c)' : r.port = RuleOf(c)'
    BY <1>2 DEF RuleLeads
  <2>1. RuleOf(c)' = endpoint[c] /\ Good(c)
    BY <1>5, <1>8
  <2>2. handled[c] # NoDest
    BY <2>1 DEF Good
  <2>3. LeadsToAny(c, {dest[c], handled[c]})
    BY <2>1, <2>2 DEF Good
  <2> QED
    BY <1>7, <2>1, <2>3 DEF LeadsToAny
<1>12. ASSUME Kept(c)' PROVE Good(c)'
  <2>1. Good(c) /\ RuleOf(c)' = endpoint[c]
    BY <1>2, <1>5, <1>8, <1>12 DEF Kept
  <2>2. CASE handled[c] = NoDest
    BY <1>2, <2>1, <2>2 DEF Good
  <2>3. CASE handled[c] # NoDest
    <3>1. rules'[t][c] = endpoint'[c] /\ endpoint'[c] # NoPort
      BY <1>2, <1>10, <2>1, <2>3 DEF RuleOf
    <3>2. Ruled(c)'
      BY <3>1 DEF Ruled, RuleOf
    <3> QED
      BY <1>2, <1>10, <2>1, <2>3, <3>2 DEF Good
  <2> QED
    BY <2>2, <2>3
<1>13. ASSUME NEW g \in HandlersOf(c)
       PROVE  Started(g)' /\ ~Working(g)'
  <2>1. pc'[g] = pc[g] /\ mem'[g] = mem[g] /\ ~Working(g) /\ Of(g) = c /\ Started(g)
    BY <1>1, <1>3, HandlersKnown
  <2> QED
    BY <1>2, <2>1 DEF Started, Working
<1> QED
  BY <1>9, <1>11, <1>12, <1>13, HandlersKnown DEF Fine

LEMMA CommitKeepsOrderly ==
  ASSUME World, NEW h \in Procs, Commit(h)
  PROVE  Orderly'
<1> DEFINE b == Of(h)
<1>0. TypeOK /\ Named /\ Orderly /\ Apart /\ Elsewhere
  BY DEF World, BridgeInv, Orderly
<1>1. /\ pc[h] = "commit" /\ Working(h) /\ mem' = mem
      /\ UNCHANGED <<object, kopf, table, ready, lock>>
  BY DEF Commit, Working
<1>2. /\ Way(h) /\ Course(h) /\ b \in Bridges /\ Target(h) = TargetOf[b] /\ Started(h)
      /\ Target(h) \in Targets /\ pc[h] # "idle"
  BY <1>0, <1>1, FineOf, ProcOfBridge
<1>3. mem[h].goal \in Goals /\ pc \in [Procs -> Pcs]
  BY <1>0, TypesSplit DEF ProcsTyped, Memory
<1>4. mem[h].goal \in {"setup", "teardown"}
  BY <1>1, <1>2, <1>3 DEF Way, Goals
<1>5. ready[Target(h)] /\ Composed(h)
  BY <1>0, <1>1, <1>2 DEF Orderly, AllReady
<1>6. /\ rules' = [rules EXCEPT ![Target(h)] = mem[h].rules]
      /\ pc'[h] = IF mem[h].goal = "setup" THEN "set up" ELSE "remove"
  BY <1>3, <1>5 DEF Commit, Goto
<1>7. Inner(h)
  <2>1. Working(h)'
    BY <1>6 DEF Working
  <2> QED
    BY <1>0, <1>1, <2>1, ActsIsInner DEF Acts
<1>8. rules'[Target(h)] = mem[h].rules /\ \A t \in Targets \ {Target(h)} : rules'[t] = rules[t]
  BY <1>0, <1>2, <1>6 DEF TypeOK
<1>9. \A c \in Bridges : RoutesOf(c)' = RoutesOf(c)
  BY <1>1 DEF RoutesOf
<1>10. UNCHANGED <<state, wasActive, endpoint>>
  BY <1>1 DEF object
<1>11. Apart' /\ AllReady'
  BY <1>0, <1>1, <1>9 DEF Apart, Orderly, AllReady
<1>12. Elsewhere'
  <2> SUFFICES ASSUME NEW t \in Targets, NEW c \in Bridges, TargetOf[c] # t
               PROVE  rules'[t][c] = NoPort
    BY DEF Elsewhere
  <2>1. CASE t = Target(h)
    BY <1>5, <1>8, <2>1 DEF Composed, Takes
  <2>2. CASE t # Target(h)
    BY <1>0, <1>8, <2>2 DEF Elsewhere
  <2> QED
    BY <2>1, <2>2
<1>13. Destination(h)' = Destination(h)
  BY <1>1, <1>7 DEF Destination, Inner
<1>14. CASE mem[h].goal = "setup"
  <2>1. Holds(h) /\ endpoint[b] = mem[h].port
    BY <1>1, <1>2, <1>14 DEF Course
  <2>2. Holds(h)'
    BY <1>1, <1>2, <1>9, <1>13, <2>1 DEF Holds
  <2>3. endpoint[b] # NoPort
    BY <1>0, <2>1, RouteTypes DEF Holds, RoutesOf
  <2>4. RuleOf(b)' = endpoint[b]
    <3>1. phase[b] # "gone"
      BY <1>2 DEF Started
    <3>2. Takes(h, b)
      BY <1>2, <1>14 DEF Takes
    <3> QED
      BY <1>2, <1>5, <1>8, <3>1, <3>2 DEF Composed, RuleOf
  <2>5. Ruled(b)'
    <3>1. rules'[TargetOf[b]][b] = endpoint'[b] /\ endpoint'[b] # NoPort
      BY <1>10, <2>3, <2>4 DEF RuleOf
    <3> QED
      BY <1>2, <3>1 DEF Ruled, RuleOf
  <2>6. Way(h)' /\ ~Keeps(h)'
    BY <1>1, <1>2, <1>6, <1>14 DEF Way, Keeps, Working
  <2>7. Course(h)'
    BY <1>1, <1>6, <1>10, <1>14, <2>1, <2>2, <2>5 DEF Course
  <2>8. RuleLeads(b)'
    BY <1>2, <1>9, <2>1, <2>4 DEF RuleLeads, Holds
  <2> QED
    BY <1>1, <1>2, <1>6, <1>7, <1>8, <1>9, <1>10, <1>11, <1>12, <1>5, <2>6, <2>7, <2>8, <1>14,
       NotKept, InnerKeepsOwn, InnerKeepsOthers, InnerKeepsComposed, CommitKeepsSibling,
       BridgeAssumption DEF Orderly
<1>15. CASE mem[h].goal = "teardown"
  <2>1. RuleOf(b)' = NoPort
    BY <1>2, <1>5, <1>8, <1>15 DEF Composed, Takes, RuleOf
  <2>2. \A r \in RoutesOf(b)' : r.port # NoPort
    BY <1>0, <1>2, <1>9, RouteTypes DEF RoutesOf
  <2>3. Way(h)' /\ ~Keeps(h)'
    BY <1>1, <1>2, <1>6, <1>15 DEF Way, Keeps, Working
  <2>4. Course(h)'
    BY <1>1, <1>6, <1>15, <2>1, <2>2 DEF Course
  <2>5. RuleLeads(b)'
    BY <2>1 DEF RuleLeads
  <2> QED
    BY <1>1, <1>2, <1>6, <1>7, <1>8, <1>9, <1>10, <1>11, <1>12, <1>5, <2>3, <2>4, <2>5, <1>15,
       NotKept, InnerKeepsOwn, InnerKeepsOthers, InnerKeepsComposed, CommitKeepsSibling,
       BridgeAssumption DEF Orderly
<1> QED
  BY <1>4, <1>14, <1>15

-----------------------------------------------------------------------------
(* Steps outside the handlers, and those that start and end them: they     *)
(* concern one bridge, and leave routes and rules alone.                   *)
Only(b) ==
  /\ \A c \in Bridges \ {b} :
        /\ phase'[c] = phase[c] /\ state'[c] = state[c] /\ wasActive'[c] = wasActive[c]
        /\ dest'[c] = dest[c] /\ endpoint'[c] = endpoint[c]
        /\ handled'[c] = handled[c] /\ todo'[c] = todo[c]
  /\ \A h \in Procs : Of(h) # b => pc'[h] = pc[h] /\ mem'[h] = mem[h]
  /\ UNCHANGED <<table, rules, ready>>
  /\ \A t \in Targets : Leftover(t) => Leftover(t)'

LEMMA OnlyKeepsOrderly ==
  ASSUME World, NEW b \in Bridges, Only(b), Fine(b)',
         \A h \in Procs : pc'[h] = "commit" => Composed(h)'
  PROVE  Orderly'
<1>1. \A c \in Bridges : RoutesOf(c)' = RoutesOf(c)
  BY DEF Only, RoutesOf
<1>2. ASSUME NEW c \in Bridges \ {b} PROVE Fine(c)'
  <2>1. Aside(c)
    BY <1>1, HandlersKnown, BridgeAssumption DEF Only, Aside
  <2> QED
    BY <2>1, AsideKeepsFine DEF World, Orderly
<1>3. AllReady' /\ Elsewhere' /\ Apart'
  BY <1>1 DEF World, Orderly, AllReady, Elsewhere, Apart, Only
<1> QED
  BY <1>2, <1>3 DEF Orderly

LEMMA OnlyKeepsViews ==
  ASSUME NEW b \in Bridges, Only(b)
  PROVE  /\ RuleOf(b)' = RuleOf(b) /\ RoutesOf(b)' = RoutesOf(b)
         /\ endpoint'[b] = endpoint[b] /\ Ruled(b) => Ruled(b)'
         /\ endpoint'[b] = endpoint[b] => \A D : LeadsToAny(b, D) => LeadsToAny(b, D)'
<1>1. RuleOf(b)' = RuleOf(b) /\ RoutesOf(b)' = RoutesOf(b)
  BY DEF Only, RuleOf, RoutesOf
<1>2. endpoint'[b] = endpoint[b] /\ Ruled(b) => Ruled(b)'
  BY <1>1, BridgeAssumption DEF Only, Ruled
<1>3. endpoint'[b] = endpoint[b] => \A D : LeadsToAny(b, D) => LeadsToAny(b, D)'
  BY <1>1 DEF LeadsToAny
<1> QED
  BY <1>1, <1>2, <1>3

(* What is committed does not depend on handlers that start and end. *)
LEMMA SameComposed ==
  ASSUME World, NEW h \in Procs, Composed(h), mem'[h] = mem[h], UNCHANGED endpoint,
         \A c \in Bridges : phase'[c] # "gone" => phase[c] # "gone"
  PROVE  Composed(h)'
  BY DEF Composed, Takes

LEMMA FinishKeepsOrderly ==
  ASSUME World, NEW h \in Procs, Finish(h)
  PROVE  Orderly'
<1> DEFINE b == Of(h)
<1>0. TypeOK /\ Named /\ Orderly
  BY DEF World, BridgeInv
<1>1. pc[h] = "done" /\ Working(h) /\ pc[h] # "idle" /\ UNCHANGED <<object, cluster>>
  BY DEF Finish, Working
<1>2. /\ b \in Bridges /\ h \in HandlersOf(b) /\ Life(b) /\ RuleLeads(b) /\ (Kept(b) => Good(b))
      /\ Started(h) /\ Way(h) /\ Course(h) /\ (h = <<b, "worker">> \/ h = <<b, "timer">>)
  BY <1>0, <1>1, FineOf
<1>3. pc \in [Procs -> Pcs] /\ mem \in [Procs -> Memory] /\ todo[b] \subseteq {"create", "delete"}
      /\ handled \in [Bridges -> Dests \cup {NoDest}] /\ todo \in [Bridges -> SUBSET {"create", "delete"}]
  BY <1>0, <1>2, TypesSplit DEF ProcsTyped, KopfTyped
<1>4. pc' = [pc EXCEPT ![h] = "idle"] /\ mem' = [mem EXCEPT ![h] = Idle]
  BY DEF Finish, Goto
<1>5. UNCHANGED <<phase, state, wasActive, dest, endpoint, table, rules, ready>>
  BY <1>1 DEF object, cluster
<1>6. /\ todo' = [todo EXCEPT ![b] = @ \ {mem[h].task}]
      /\ handled' = IF (mem[h].task = "create" /\ handled[b] = NoDest) \/ mem[h].task = "update"
                    THEN [handled EXCEPT ![b] = mem[h].dest] ELSE handled
  BY DEF Finish
<1>7. todo'[b] = todo[b] \ {mem[h].task}
      /\ handled'[b] = IF mem[h].task \in {"create", "update"} THEN mem[h].dest ELSE handled[b]
  BY <1>1, <1>2, <1>3, <1>6 DEF Started
<1>8. Only(b)
  <2>1. \A t \in Targets : Leftover(t)' <=> Leftover(t)
    BY <1>5 DEF Leftover
  <2> QED
    BY <1>2, <1>3, <1>4, <1>5, <1>6, <2>1 DEF Only
<1>9. mem[h].dest \in DestsOf[b] /\ mem[h].dest # NoDest /\ phase[b] \in {"present", "deleting"}
  BY <1>1, <1>2, BridgeAssumption, AbsentAssumption DEF Started
<1>10. /\ mem[h].task \in {"create", "update", "delete", "reconcile"}
       /\ mem[h].task = "reconcile" <=> h = <<b, "timer">>
  BY <1>1, <1>2 DEF Started
<1>11. mem[h].task = "reconcile" => handled[b] # NoDest
  BY <1>1, TimerHandled
<1>12. \A g \in HandlersOf(b) \ {h} : pc'[g] = pc[g] /\ mem'[g] = mem[g] /\ ~Working(g)
  <2> SUFFICES ASSUME NEW g \in HandlersOf(b), g # h
               PROVE  pc'[g] = pc[g] /\ mem'[g] = mem[g] /\ ~Working(g)
    OBVIOUS
  <2>1. g \in Procs /\ Of(g) = b
    BY <1>2, HandlersKnown
  <2>2. ~Working(g)
    BY <1>1, <2>1, OthersRest
  <2> QED
    BY <1>3, <1>4, <2>1, <2>2
<1>13. Life(b)'
  <2>1. "create" \in todo'[b] => phase[b] = "present" /\ handled'[b] = NoDest
    BY <1>1, <1>2, <1>7 DEF Life, Started
  <2>2. phase[b] = "present" /\ handled'[b] = NoDest => "create" \in todo'[b]
    BY <1>1, <1>2, <1>7, <1>9, <1>10 DEF Life, Started
  <2>3. handled'[b] = NoDest => ~wasActive[b] /\ pc'[<<b, "timer">>] = "idle"
    <3> SUFFICES ASSUME handled'[b] = NoDest
                 PROVE  ~wasActive[b] /\ pc'[<<b, "timer">>] = "idle"
      OBVIOUS
    <3>1. mem[h].task = "delete" /\ handled[b] = NoDest /\ h = <<b, "worker">>
      BY <1>2, <1>7, <1>9, <1>10, <1>11
    <3>2. ~Creating(b)
      BY <3>1 DEF Creating
    <3>3. <<b, "timer">> \in HandlersOf(b) \ {h}
      BY <1>2, <3>1, HandlersKnown
    <3> QED
      BY <1>2, <1>12, <3>1, <3>2, <3>3 DEF Life
  <2>4. RuleOf(b)' = RuleOf(b)
    BY <1>2, <1>8, OnlyKeepsViews
  <2> QED
    BY <1>2, <1>5, <1>7, <1>9, <2>1, <2>2, <2>3, <2>4 DEF Life
<1>14. RuleLeads(b)'
  <2>1. Leftover(TargetOf[b])' <=> Leftover(TargetOf[b])
    BY <1>5 DEF Leftover
  <2> QED
    BY <1>2, <1>5, <1>8, <2>1, OnlyKeepsViews DEF RuleLeads
<1>15. ASSUME Kept(b)' PROVE Good(b)'
  <2>1. CASE mem[h].task \in {"create", "update"}
    <3>1. state[b] = "ACTIVE" /\ Ruled(b) /\ LeadsToAny(b, {mem[h].dest})
      BY <1>1, <1>2, <2>1 DEF Course
    <3>2. Ruled(b)'
      BY <1>2, <1>5, <1>8, <3>1, OnlyKeepsViews
    <3>3. handled'[b] = mem[h].dest
      BY <1>7, <2>1
    <3>4. LeadsToAny(b, {dest[b], handled[b]})'
      BY <1>5, <3>1, <3>3 DEF LeadsToAny, RoutesOf
    <3> QED
      BY <1>5, <1>9, <3>1, <3>2, <3>3, <3>4 DEF Good
  <2>2. CASE mem[h].task = "delete"
    BY <1>1, <1>2, <1>5, <1>7, <1>15, <2>2 DEF Kept, Started, Life
  <2>3. CASE mem[h].task = "reconcile"
    <3>1. \A g \in HandlersOf(b) : Keeps(g)
      BY <1>1, <1>12, <2>3 DEF Keeps
    <3>2. todo'[b] = todo[b] /\ handled'[b] = handled[b]
      BY <1>3, <1>7, <2>3
    <3>3. Good(b)
      BY <1>2, <1>5, <1>15, <3>1, <3>2 DEF Kept
    <3>4. Ruled(b) => Ruled(b)'
      BY <1>2, <1>5, <1>8, OnlyKeepsViews
    <3>5. LeadsToAny(b, {dest[b], handled[b]}) => LeadsToAny(b, {dest[b], handled[b]})'
      BY <1>5, <3>2 DEF LeadsToAny, RoutesOf
    <3> QED
      BY <1>2, <1>5, <1>8, <3>2, <3>3, <3>4, <3>5, OnlyKeepsViews DEF Good
  <2> QED
    BY <1>10, <2>1, <2>2, <2>3
<1>16. ASSUME NEW g \in HandlersOf(b)
       PROVE  Started(g)' /\ ~Working(g)'
  <2>1. CASE g = h
    <3>1. pc'[h] = "idle"
      BY <1>3, <1>4
    <3> QED
      BY <2>1, <3>1 DEF Started, Working
  <2>2. CASE g # h
    <3>1. pc'[g] = pc[g] /\ mem'[g] = mem[g] /\ ~Working(g)
      BY <1>12, <2>2
    <3>2. Started(g) /\ Of(g) = b
      BY <1>0, <1>2, HandlersKnown DEF Orderly, Fine
    <3>3. CASE g = <<b, "timer">>
      BY <1>5, <3>1, <3>2, <3>3 DEF Started, Working
    <3>4. CASE h = <<b, "timer">>
      <4>1. todo'[b] = todo[b] /\ handled'[b] = handled[b]
        BY <1>3, <1>7, <1>10, <3>4
      <4> QED
        BY <1>5, <3>1, <3>2, <4>1 DEF Started, Working
    <3> QED
      BY <1>2, <2>2, <3>3, <3>4, HandlersKnown
  <2> QED
    BY <2>1, <2>2
<1>17. Fine(b)'
  BY <1>2, <1>13, <1>14, <1>15, <1>16, HandlersKnown DEF Fine
<1>18. ASSUME NEW g \in Procs, pc'[g] = "commit" PROVE Composed(g)'
  <2>1. g # h /\ pc[g] = "commit" /\ mem'[g] = mem[g]
    BY <1>3, <1>4, <1>18
  <2> QED
    BY <1>0, <1>5, <2>1, SameComposed DEF Orderly
<1> QED
  BY <1>2, <1>8, <1>17, <1>18, OnlyKeepsOrderly

LEMMA EnterKeepsOrderly ==
  ASSUME World, NEW h \in Procs, Enter(h)
  PROVE  Orderly'
<1> DEFINE b == Of(h)
<1>0. TypeOK /\ Named /\ Orderly /\ Locked
  BY DEF World, BridgeInv
<1>1. pc[h] = "lock" /\ pc[h] # "idle" /\ UNCHANGED <<object, kopf, cluster>>
  BY DEF Enter
<1>2. /\ b \in Bridges /\ h \in HandlersOf(b) /\ Life(b) /\ RuleLeads(b) /\ (Kept(b) => Good(b))
      /\ Started(h) /\ (h = <<b, "worker">> \/ h = <<b, "timer">>)
  BY <1>0, FineOf
<1>3. pc \in [Procs -> Pcs] /\ mem \in [Procs -> Memory] /\ mem[h] \in Memory
  BY <1>0, TypesSplit DEF ProcsTyped
<1>4. pc' = [pc EXCEPT ![h] = Entry(h)[2]] /\ mem' = [mem EXCEPT ![h].goal = Entry(h)[1]]
  BY DEF Enter, Turn, Goto
<1>5. /\ mem'[h].goal = Entry(h)[1] /\ mem'[h].task = mem[h].task /\ mem'[h].dest = mem[h].dest
      /\ mem'[h].state = mem[h].state /\ mem' = [mem EXCEPT ![h] = mem'[h]]
  BY <1>3, <1>4 DEF Memory
<1>6. pc'[h] = Entry(h)[2]
  BY <1>3, <1>4
<1>7. UNCHANGED <<phase, state, wasActive, dest, endpoint, handled, todo, table, rules, ready>>
  BY <1>1 DEF object, kopf, cluster
<1>8. mem[h].task \in {"create", "update", "delete", "reconcile"}
  BY <1>1, <1>2 DEF Started
<1>9. /\ mem[h].task \in {"update", "delete"} => pc'[h] = "exists" /\ mem'[h].goal = "teardown"
      /\ mem[h].task = "create" => pc'[h] = "install" /\ mem'[h].goal = "setup"
      /\ mem[h].task = "reconcile" =>
           \/ mem'[h].goal = "setup" /\ pc'[h] \in {"exists", "install", "restore", "done"}
           \/ mem'[h].goal = "probe" /\ pc'[h] = "exists"
  BY <1>1, <1>2, <1>5, <1>6 DEF Entry, Started
<1>10. Way(h)' /\ Course(h)' /\ pc'[h] # "idle" /\ pc'[h] # "lock" /\ pc'[h] # "commit"
  BY <1>5, <1>8, <1>9 DEF Way, Course
<1>11. Only(b)
  <2>1. \A t \in Targets : Leftover(t)' <=> Leftover(t)
    BY <1>7 DEF Leftover
  <2> QED
    BY <1>2, <1>3, <1>4, <1>5, <1>7, <2>1 DEF Only
<1>12. \A g \in HandlersOf(b) \ {h} : pc'[g] = pc[g] /\ mem'[g] = mem[g] /\ ~Working(g)
  <2> SUFFICES ASSUME NEW g \in HandlersOf(b), g # h
               PROVE  pc'[g] = pc[g] /\ mem'[g] = mem[g] /\ ~Working(g)
    OBVIOUS
  <2>1. g \in Procs /\ Of(g) = b /\ Target(g) = Target(h)
    BY <1>2, HandlersKnown
  <2>2. ~Working(g)
    BY <1>0, <2>1, AbsentAssumption DEF Enter, Locked, Procs
  <2> QED
    BY <1>3, <1>4, <1>5, <2>1, <2>2
<1>13. Life(b)'
  <2>1. ASSUME handled[b] = NoDest, ~Creating(b)'
        PROVE  ~wasActive[b] /\ pc'[<<b, "timer">>] = "idle"
    <3>1. ~Creating(b)
      <4>1. CASE h = <<b, "worker">>
        BY <1>1, <4>1 DEF Creating
      <4>2. CASE h # <<b, "worker">>
        BY <1>2, <1>12, <4>2, HandlersKnown DEF Creating, Working
      <4> QED
        BY <4>1, <4>2
    <3>2. ~wasActive[b] /\ pc[<<b, "timer">>] = "idle"
      BY <1>2, <2>1, <3>1 DEF Life
    <3> QED
      BY <1>1, <1>2, <1>12, <3>2, HandlersKnown
  <2>2. RuleOf(b)' = RuleOf(b)
    BY <1>2, <1>11, OnlyKeepsViews
  <2> QED
    BY <1>2, <1>7, <2>1, <2>2 DEF Life
<1>14. RuleLeads(b)'
  <2>1. Leftover(TargetOf[b])' <=> Leftover(TargetOf[b])
    BY <1>7 DEF Leftover
  <2> QED
    BY <1>2, <1>7, <1>11, <2>1, OnlyKeepsViews DEF RuleLeads
<1>15. ASSUME Kept(b)' PROVE Good(b)'
  <2>1. \A g \in HandlersOf(b) : Keeps(g)
    BY <1>1, <1>12 DEF Keeps, Working
  <2>2. Good(b)
    BY <1>2, <1>7, <1>15, <2>1 DEF Kept
  <2>3. Ruled(b) => Ruled(b)'
    BY <1>2, <1>7, <1>11, OnlyKeepsViews
  <2>4. LeadsToAny(b, {dest[b], handled[b]}) => LeadsToAny(b, {dest[b], handled[b]})'
    BY <1>7 DEF LeadsToAny, RoutesOf
  <2> QED
    BY <1>2, <1>7, <1>11, <2>2, <2>3, <2>4, OnlyKeepsViews DEF Good
<1>16. ASSUME NEW g \in HandlersOf(b)
       PROVE  Started(g)' /\ (Working(g)' => Way(g)' /\ Course(g)')
  <2>1. CASE g = h
    <3>1. Started(h)'
      BY <1>1, <1>2, <1>5, <1>7, <1>10 DEF Started
    <3> QED
      BY <1>10, <2>1, <3>1
  <2>2. CASE g # h
    <3>1. pc'[g] = pc[g] /\ mem'[g] = mem[g] /\ ~Working(g)
      BY <1>12, <2>2
    <3>2. Started(g) /\ Of(g) = b
      BY <1>0, <1>2, HandlersKnown DEF Orderly, Fine
    <3> QED
      BY <1>7, <3>1, <3>2 DEF Started, Working
  <2> QED
    BY <2>1, <2>2
<1>17. Fine(b)'
  BY <1>2, <1>13, <1>14, <1>15, <1>16, HandlersKnown DEF Fine
<1>18. ASSUME NEW g \in Procs, pc'[g] = "commit" PROVE Composed(g)'
  <2>1. g # h
    BY <1>10, <1>18
  <2>2. pc[g] = "commit" /\ mem'[g] = mem[g]
    BY <1>3, <1>4, <1>5, <1>18, <2>1
  <2> QED
    BY <1>0, <1>7, <2>2, SameComposed DEF Orderly
<1> QED
  BY <1>2, <1>11, <1>17, <1>18, OnlyKeepsOrderly

(* A handler that is started has not begun yet. *)
LEMMA StartKeepsOrderly ==
  ASSUME World, NEW b \in Bridges, NEW who \in {"worker", "timer"}, NEW task \in Tasks,
         Start(b, who, task), UNCHANGED <<object, kopf, cluster, lock>>,
         phase[b] \in {"present", "deleting"},
         who = "timer" => task = "reconcile" /\ wasActive[b],
         who = "worker" => task \in {"create", "update", "delete"},
         task = "create" => handled[b] = NoDest /\ state[b] = "REQUESTED",
         task = "update" => handled[b] \notin {NoDest, dest[b]},
         task = "delete" => "delete" \in todo[b]
  PROVE  Orderly'
<1> DEFINE h == <<b, who>>
<1>0. TypeOK /\ Orderly
  BY DEF World, BridgeInv
<1>1. h \in Procs /\ Of(h) = b /\ h \in HandlersOf(b)
  BY ProcsOf, HandlersKnown
<1>2. Life(b) /\ RuleLeads(b) /\ (Kept(b) => Good(b)) /\ Fine(b)
  BY <1>0 DEF Orderly, Fine
<1>3. pc \in [Procs -> Pcs] /\ mem \in [Procs -> Memory]
  BY <1>0, TypesSplit DEF ProcsTyped
<1>4. /\ pc' = [pc EXCEPT ![h] = "lock"] /\ pc[h] = "idle"
      /\ mem' = [mem EXCEPT ![h] = [Idle EXCEPT !.task = task, !.state = state[b], !.dest = dest[b]]]
  BY DEF Start
<1>5. pc'[h] = "lock" /\ mem'[h].task = task /\ mem'[h].state = state[b] /\ mem'[h].dest = dest[b]
  BY <1>1, <1>3, <1>4 DEF Idle
<1>6. UNCHANGED <<phase, state, wasActive, dest, endpoint, handled, todo, table, rules, ready>>
  BY DEF object, kopf, cluster
<1>7. \A g \in Procs \ {h} : pc'[g] = pc[g] /\ mem'[g] = mem[g]
  BY <1>3, <1>4
<1>8. Only(b)
  <2>1. \A t \in Targets : Leftover(t)' <=> Leftover(t)
    BY <1>6 DEF Leftover
  <2> QED
    BY <1>1, <1>6, <1>7, <2>1 DEF Only
<1>9. /\ RuleOf(b)' = RuleOf(b) /\ (Ruled(b) => Ruled(b)')
      /\ (LeadsToAny(b, {dest[b], handled[b]}) => LeadsToAny(b, {dest[b], handled[b]})')
  BY <1>6, <1>8, OnlyKeepsViews DEF LeadsToAny, RoutesOf
<1>10. <<b, "worker">> # <<b, "timer">>
  OBVIOUS
<1>11. Life(b)'
  <2>1. Creating(b)' <=> Creating(b)
    <3>1. CASE who = "worker"
      BY <1>4, <1>5, <3>1 DEF Creating
    <3>2. CASE who = "timer"
      BY <1>7, <1>10, <3>2, ProcsOf DEF Creating
    <3> QED
      BY <3>1, <3>2
  <2>2. handled[b] = NoDest /\ ~Creating(b) => ~wasActive[b] /\ pc'[<<b, "timer">>] = "idle"
    <3> SUFFICES ASSUME handled[b] = NoDest, ~Creating(b)
                 PROVE  ~wasActive[b] /\ pc'[<<b, "timer">>] = "idle"
      OBVIOUS
    <3>1. ~wasActive[b] /\ pc[<<b, "timer">>] = "idle"
      BY <1>2 DEF Life
    <3>2. who = "worker"
      BY <3>1
    <3> QED
      BY <1>7, <1>10, <3>1, <3>2, ProcsOf
  <2> QED
    BY <1>2, <1>6, <1>9, <2>1, <2>2 DEF Life
<1>12. RuleLeads(b)'
  <2>1. Leftover(TargetOf[b])' <=> Leftover(TargetOf[b])
    BY <1>6 DEF Leftover
  <2> QED
    BY <1>2, <1>6, <1>8, <2>1, OnlyKeepsViews DEF RuleLeads
<1>13. ASSUME Kept(b)' PROVE Good(b)'
  <2>1. ASSUME NEW g \in HandlersOf(b) PROVE Keeps(g)
    <3>1. CASE g = h
      BY <1>4, <3>1 DEF Keeps, Working
    <3>2. CASE g # h
      <4>1. pc'[g] = pc[g] /\ mem'[g] = mem[g]
        BY <1>7, <3>2, HandlersKnown
      <4>2. Keeps(g)'
        BY <1>13, HandlersKnown DEF Kept
      <4> QED
        BY <4>1, <4>2 DEF Keeps, Working
    <3> QED
      BY <3>1, <3>2
  <2>2. Good(b)
    BY <1>2, <1>6, <1>13, <2>1 DEF Kept
  <2> QED
    BY <1>6, <1>9, <2>2 DEF Good
<1>14. ASSUME NEW g \in HandlersOf(b)
       PROVE  Started(g)' /\ (Working(g)' => Way(g)' /\ Course(g)')
  <2>1. CASE g = h
    <3>1. dest[b] \in DestsOf[b]
      BY <1>2 DEF Life
    <3>2. Started(h)'
      BY <1>1, <1>5, <1>6, <1>10, <3>1 DEF Started
    <3> QED
      BY <1>5, <2>1, <3>2 DEF Working
  <2>2. CASE g # h
    <3>1. pc'[g] = pc[g] /\ mem'[g] = mem[g] /\ Of(g) = b
      BY <1>7, <2>2, HandlersKnown
    <3>2. Started(g) /\ (Working(g) => Way(g) /\ Course(g))
      BY <1>2 DEF Fine
    <3>3. Started(g)' /\ (Working(g)' => Working(g) /\ Way(g)')
      BY ZenonT(40), <1>6, <3>1, <3>2 DEF Started, Working, Way
    <3>4. Destination(g)' = Destination(g) /\ RoutesOf(b)' = RoutesOf(b)
      BY <1>6, <3>1 DEF Destination, RoutesOf
    <3>5. Holds(g)' <=> Holds(g)
      BY <3>1, <3>4 DEF Holds
    <3>6. LeadsToAny(b, {mem[g].dest}) => LeadsToAny(b, {mem[g].dest})'
      BY <1>6, <3>1, <3>4 DEF LeadsToAny
    <3>7. Course(g) => Course(g)'
      BY ZenonT(40), <1>6, <1>9, <3>1, <3>4, <3>5, <3>6 DEF Course
    <3> QED
      BY <3>2, <3>3, <3>7
  <2> QED
    BY <2>1, <2>2
<1>15. Fine(b)'
  BY <1>11, <1>12, <1>13, <1>14, HandlersKnown DEF Fine
<1>16. ASSUME NEW g \in Procs, pc'[g] = "commit" PROVE Composed(g)'
  <2>1. g # h
    BY <1>5, <1>16
  <2>2. pc[g] = "commit" /\ mem'[g] = mem[g]
    BY <1>7, <1>16, <2>1
  <2> QED
    BY <1>0, <1>6, <2>2, SameComposed DEF Orderly
<1> QED
  BY <1>8, <1>15, <1>16, OnlyKeepsOrderly

-----------------------------------------------------------------------------
(* Users and kopf: steps that leave handlers, routes and rules alone.      *)
Outside(b) ==
  /\ UNCHANGED <<state, wasActive, endpoint, table, rules, ready, pc, mem>>
  /\ \A c \in Bridges \ {b} : /\ phase'[c] = phase[c] /\ dest'[c] = dest[c]
                              /\ handled'[c] = handled[c] /\ todo'[c] = todo[c]
  /\ \A c \in Bridges : phase[c] \in {"deleting", "gone"} => phase'[c] \in {"deleting", "gone"}
  /\ \A c \in Bridges : phase[c] = "gone" => phase'[c] = "gone"

LEMMA OutsideKeepsViews ==
  ASSUME NEW b \in Bridges, Outside(b)
  PROVE  /\ Only(b) /\ RuleOf(b)' = RuleOf(b) /\ RoutesOf(b)' = RoutesOf(b)
         /\ Ruled(b) => Ruled(b)'
         /\ \A D : LeadsToAny(b, D) => LeadsToAny(b, D)'
         /\ \A h : (Keeps(h)' <=> Keeps(h)) /\ (Working(h)' <=> Working(h)) /\ (Way(h)' <=> Way(h))
         /\ Creating(b)' <=> Creating(b)
<1>1. \A t \in Targets : Leftover(t) => Leftover(t)'
  BY DEF Outside, Leftover
<1>2. Only(b)
  BY <1>1 DEF Outside, Only
<1>3. RuleOf(b)' = RuleOf(b) /\ RoutesOf(b)' = RoutesOf(b)
  BY DEF Outside, RuleOf, RoutesOf
<1>4. (Ruled(b) => Ruled(b)') /\ \A D : LeadsToAny(b, D) => LeadsToAny(b, D)'
  BY <1>2, OnlyKeepsViews DEF Outside
<1>5. \A h : (Keeps(h)' <=> Keeps(h)) /\ (Working(h)' <=> Working(h)) /\ (Way(h)' <=> Way(h))
  BY DEF Outside, Keeps, Working, Way
<1>6. Creating(b)' <=> Creating(b)
  BY DEF Outside, Creating
<1> QED
  BY <1>2, <1>3, <1>4, <1>5, <1>6

LEMMA OutsideKeepsOrderly ==
  ASSUME World, NEW b \in Bridges, Outside(b),
         Life(b)', RuleLeads(b)', Kept(b)' => Good(b)',
         \A h \in HandlersOf(b) : Started(h)' /\ (Working(h) => Course(h)')
  PROVE  Orderly'
<1>1. Fine(b)
  BY DEF World, Orderly
<1>2. Fine(b)'
  <2>1. ASSUME NEW h \in HandlersOf(b)
        PROVE  Started(h)' /\ (Working(h)' => Way(h)' /\ Course(h)')
    BY <1>1, OutsideKeepsViews DEF Fine
  <2> QED
    BY <2>1, HandlersKnown DEF Fine
<1>3. ASSUME NEW h \in Procs, pc'[h] = "commit" PROVE Composed(h)'
  <2>1. pc[h] = "commit" /\ mem'[h] = mem[h] /\ UNCHANGED endpoint
    BY <1>3 DEF Outside
  <2>2. Composed(h)
    BY <2>1 DEF World, Orderly
  <2> QED
    BY <2>1, <2>2, SameComposed DEF Outside
<1> QED
  BY <1>2, <1>3, OutsideKeepsViews, OnlyKeepsOrderly

(* What a handler has done is not undone while it and its bridge's         *)
(* destinations, as far as it turns to them, stay.                         *)
LEMMA OutsideKeepsCourse ==
  ASSUME NEW b \in Bridges, Outside(b), NEW h \in HandlersOf(b), Course(h),
         Destination(h)' = Destination(h), mem[h].task # "delete" \/ handled'[b] = handled[b]
  PROVE  Course(h)'
<1>1. Of(h) = b /\ pc'[h] = pc[h] /\ mem'[h] = mem[h] /\ UNCHANGED <<endpoint, state>>
  BY HandlersKnown DEF Outside
<1>2. RoutesOf(b)' = RoutesOf(b) /\ RuleOf(b)' = RuleOf(b) /\ (Ruled(b) => Ruled(b)')
  BY OutsideKeepsViews
<1>3. Holds(h)' <=> Holds(h)
  BY <1>1, <1>2 DEF Holds
<1>4. LeadsToAny(b, {mem[h].dest}) => LeadsToAny(b, {mem[h].dest})'
  BY <1>1, <1>2 DEF LeadsToAny
<1> QED
  BY ZenonT(40), <1>1, <1>2, <1>3, <1>4 DEF Course

LEMMA CreateKeepsOrderly ==
  ASSUME World, NEW b \in Bridges, CreateObject(b)
  PROVE  Orderly'
<1>0. TypeOK /\ Orderly
  BY DEF World, BridgeInv
<1>1. PICK d \in DestsOf[b] : CreateAt(b, d)
  BY DEF CreateObject
<1>2. ObjectTyped /\ KopfTyped
  BY <1>0, TypesSplit
<1>3. /\ phase' = [phase EXCEPT ![b] = "present"] /\ dest' = [dest EXCEPT ![b] = d]
      /\ todo' = [todo EXCEPT ![b] = {"create"}] /\ phase[b] = "absent"
      /\ UNCHANGED <<state, wasActive, endpoint, handled, table, rules, ready, pc, mem>>
  BY <1>1 DEF CreateAt, cluster
<1>4. phase'[b] = "present" /\ dest'[b] = d /\ todo'[b] = {"create"}
  BY <1>2, <1>3 DEF ObjectTyped, KopfTyped
<1>5. Outside(b)
  BY <1>2, <1>3 DEF Outside, ObjectTyped, KopfTyped
<1>6. Life(b) /\ \A h \in HandlersOf(b) : Started(h)
  BY <1>0 DEF Orderly, Fine
<1>7. \A h \in HandlersOf(b) : pc[h] = "idle" /\ pc'[h] = "idle" /\ ~Working(h)
  BY <1>3, <1>6, HandlersKnown DEF Started, Working
<1>8. RuleOf(b)' = RuleOf(b) /\ (Creating(b)' <=> Creating(b))
  BY <1>5, OutsideKeepsViews
<1>9. endpoint[b] = NoPort /\ handled[b] = NoDest /\ state[b] = "REQUESTED" /\ RuleOf(b) = NoPort
  BY <1>3, <1>6 DEF Life
<1>10. Life(b)'
  BY <1>3, <1>4, <1>6, <1>8, <1>9 DEF Life
<1>11. RuleLeads(b)' /\ Good(b)'
  BY <1>3, <1>8, <1>9 DEF RuleLeads, Good
<1>12. \A h \in HandlersOf(b) : Started(h)'
  BY <1>7 DEF Started
<1> QED
  BY <1>5, <1>7, <1>10, <1>11, <1>12, OutsideKeepsOrderly

LEMMA EditKeepsOrderly ==
  ASSUME World, NEW b \in Bridges, EditDestination(b), ~crossed'
  PROVE  Orderly'
<1>0. TypeOK /\ Orderly
  BY DEF World, BridgeInv
<1>1. PICK d \in DestsOf[b] : dest' = [dest EXCEPT ![b] = d]
  BY DEF EditDestination
<1>2. ObjectTyped /\ KopfTyped
  BY <1>0, TypesSplit
<1>3. /\ phase[b] = "present"
      /\ UNCHANGED <<phase, state, wasActive, endpoint, handled, todo, table, rules, ready, pc, mem>>
  BY DEF EditDestination, kopf, cluster
<1>4. mem[<<b, "timer">>].goal # "setup" /\ handled[b] \in {NoDest, dest[b]}
  BY DEF EditDestination, Crosses
<1>5. dest'[b] = d
  BY <1>1, <1>2 DEF ObjectTyped
<1>6. Outside(b)
  BY <1>1, <1>2, <1>3 DEF Outside, ObjectTyped
<1>7. Life(b) /\ RuleLeads(b) /\ (Kept(b) => Good(b))
      /\ \A h \in HandlersOf(b) : Started(h) /\ (Working(h) => Way(h) /\ Course(h))
  BY <1>0 DEF Orderly, Fine
<1>8. /\ RuleOf(b)' = RuleOf(b) /\ RoutesOf(b)' = RoutesOf(b) /\ (Creating(b)' <=> Creating(b))
      /\ (Ruled(b) => Ruled(b)') /\ \A h : Keeps(h)' <=> Keeps(h)
  BY <1>6, OutsideKeepsViews
<1>9. Life(b)'
  BY <1>3, <1>5, <1>7, <1>8 DEF Life
<1>10. RuleLeads(b)'
  <2>1. Leftover(TargetOf[b])' <=> Leftover(TargetOf[b])
    BY <1>3 DEF Leftover
  <2> QED
    BY <1>3, <1>7, <1>8, <2>1 DEF RuleLeads
<1>11. ASSUME Kept(b)' PROVE Good(b)'
  <2>1. Kept(b)
    BY <1>3, <1>8, <1>11, HandlersKnown DEF Kept
  <2>2. LeadsToAny(b, {dest[b], handled[b]}) /\ handled[b] # NoDest
          => LeadsToAny(b, {dest[b], handled[b]})'
    BY <1>3, <1>4, <1>8 DEF LeadsToAny
  <2> QED
    BY <1>3, <1>7, <1>8, <2>1, <2>2 DEF Good
<1>12. ASSUME NEW h \in HandlersOf(b)
       PROVE  Started(h)' /\ (Working(h) => Course(h)')
  <2>1. Started(h) /\ Of(h) = b
    BY <1>7, HandlersKnown
  <2>2. pc[h] # "idle" => mem[h].task \notin {"update", "delete"}
    BY <1>3, <1>4, <1>7, <2>1 DEF Started, Life
  <2>3. Started(h)'
    BY <1>3, <2>1, <2>2 DEF Started
  <2>4. ASSUME Working(h) PROVE Course(h)'
    <3>1. Way(h) /\ Course(h) /\ pc[h] # "idle"
      BY <1>7, <2>4 DEF Working
    <3>2. CASE mem[h].task = "reconcile"
      <4>1. h = <<b, "timer">>
        BY <2>1, <3>1, <3>2, HandlersKnown DEF Started
      <4>2. mem[h].goal = "probe"
        <5>1. mem[h].goal \in {"probe", "setup", "teardown"}
          BY <1>0, TypesSplit, HandlersKnown DEF ProcsTyped, Memory, Goals
        <5> QED
          BY <1>4, <3>1, <3>2, <4>1, <5>1 DEF Way
      <4>3. pc[h] \in {"exists", "get", "route", "restore", "set_installed", "done"}
        BY <3>1, <4>2 DEF Way
      <4> QED
        BY <1>3, <3>2, <4>2, <4>3 DEF Course
    <3>3. CASE mem[h].task # "reconcile"
      <4>1. Destination(h)' = Destination(h)
        BY <1>3, <3>3 DEF Destination
      <4> QED
        BY <1>3, <1>6, <3>1, <4>1, OutsideKeepsCourse
    <3> QED
      BY <3>2, <3>3
  <2> QED
    BY <2>3, <2>4
<1> QED
  BY <1>6, <1>9, <1>10, <1>11, <1>12, OutsideKeepsOrderly

LEMMA DeleteKeepsOrderly ==
  ASSUME World, NEW b \in Bridges, DeleteObject(b)
  PROVE  Orderly'
<1>0. TypeOK /\ Orderly
  BY DEF World, BridgeInv
<1>1. ObjectTyped /\ KopfTyped
  BY <1>0, TypesSplit
<1>2. /\ phase[b] = "present" /\ phase' = [phase EXCEPT ![b] = "deleting"]
      /\ todo' = [todo EXCEPT ![b] = {"delete"}]
      /\ UNCHANGED <<state, wasActive, dest, endpoint, handled, table, rules, ready, pc, mem>>
  BY DEF DeleteObject, cluster
<1>3. phase'[b] = "deleting" /\ todo'[b] = {"delete"}
  BY <1>1, <1>2 DEF ObjectTyped, KopfTyped
<1>4. Outside(b)
  BY <1>1, <1>2 DEF Outside, ObjectTyped, KopfTyped
<1>5. Life(b) /\ (Kept(b) => Good(b))
      /\ \A h \in HandlersOf(b) : Started(h) /\ (Working(h) => Way(h) /\ Course(h))
  BY <1>0 DEF Orderly, Fine
<1>6. /\ RuleOf(b)' = RuleOf(b) /\ RoutesOf(b)' = RoutesOf(b) /\ (Creating(b)' <=> Creating(b))
      /\ (Ruled(b) => Ruled(b)') /\ \A h : Keeps(h)' <=> Keeps(h)
  BY <1>4, OutsideKeepsViews
<1>7. Life(b)'
  BY <1>2, <1>3, <1>5, <1>6 DEF Life
<1>8. RuleLeads(b)'
  BY <1>3 DEF RuleLeads
<1>9. ASSUME Kept(b)' PROVE Good(b)'
  <2>1. Kept(b)
    BY <1>2, <1>6, <1>9, HandlersKnown DEF Kept
  <2>2. LeadsToAny(b, {dest[b], handled[b]}) => LeadsToAny(b, {dest[b], handled[b]})'
    BY <1>2, <1>6 DEF LeadsToAny
  <2> QED
    BY <1>2, <1>5, <1>6, <2>1, <2>2 DEF Good
<1>10. ASSUME NEW h \in HandlersOf(b)
       PROVE  Started(h)' /\ (Working(h) => Course(h)')
  <2>1. Started(h) /\ Of(h) = b
    BY <1>5, HandlersKnown
  <2>2. Started(h)'
    BY <1>2, <1>3, <2>1 DEF Started
  <2>3. Destination(h)' = Destination(h)
    BY <1>2 DEF Destination
  <2> QED
    BY <1>2, <1>4, <1>5, <2>2, <2>3, OutsideKeepsCourse
<1> QED
  BY <1>4, <1>7, <1>8, <1>9, <1>10, OutsideKeepsOrderly

LEMMA FinalizerKeepsOrderly ==
  ASSUME World, NEW b \in Bridges, RemoveFinalizer(b)
  PROVE  Orderly'
<1>0. TypeOK /\ Orderly
  BY DEF World, BridgeInv
<1>1. ObjectTyped
  BY <1>0, TypesSplit
<1>2. /\ phase[b] = "deleting" /\ todo[b] = {} /\ phase' = [phase EXCEPT ![b] = "gone"]
      /\ UNCHANGED <<state, wasActive, dest, endpoint, handled, todo, table, rules, ready, pc, mem>>
  BY DEF RemoveFinalizer, cluster, kopf
<1>3. phase'[b] = "gone"
  BY <1>1, <1>2 DEF ObjectTyped
<1>4. Outside(b)
  BY <1>1, <1>2 DEF Outside, ObjectTyped
<1>5. Life(b)
  BY <1>0 DEF Orderly, Fine
<1>6. \A h \in HandlersOf(b) : pc'[h] = "idle" /\ ~Working(h)
  BY <1>2, HandlersKnown DEF RemoveFinalizer, Working
<1>7. Creating(b)' <=> Creating(b)
  BY <1>4, OutsideKeepsViews
<1>8. Life(b)'
  BY <1>2, <1>3, <1>5, <1>7 DEF Life
<1>9. RuleLeads(b)' /\ ~Kept(b)'
  BY <1>2, <1>3 DEF RuleLeads, Kept
<1>10. \A h \in HandlersOf(b) : Started(h)'
  BY <1>6 DEF Started
<1> QED
  BY <1>4, <1>6, <1>8, <1>9, <1>10, OutsideKeepsOrderly

LEMMA CauseKeepsOrderly ==
  ASSUME World, NEW b \in Bridges, StartCause(b)
  PROVE  Orderly'
<1>0. TypeOK /\ Orderly
  BY DEF World, BridgeInv
<1>1. PICK task \in todo[b] : Start(b, "worker", task)
  BY DEF StartCause
<1>2. task \in {"create", "delete"} /\ UNCHANGED <<object, kopf, cluster, lock>>
  BY <1>0, TypesSplit DEF StartCause, KopfTyped
<1>3. Life(b) /\ (Kept(b) => Good(b))
  BY <1>0 DEF Orderly, Fine
<1>4. phase[b] \in {"present", "deleting"} /\ (task = "delete" => "delete" \in todo[b])
  BY <1>2, <1>3 DEF Life
<1>5. ASSUME task = "create" PROVE handled[b] = NoDest /\ state[b] = "REQUESTED"
  <2>1. handled[b] = NoDest /\ phase[b] = "present"
    BY <1>3, <1>5 DEF Life
  <2>2. pc[<<b, "worker">>] = "idle"
    BY <1>1 DEF Start
  <2>3. pc[<<b, "timer">>] = "idle"
    BY <1>3, <2>1, <2>2 DEF Life, Creating
  <2>4. Kept(b)
    BY <2>1, <2>2, <2>3, HandlersKnown DEF Kept, Keeps, Working
  <2> QED
    BY <1>3, <2>1, <2>4 DEF Good
<1> QED
  BY <1>1, <1>2, <1>4, <1>5, StartKeepsOrderly DEF Tasks

LEMMA UpdateKeepsOrderly ==
  ASSUME World, NEW b \in Bridges, StartUpdate(b)
  PROVE  Orderly'
<1>0. TypeOK /\ Orderly
  BY DEF World, BridgeInv
<1>1. /\ phase[b] = "present" /\ todo[b] = {} /\ handled[b] # dest[b]
      /\ UNCHANGED <<object, todo, cluster, lock>>
  BY DEF StartUpdate
<1>2. Life(b) /\ RuleLeads(b) /\ (Kept(b) => Good(b))
      /\ \A h \in HandlersOf(b) : Started(h) /\ (Working(h) => Way(h) /\ Course(h))
  BY <1>0 DEF Orderly, Fine
<1>3. handled[b] # NoDest
  BY <1>1, <1>2 DEF Life
<1>4. CASE state[b] = "ACTIVE"
  <2>1. Start(b, "worker", "update") /\ UNCHANGED kopf
    BY <1>1, <1>4 DEF StartUpdate, kopf
  <2> QED
    BY <1>1, <1>3, <2>1, StartKeepsOrderly DEF Tasks
<1>5. CASE state[b] # "ACTIVE"
  <2>1. /\ pc[<<b, "worker">>] = "idle" /\ handled' = [handled EXCEPT ![b] = dest[b]]
        /\ UNCHANGED <<phase, state, wasActive, dest, endpoint, todo, table, rules, ready, pc, mem>>
    BY <1>1, <1>5 DEF StartUpdate, object, cluster
  <2>2. handled'[b] = dest[b] /\ Outside(b)
    BY <1>0, <2>1, TypesSplit DEF Outside, KopfTyped
  <2>3. dest[b] \in DestsOf[b] /\ dest[b] # NoDest
    BY <1>1, <1>2, BridgeAssumption, AbsentAssumption DEF Life
  <2>4. /\ RuleOf(b)' = RuleOf(b) /\ RoutesOf(b)' = RoutesOf(b) /\ \A h : Keeps(h)' <=> Keeps(h)
    BY <2>2, OutsideKeepsViews
  <2>5. Life(b)'
    BY <1>1, <1>2, <2>1, <2>2, <2>3, <2>4 DEF Life
  <2>6. RuleLeads(b)'
    <3>1. Leftover(TargetOf[b])' <=> Leftover(TargetOf[b])
      BY <2>1 DEF Leftover
    <3> QED
      BY <1>2, <2>1, <2>4, <3>1 DEF RuleLeads
  <2>7. ~Kept(b)
    BY <1>2, <1>3, <1>5 DEF Good
  <2>8. ~Kept(b)'
    BY <2>1, <2>4, <2>7, HandlersKnown DEF Kept
  <2>9. ASSUME NEW h \in HandlersOf(b)
        PROVE  Started(h)' /\ (Working(h) => Course(h)')
    <3>1. CASE h = <<b, "worker">>
      BY <2>1, <3>1 DEF Started, Working
    <3>2. CASE h = <<b, "timer">>
      <4>1. pc[h] # "idle" => mem[h].task = "reconcile"
        BY ZenonT(40), <1>2, <3>2, HandlersKnown DEF Started
      <4>2. Started(h)'
        BY <1>2, <2>1, <4>1, HandlersKnown DEF Started
      <4>3. ASSUME Working(h) PROVE Course(h)'
        <5>1. mem[h].task = "reconcile" /\ Course(h)
          BY <1>2, <4>1, <4>3 DEF Working
        <5>2. Destination(h)' = Destination(h)
          BY <2>1, <5>1 DEF Destination
        <5> QED
          BY <2>2, <5>1, <5>2, OutsideKeepsCourse
      <4> QED
        BY <4>2, <4>3
    <3> QED
      BY <3>1, <3>2, HandlersKnown
  <2> QED
    BY <2>2, <2>5, <2>6, <2>8, <2>9, OutsideKeepsOrderly
<1> QED
  BY <1>4, <1>5

LEMMA TimerKeepsOrderly ==
  ASSUME World, NEW b \in Bridges, StartTimer(b)
  PROVE  Orderly'
  BY StartKeepsOrderly DEF StartTimer, Tasks

-----------------------------------------------------------------------------
(* What cannot happen before a call fails, and what a failure is counted   *)
(* by.                                                                     *)
LEMMA NothingGoesWrong ==
  ASSUME World, NEW h \in Procs
  PROVE  /\ ~Raise(h) /\ ~Impair(h)
         /\ PersistFails(h) \/ CallFails(h) => faults' = faults + 1
         /\ AddFails(h) => MayFail /\ faults' = faults + 1
         /\ \A t \in Targets : ~PodReturns(t)
<1>1. Orderly /\ (Working(h) => Way(h) /\ Started(h))
  BY FineOf DEF World
<1>2. ASSUME Raise(h) \/ Impair(h) PROVE FALSE
  <2>1. pc[h] \in {"raised", "impair"} /\ Working(h) /\ pc[h] # "idle"
    BY <1>2 DEF Raise, Impair, Working
  <2>2. mem[h].task \in {"create", "update", "delete", "reconcile"}
    <3>1. h = <<Of(h), "worker">> \/ h = <<Of(h), "timer">>
      BY <1>1, FineOf
    <3> QED
      BY <1>1, <2>1, <3>1 DEF Started
  <2>3. mem[h].goal \in {"setup", "probe", "teardown"}
    BY TypesSplit DEF World, BridgeInv, ProcsTyped, Memory, Goals
  <2> QED
    BY <1>1, <2>1, <2>2, <2>3 DEF Way
<1>3. AddFails(h) => MayFail /\ faults' = faults + 1
  BY AddHasPort DEF AddFails
<1>4. \A t \in Targets : ~PodReturns(t)
  BY <1>1 DEF Orderly, AllReady, PodReturns
<1>5. PersistFails(h) \/ CallFails(h) => faults' = faults + 1
  BY DEF PersistFails, CallFails
<1> QED
  BY <1>2, <1>3, <1>4, <1>5

LEMMA FailureIsCounted ==
  ASSUME TypeOK, faults' = faults + 1 \/ restarts' = restarts + 1
  PROVE  ~Undisturbed'
<1>1. faults \in 0..MaxFaults /\ restarts \in 0..MaxRestarts
  BY TypesSplit DEF BoundsTyped
<1> QED
  BY <1>1, BoundAssumption DEF Undisturbed

LEMMA WasUndisturbed ==
  ASSUME TypeOK, [Next]_vars, Undisturbed'
  PROVE  Undisturbed
<1> DEFINE Counted == faults' = faults + 1 \/ restarts' = restarts + 1
           Kind == UNCHANGED <<faults, restarts>> /\ (crossed => crossed')
<1>1. Counted \/ Kind
  <2>1. ASSUME NEW h \in Procs, Enter(h) \/ Step(h) PROVE Counted \/ Kind
    <3>1. CASE AddFails(h) \/ Remove(h) \/ PersistFails(h) \/ CallFails(h)
      BY <3>1 DEF AddFails, Remove, PersistFails, CallFails
    <3>2. CASE ~(AddFails(h) \/ Remove(h) \/ PersistFails(h) \/ CallFails(h))
      <4>1. CASE Enter(h) \/ Finish(h) \/ Raise(h)
        BY <4>1 DEF Enter, Finish, Raise, bounds
      <4>2. CASE Install(h) \/ Restore(h) \/ SetInstalled(h) \/ Activated(h) \/ Establish(h) \/ Impair(h)
        BY <4>2 DEF Install, Restore, SetInstalled, Activated, Establish, Impair, Persist, bounds
      <4>3. CASE \/ Exists(h) \/ Get(h) \/ Add(h) \/ WriteEndpoint(h)
                 \/ CheckRoute(h) \/ ListBridges(h) \/ Commit(h)
        BY <4>3 DEF Exists, Get, Add, WriteEndpoint, CheckRoute, ListBridges, Commit, bounds
      <4> QED
        BY <2>1, <3>2, <4>1, <4>2, <4>3 DEF Step
    <3> QED
      BY <3>1, <3>2
  <2>2. ASSUME NEW b \in Bridges, Dispatch(b) \/ StartTimer(b) \/ Users(b) PROVE Counted \/ Kind
    <3>1. CASE EditDestination(b)
      <4>1. UNCHANGED <<faults, restarts>> /\ crossed' = (crossed \/ Crosses(b))
        BY <3>1 DEF EditDestination
      <4>2. crossed => crossed'
        BY <4>1, Zenon
      <4> QED
        BY <4>1, <4>2
    <3>2. CASE ~EditDestination(b)
      BY <2>2, <3>2 DEF Dispatch, StartCause, StartUpdate, RemoveFinalizer, StartTimer, Users,
         CreateObject, CreateAt, DeleteObject, bounds
    <3> QED
      BY <3>1, <3>2
  <2>3. CASE (\E t \in Targets : PodGoes(t) \/ PodReturns(t)) \/ Restart \/ UNCHANGED vars
    BY <2>3 DEF PodGoes, PodReturns, Restart, bounds, vars
  <2> QED
    BY <2>1, <2>2, <2>3 DEF Next, Operator
<1>2. Kind
  BY <1>1, FailureIsCounted
<1> QED
  BY <1>1, <1>2 DEF Undisturbed

-----------------------------------------------------------------------------
LEMMA InitIsCalm == Init => CalmInv
<1> SUFFICES ASSUME Init PROVE Orderly
  BY DEF CalmInv
<1> USE DEF Init
<1>1. table = {}
  BY DEF Table!Init
<1>2. \A b \in Bridges : RoutesOf(b) = {}
  BY <1>1 DEF RoutesOf
<1>3. AllReady /\ Elsewhere /\ Apart
  BY <1>1, <1>2 DEF AllReady, Elsewhere, Apart, NoRules
<1>4. \A h \in Procs : ~Working(h) /\ pc[h] = "idle"
  BY DEF Working
<1>5. ASSUME NEW b \in Bridges PROVE Fine(b)
  <2>1. RuleOf(b) = NoPort
    BY BridgeAssumption DEF RuleOf, NoRules
  <2>2. Life(b) /\ RuleLeads(b) /\ Good(b)
    BY <1>4, <2>1, ProcsOf DEF Life, RuleLeads, Good
  <2>3. \A h \in HandlersOf(b) : Started(h) /\ ~Working(h)
    BY <1>4, HandlersKnown DEF Started
  <2> QED
    BY <2>2, <2>3 DEF Fine
<1> QED
  BY <1>3, <1>4, <1>5 DEF Orderly

LEMMA StepKeepsOrderly ==
  ASSUME World, NEW h \in Procs, Step(h), Undisturbed'
  PROVE  Orderly'
<1>1. ~Raise(h) /\ ~Impair(h) /\ ~AddFails(h) /\ ~PersistFails(h) /\ ~CallFails(h)
  BY NothingGoesWrong, FailureIsCounted DEF World, BridgeInv
<1>2. CASE Remove(h)
  <2>1. faults' = faults
    BY <1>2, FailureIsCounted DEF World, BridgeInv, Remove
  <2> QED
    BY <1>2, <2>1, RemoveKeepsOrderly
<1> QED
  BY <1>1, <1>2, FinishKeepsOrderly, MachineKeepsOrderly, ExistsKeepsOrderly, GetKeepsOrderly,
     AddKeepsOrderly, EndpointKeepsOrderly, CheckRouteKeepsOrderly, ListKeepsOrderly,
     CommitKeepsOrderly DEF Step

LEMMA NextKeepsCalm == BridgeInv /\ CalmInv /\ [Next]_vars => CalmInv'
<1> SUFFICES ASSUME BridgeInv, CalmInv, [Next]_vars, Unshared, PortsSuffice, Undisturbed'
             PROVE  Orderly'
  BY DEF CalmInv, Unshared, PortsSuffice
<1>1. TypeOK /\ Undisturbed
  BY WasUndisturbed DEF BridgeInv
<1>2. World
  BY <1>1 DEF World, CalmInv
<1>3. CASE \E h \in Procs : Enter(h) \/ Step(h)
  BY <1>2, <1>3, EnterKeepsOrderly, StepKeepsOrderly
<1>4. CASE \E b \in Bridges : Dispatch(b) \/ StartTimer(b) \/ Users(b)
  <2>1. ~crossed'
    BY DEF Undisturbed
  <2> QED
    BY <1>2, <1>4, <2>1, CauseKeepsOrderly, UpdateKeepsOrderly, FinalizerKeepsOrderly,
       TimerKeepsOrderly, CreateKeepsOrderly, EditKeepsOrderly, DeleteKeepsOrderly
    DEF Dispatch, Users
<1>5. ASSUME (\E t \in Targets : PodGoes(t) \/ PodReturns(t)) \/ Restart PROVE FALSE
  <2>1. ~(\E t \in Targets : PodGoes(t)) /\ ~Restart
    BY <1>1, FailureIsCounted DEF PodGoes, Restart
  <2>2. ASSUME NEW t \in Targets, PodReturns(t) PROVE FALSE
    BY <1>2, <2>2 DEF World, Orderly, AllReady, PodReturns
  <2> QED
    BY <1>5, <2>1, <2>2
<1>6. CASE UNCHANGED vars
  <2>1. CASE Bridges = {}
    BY <2>1, <1>2, <1>6 DEF Orderly, AllReady, Apart, Elsewhere, Procs, World, vars
  <2>2. ASSUME NEW b \in Bridges PROVE Orderly'
    <3>1. Outside(b) /\ UNCHANGED <<phase, dest, handled, todo>>
      BY <1>6 DEF Outside, vars
    <3>2. Life(b) /\ RuleLeads(b) /\ (Kept(b) => Good(b))
          /\ \A h \in HandlersOf(b) : Started(h) /\ (Working(h) => Way(h) /\ Course(h))
      BY <1>2 DEF World, Orderly, Fine
    <3>3. Life(b)' /\ RuleLeads(b)' /\ (Kept(b)' => Good(b)')
      BY <1>6, <3>2, HandlersKnown DEF vars, Life, Creating, RuleLeads, RuleOf, RoutesOf, Leftover,
         Kept, Keeps, Working, Good, Ruled, LeadsToAny
    <3>4. ASSUME NEW h \in HandlersOf(b) PROVE Started(h)' /\ (Working(h) => Course(h)')
      <4>1. Started(h)'
        BY <1>6, <3>2 DEF vars, Started
      <4>2. Destination(h)' = Destination(h)
        BY <1>6 DEF vars, Destination
      <4> QED
        BY <3>1, <3>2, <4>1, <4>2, OutsideKeepsCourse
    <3> QED
      BY <1>2, <3>1, <3>3, <3>4, OutsideKeepsOrderly
  <2> QED
    BY <2>1, <2>2
<1> QED
  BY <1>3, <1>4, <1>5, <1>6 DEF Next, Operator

(* Until a call fails and unless an edit crosses a handler, every object,  *)
(* handler, route and rule is where its course has brought it.             *)
THEOREM CalmInvariant == Spec => []CalmInv
  BY BridgeInvariant, InitIsCalm, NextKeepsCalm, PTL DEF Spec

(* A bridge that says ACTIVE, while no handler works on its target, has    *)
(* its endpoint in the Carrier, and a route leads from there to its        *)
(* client: whatever its siblings, its timer and its user have been doing.  *)
THEOREM ActiveBridgesAreServed ==
  Unshared /\ PortsSuffice => (Spec => []ActiveIsServed)
<1> SUFFICES ASSUME Unshared, PortsSuffice PROVE Spec => []ActiveIsServed
  OBVIOUS
<1>1. BridgeInv /\ CalmInv => ActiveIsServed
  <2> SUFFICES ASSUME BridgeInv, Undisturbed, Orderly, NEW b \in Bridges,
                      phase[b] = "present", state[b] = "ACTIVE",
                      lock[TargetOf[b]] = Nobody, ~Leftover(TargetOf[b])
               PROVE  Served(b)
    BY DEF CalmInv, ActiveIsServed
  <2>1. \A h \in HandlersOf(b) : ~Working(h)
    <3> SUFFICES ASSUME NEW h \in HandlersOf(b), Working(h) PROVE FALSE
      OBVIOUS
    <3>1. h \in Procs /\ Target(h) = TargetOf[b]
      BY HandlersKnown
    <3>2. lock[TargetOf[b]] = h
      BY <3>1 DEF BridgeInv, Locked
    <3> QED
      BY <3>1, <3>2, AbsentAssumption DEF Procs
  <2>2. Good(b)
    BY <2>1 DEF Orderly, Fine, Kept, Keeps
  <2>3. Ruled(b) /\ LeadsToAny(b, {dest[b], handled[b]})
    BY <2>2 DEF Good
  <2>4. rules[TargetOf[b]][b] = endpoint[b]
    BY <2>3 DEF Ruled, RuleOf
  <2>5. \E r \in table : /\ r.port = endpoint[b] /\ r.peer = ClientOf[b]
                         /\ r.dest \in {dest[b], handled[b]}
    BY <2>3 DEF LeadsToAny, RoutesOf, Orderly, Apart
  <2> QED
    BY <2>4, <2>5 DEF Served
<1> QED
  BY <1>1, BridgeInvariant, CalmInvariant, PTL

(* When the delete handler of a bridge returns, its rule is out of the     *)
(* Carrier and its route out of Stowaway, also if siblings on the target   *)
(* have been set up and torn down meanwhile.                               *)
THEOREM DeleteLeavesNothing ==
  Unshared /\ PortsSuffice => (Spec => []DeleteTearsDown)
<1> SUFFICES ASSUME Unshared, PortsSuffice PROVE Spec => []DeleteTearsDown
  OBVIOUS
<1>1. BridgeInv /\ CalmInv => DeleteTearsDown
  <2> SUFFICES ASSUME BridgeInv, Undisturbed, Orderly, NEW b \in Bridges,
                      pc[<<b, "worker">>] = "done", mem[<<b, "worker">>].task = "delete",
                      handled[b] = mem[<<b, "worker">>].dest
               PROVE  rules[TargetOf[b]][b] = NoPort /\ OwnRoutes(<<b, "worker">>) = {}
    BY DEF CalmInv, DeleteTearsDown
  <2> DEFINE h == <<b, "worker">>
  <2>1. h \in Procs /\ Of(h) = b /\ Working(h) /\ World
    BY ProcsOf DEF Working, World
  <2>2. Course(h) /\ Destination(h) = mem[h].dest
    BY <2>1, FineOf DEF Destination
  <2>3. RuleOf(b) = NoPort /\ \A r \in RoutesOf(b) : r.dest # mem[h].dest
    BY <2>1, <2>2 DEF Course
  <2>4. OwnRoutes(h) = {}
    <3>1. \A r : r \notin OwnRoutes(h)
      BY <2>1, <2>2, <2>3, OwnRoutesAre
    <3> QED
      BY <3>1
  <2> QED
    BY <2>3, <2>4 DEF RuleOf
<1> QED
  BY <1>1, BridgeInvariant, CalmInvariant, PTL

(* No rule of the Carrier leads two bridges of different clients to one    *)
(* port of Stowaway: what a handler has listed from the objects, and       *)
(* commits later, is never out of step with the ports in use.              *)
THEOREM ClientsAreApart ==
  Unshared /\ PortsSuffice => (Spec => []RulesApart)
<1> SUFFICES ASSUME Unshared, PortsSuffice PROVE Spec => []RulesApart
  OBVIOUS
<1>1. CalmInv => RulesApart
  <2> SUFFICES ASSUME Undisturbed, Orderly, NEW t \in Targets, NEW a \in Bridges, NEW b \in Bridges,
                      phase[a] = "present", phase[b] = "present", ClientOf[a] # ClientOf[b],
                      rules[t][a] # NoPort, ~Leftover(t), rules[t][a] = rules[t][b]
               PROVE  FALSE
    BY DEF CalmInv, RulesApart
  <2>1. TargetOf[a] = t /\ TargetOf[b] = t
    BY DEF Orderly, Elsewhere
  <2>2. RuleLeads(a) /\ RuleLeads(b)
    BY DEF Orderly, Fine
  <2>3. PICK r \in RoutesOf(a) : r.port = rules[t][a]
    BY <2>1, <2>2 DEF RuleLeads, RuleOf
  <2>4. PICK s \in RoutesOf(b) : s.port = rules[t][a]
    BY <2>1, <2>2 DEF RuleLeads, RuleOf
  <2>5. r = s
    BY <2>3, <2>4 DEF Orderly, Apart, RoutesOf
  <2> QED
    BY <2>5 DEF Orderly, Apart
<1> QED
  BY <1>1, CalmInvariant, PTL
=============================================================================
