----------------------- MODULE ClientConnection_proof -----------------------
(***************************************************************************)
(* Proofs about GefyraClient and ClientConnection, for any number of       *)
(* clients, subnets, commands and faults: the types of both, and that the  *)
(* edits of Stowaway's peers, which share no lock, never lose one          *)
(* (ConnectionInv).                                                        *)
(*                                                                         *)
(* Then, what users can rely on when no call fails: a client that says     *)
(* ACTIVE is a peer with a working tunnel, one that is disconnected or     *)
(* gone is a peer no more, whatever the handlers of other clients and      *)
(* other users' commands do in between.                                    *)
(***************************************************************************)
EXTENDS ClientConnection, TLAPS

Goals  == {"none", "create", "enable", "disable", "terminate"}
Memory == [task : {"none", "create", "change", "delete", "reconcile"}, goal : Goals,
           state : States, param : Subnets \cup {NoSubnet}, snap : SUBSET Clients]

(* The process is inside a handler, and past its lock if it takes one. *)
Working(h) == pc[h] \notin {"idle", "lock"}

(* Only enable adds a peer, and it does so under the lock. *)
EnableLocked == \A h \in Procs : Working(h) /\ mem[h].goal = "enable" => lock = h

(* The calls that a handler with another goal never comes to. *)
PeerCalls == {"peer?", "read", "replace", "rm", "restart", "await pod"}
Fits(goal, call) ==
  /\ call \in PeerCalls => goal \in {"enable", "disable", "terminate"}
  /\ call = "patch" => goal = "enable"
  /\ call = "disabling" => goal = "disable"

AtGoal(h) == Fits(mem[h].goal, pc[h])

(* What is going to be written has all the present peers in it, whoever    *)
(* else has been taken out meanwhile. *)
NothingToLose == \A h \in Procs : pc[h] = "patch" => peers \subseteq mem[h].snap

ClientInv ==
  /\ TypeOK
  /\ EnableLocked
  /\ \A h \in Procs : AtGoal(h)
  /\ NothingToLose

(* A machine is somewhere only with a command.  Where connect uses its     *)
(* network it has one. *)
Ats == {"idle", "client", "network", "stop cargo", "state?", "activate", "deactivate", "await",
        "save", "start cargo", "probe", "rm cargo", "ok", "failed"}

UsesNet == {"stop cargo", "state?", "activate", "deactivate", "await", "save"}

MachineInv(c) ==
  /\ at[c] # "idle" => cmd[c] # "none"
  /\ commands[c] \in 0..MaxCommands[c]
  /\ cmd[c] = "connect" /\ at[c] \in UsesNet => net[c] \in Subnets
  /\ at[c] = "activate" => cmd[c] = "connect"

MachineTyped ==
  /\ cmd \in [Clients -> Commands \cup {"none"}]
  /\ at \in [Clients -> Ats]
  /\ net \in [Clients -> Subnets \cup {NoSubnet}]
  /\ commands \in [Clients -> Nat]

LocalTyped ==
  /\ banned \in [Clients -> SUBSET Subnets]
  /\ cargo \in [Clients -> {"none", "stopped", "running"}]
  /\ joined \in [Clients -> BOOLEAN]
  /\ keys \in [Clients -> SUBSET {"object", "conf", "cargo"}]

CommandInv == MachineTyped /\ LocalTyped /\ \A c \in Clients : MachineInv(c)

-----------------------------------------------------------------------------
(* The types of GefyraClient, in parts.                                    *)

ObjectTyped ==
  /\ phase \in [Clients -> {"absent", "present", "deleting", "gone"}]
  /\ state \in [Clients -> States]
  /\ param \in [Clients -> Subnets \cup {NoSubnet}]
  /\ config \in [Clients -> BOOLEAN]
  /\ handled \in [Clients -> Subnets \cup {NoSubnet}]
  /\ todo \in [Clients -> SUBSET {"create", "delete"}]

ClusterTyped ==
  /\ account \in [Clients -> SUBSET {"account", "binding", "token"}]
  /\ bridged \in [Clients -> BOOLEAN]
  /\ peers \subseteq Clients
  /\ allowed \in [Clients -> Subnets \cup {NoSubnet}]
  /\ fresh \subseteq Procs
  /\ pod \in {"none", "starting", "ready"} /\ loaded \subseteq Clients
  /\ faults \in 0..MaxFaults /\ failed \subseteq Clients

ProcsTyped ==
  /\ lock \in Procs \cup {Nobody}
  /\ pc \in [Procs -> Pcs]
  /\ mem \in [Procs -> Memory]
  /\ \A h \in Procs : mem[h].goal = "enable" => mem[h].param \in Subnets

LEMMA TypesSplit == TypeOK <=> ObjectTyped /\ ClusterTyped /\ ProcsTyped
  BY DEF TypeOK, ObjectTyped, ClusterTyped, ProcsTyped, Memory, Goals

LEMMA TypesJoin ==
  ASSUME ObjectTyped', ClusterTyped', ProcsTyped'
  PROVE  TypeOK'
  BY DEF TypeOK, ObjectTyped, ClusterTyped, ProcsTyped, Memory, Goals

LEMMA ProcOfClient == \A h \in Procs : Of(h) \in Clients
  BY DEF Procs, Of

LEMMA ProcsOf == \A c \in Clients : <<c, "worker">> \in Procs /\ <<c, "timer">> \in Procs
                                   /\ Of(<<c, "worker">>) = c /\ Of(<<c, "timer">>) = c
  BY DEF Procs, Of

LEMMA IdleTyped == Idle \in Memory /\ Idle.goal = "none"
  BY DEF Idle, Memory, Goals, States

LEMMA FaultIsCounted ==
  ASSUME faults \in 0..MaxFaults, faults' = faults \/ Fault
  PROVE  faults' \in 0..MaxFaults
  BY LimitAssumption DEF Fault

-----------------------------------------------------------------------------
(* What every step inside a handler has in common.                         *)

(* It goes on, or it ends and lets the lock go. *)
MovesOn(h) ==
  /\ Working(h)
  /\ pc' = [pc EXCEPT ![h] = pc'[h]] /\ pc'[h] \in Pcs
  /\ mem' = [mem EXCEPT ![h] = mem'[h]] /\ mem'[h] \in Memory
  /\ AtGoal(h)'
  /\ \/ /\ Working(h)'
        /\ lock' = lock
        /\ mem'[h].goal = mem[h].goal /\ mem'[h].param = mem[h].param
     \/ /\ pc'[h] = "idle"
        /\ lock' = IF lock = h THEN Nobody ELSE lock
        /\ mem'[h] = Idle

(* It adds its client to the peers it has read, or takes it out of those   *)
(* there are. *)
EditsPeers(h) ==
  /\ \/ peers' = peers
     \/ pc[h] = "patch" /\ peers' = mem[h].snap \cup {Of(h)}
     \/ pc[h] = "replace" /\ pc'[h] # "replace" /\ peers' = peers \ {Of(h)}
  /\ pc'[h] = "patch" => mem'[h].snap = peers /\ peers' = peers

HandlerStep(h) == MovesOn(h) /\ EditsPeers(h) /\ ObjectTyped' /\ ClusterTyped' /\ param' = param

(* Two handlers that enable are one. *)
LEMMA OneEnables ==
  ASSUME EnableLocked, NEW g \in Procs, NEW h \in Procs, Working(g), Working(h),
         mem[g].goal = "enable", mem[h].goal = "enable"
  PROVE  g = h
  BY DEF EnableLocked

LEMMA HandlerStepKeepsInv ==
  ASSUME ClientInv, NEW h \in Procs, HandlerStep(h)
  PROVE  ClientInv'
<1> USE TypesSplit DEF ClientInv, HandlerStep
<1>1. \A g \in Procs \ {h} : pc'[g] = pc[g] /\ mem'[g] = mem[g]
  BY DEF MovesOn, ProcsTyped
<1>2. TypeOK'
  <2>1. ProcsTyped'
    BY IdleTyped DEF MovesOn, ProcsTyped
  <2> QED
    BY <2>1, TypesJoin
<1>3. EnableLocked'
  <2> SUFFICES ASSUME NEW g \in Procs, Working(g)', mem'[g].goal = "enable"
               PROVE  lock' = g
    BY DEF EnableLocked
  <2>1. CASE g = h
    BY <2>1, IdleTyped DEF MovesOn, EnableLocked, Working
  <2>2. CASE g # h
    BY <1>1, <2>2 DEF MovesOn, EnableLocked, Working
  <2> QED
    BY <2>1, <2>2
<1>4. \A g \in Procs : AtGoal(g)'
  BY <1>1 DEF MovesOn, AtGoal
<1>5. NothingToLose'
  <2> SUFFICES ASSUME NEW g \in Procs, pc'[g] = "patch"
               PROVE  peers' \subseteq mem'[g].snap
    BY DEF NothingToLose
  <2>1. CASE g = h
    BY <2>1 DEF EditsPeers
  <2>2. CASE g # h
    <3>1. pc[g] = "patch" /\ mem'[g].snap = mem[g].snap /\ peers \subseteq mem[g].snap
      BY <1>1, <2>2 DEF NothingToLose
    <3>2. pc[h] # "patch"
      BY <2>2, <3>1, OneEnables DEF AtGoal, Fits, Working
    <3> QED
      BY <3>1, <3>2 DEF EditsPeers
  <2> QED
    BY <2>1, <2>2
<1> QED
  BY <1>2, <1>3, <1>4, <1>5

(* No peer is lost by it. *)
LEMMA HandlerStepLosesNothing ==
  ASSUME ClientInv, NEW h \in Procs, HandlerStep(h), NEW c \in peers \ peers'
  PROVE  Of(h) = c /\ pc[h] = "replace" /\ pc'[h] # "replace"
  BY DEF ClientInv, HandlerStep, EditsPeers, NothingToLose

-----------------------------------------------------------------------------
(* Every step inside a handler is one of those.                            *)

LEMMA CallMoves ==
  ASSUME TypeOK, NEW h \in Procs, Working(h), NEW call \in Pcs \ {"idle", "lock"},
         Goto(h, call), mem' = mem, lock' = lock, Fits(mem[h].goal, call)
  PROVE  MovesOn(h) /\ pc'[h] = call
  BY TypesSplit DEF MovesOn, Goto, AtGoal, ProcsTyped, Working

LEMMA EndingStep ==
  ASSUME TypeOK, NEW h \in Procs, Finish(h) \/ Raise(h)
  PROVE  HandlerStep(h)
<1> USE TypesSplit, ProcOfClient DEF HandlerStep
<1>1. pc[h] \in {"done", "raised"} /\ Leave(h)
  BY DEF Finish, Raise
<1>2. MovesOn(h)
  BY <1>1, IdleTyped DEF Leave, Goto, MovesOn, ProcsTyped, Working, AtGoal, Fits, PeerCalls, Pcs
<1>3. EditsPeers(h) /\ param' = param
  BY <1>1 DEF Leave, Goto, EditsPeers, object, ProcsTyped
<1>4. ObjectTyped'
  <2>1. CASE Finish(h)
    <3>1. mem[h].param \in Subnets \cup {NoSubnet}
      BY DEF ProcsTyped, Memory
    <3>2. todo' = [todo EXCEPT ![Of(h)] = @ \ {mem[h].task}]
          /\ (handled' = handled \/ handled' = [handled EXCEPT ![Of(h)] = mem[h].param])
      BY <2>1 DEF Finish
    <3> QED
      BY <1>1, <3>1, <3>2 DEF Leave, object, ObjectTyped
  <2>2. CASE Raise(h)
    BY <1>1, <2>2 DEF Raise, Leave, object, kopf, ObjectTyped
  <2> QED
    BY <2>1, <2>2
<1>5. ClusterTyped'
  BY <1>1 DEF Leave, stowaway, bounds, ClusterTyped
<1> QED
  BY <1>2, <1>3, <1>4, <1>5

LEMMA PersistStep ==
  ASSUME TypeOK, NEW h \in Procs, AtGoal(h), Persist(h)
  PROVE  HandlerStep(h)
<1> USE TypesSplit, ProcOfClient DEF HandlerStep
<1>1. pc[h] \in {"created", "waiting", "enabling", "activate", "disabling"}
  BY DEF Persist, Machine
<1>2. Machine[pc[h]].to \in States
  BY <1>1 DEF Machine, States
<1>3. /\ Machine[pc[h]].then \in {"waiting", "done", "config?", "peer?"}
      /\ Machine[pc[h]].then = "peer?" => pc[h] = "disabling"
  BY <1>1 DEF Machine
<1>4. MovesOn(h) /\ pc'[h] = Machine[pc[h]].then
  BY <1>1, <1>3, CallMoves DEF Persist, Working, AtGoal, Fits, PeerCalls, Pcs
<1>5. ObjectTyped' /\ ClusterTyped' /\ EditsPeers(h) /\ param' = param
  BY <1>1, <1>2, <1>3, <1>4
  DEF Persist, kopf, peerMap, stowaway, bounds, ObjectTyped, ClusterTyped, EditsPeers
<1> QED
  BY <1>4, <1>5

(* The calls that leave peers and objects alone. *)
LEMMA AccountStep ==
  ASSUME TypeOK, NEW h \in Procs,
         \/ MakeAccount(h) \/ MakeBinding(h) \/ ReadToken(h) \/ PublishToken(h)
         \/ ReadAccount(h) \/ DeleteBinding(h) \/ DeleteAccount(h)
  PROVE  HandlerStep(h)
<1> USE TypesSplit, ProcOfClient DEF HandlerStep
<1>1. UNCHANGED <<object, kopf, bridged, peerMap, stowaway, lock, mem, bounds>> /\ Working(h)
  BY DEF MakeAccount, MakeBinding, ReadToken, PublishToken, ReadAccount, DeleteBinding,
     DeleteAccount, Working
<1>2. PICK call \in {"token", "binding", "publish token", "raised", "created",
                      "delete binding", "list", "delete account"} : Goto(h, call)
  BY DEF MakeAccount, MakeBinding, ReadToken, PublishToken, ReadAccount, DeleteBinding,
     DeleteAccount
<1>3. MovesOn(h) /\ pc'[h] = call
  BY <1>1, <1>2, CallMoves DEF Fits, PeerCalls, Pcs
<1>4. account' \in [Clients -> SUBSET {"account", "binding", "token"}]
  <2>0. account \in [Clients -> SUBSET {"account", "binding", "token"}]
    BY DEF ClusterTyped
  <2>1. CASE MakeAccount(h)
    BY ONLY <2>0, <2>1 DEF MakeAccount
  <2>2. CASE MakeBinding(h)
    BY ONLY <2>0, <2>2 DEF MakeBinding
  <2>3. CASE ReadToken(h) \/ PublishToken(h) \/ ReadAccount(h)
    BY ONLY <2>0, <2>3 DEF ReadToken, PublishToken, ReadAccount
  <2>4. CASE DeleteBinding(h) \/ DeleteAccount(h)
    BY ONLY <2>0, <2>4 DEF DeleteBinding, DeleteAccount
  <2> QED
    BY <2>1, <2>2, <2>3, <2>4
<1> QED
  BY <1>1, <1>2, <1>3, <1>4
  DEF object, kopf, peerMap, stowaway, bounds, ObjectTyped, ClusterTyped, EditsPeers

LEMMA AfterCalls ==
  ASSUME NEW h \in Procs, AtGoal(h), pc[h] \in PeerCalls \cup {"patch"}
  PROVE  /\ AfterPeer(h) \in {"enabling", "clear config", "read account"}
         /\ NoPod(h) \in {"delete object", "done", "raised"}
  BY DEF AtGoal, Fits, PeerCalls, AfterPeer, NoPod, Done

(* The calls about peers that write none. *)
LEMMA PeerStep ==
  ASSUME TypeOK, NEW h \in Procs, AtGoal(h),
         \/ AskPeer(h) \/ RemoveFiles(h) \/ RestartPod(h) \/ AwaitPod(h) \/ PodLate(h)
  PROVE  HandlerStep(h)
<1> USE TypesSplit, ProcOfClient DEF HandlerStep
<1>1. /\ UNCHANGED <<object, kopf, account, bridged, peerMap, lock, mem>>
      /\ pc[h] \in PeerCalls /\ Working(h)
  BY DEF AskPeer, RemoveFiles, RestartPod, AwaitPod, PodLate, PeerCalls, Working
<1>2. mem[h].goal \in {"enable", "disable", "terminate"}
  BY <1>1 DEF AtGoal, Fits
<1>3. PICK call \in {"enabling", "read", "waiting", "read account", "restart", "await pod",
                      "clear config", "delete object", "done", "raised"} : Goto(h, call)
  BY <1>1, <1>2, AfterCalls DEF AskPeer, RemoveFiles, RestartPod, AwaitPod, PodLate
<1>4. MovesOn(h) /\ pc'[h] = call
  BY <1>1, <1>2, <1>3, CallMoves DEF Fits, PeerCalls, Pcs
<1>5. (faults' = faults \/ Fault) /\ failed' = failed
  BY DEF AskPeer, RemoveFiles, RestartPod, AwaitPod, PodLate, bounds
<1>6. pod' \in {"none", "starting", "ready"} /\ loaded' \subseteq Clients
  BY DEF AskPeer, RemoveFiles, RestartPod, AwaitPod, PodLate, stowaway, ClusterTyped
<1> QED
  BY <1>1, <1>3, <1>4, <1>5, <1>6, FaultIsCounted
  DEF object, kopf, peerMap, ObjectTyped, ClusterTyped, EditsPeers

LEMMA ReadStep ==
  ASSUME TypeOK, NEW h \in Procs, AtGoal(h), ReadPeers(h)
  PROVE  HandlerStep(h)
<1> USE TypesSplit, ProcOfClient DEF HandlerStep
<1>1. mem[h].goal \in {"enable", "disable", "terminate"}
  BY DEF ReadPeers, AtGoal, Fits, PeerCalls
<1>2. PICK call \in {"restart", "patch", "replace", "rm"} :
         Goto(h, call) /\ (call = "patch" => mem[h].goal = "enable")
  BY DEF ReadPeers
<1>3. /\ mem' = [mem EXCEPT ![h] = mem'[h]] /\ mem'[h] \in Memory
      /\ mem'[h].goal = mem[h].goal /\ mem'[h].param = mem[h].param
      /\ mem'[h].snap = peers
  BY DEF ReadPeers, ProcsTyped, Memory, ClusterTyped
<1>4. pc' = [pc EXCEPT ![h] = call] /\ pc'[h] = call
  BY <1>2 DEF Goto, ProcsTyped
<1>5. MovesOn(h)
  BY <1>1, <1>2, <1>3, <1>4 DEF ReadPeers, MovesOn, AtGoal, Fits, PeerCalls, Pcs, Working
<1>6. EditsPeers(h) /\ param' = param
  BY <1>3 DEF ReadPeers, EditsPeers, object
<1>7. ObjectTyped' /\ ClusterTyped'
  BY DEF ReadPeers, object, kopf, stowaway, bounds, ObjectTyped, ClusterTyped
<1> QED
  BY <1>5, <1>6, <1>7

LEMMA WriteStep ==
  ASSUME TypeOK, NEW h \in Procs, AtGoal(h), PatchPeers(h) \/ ReplacePeers(h)
  PROVE  HandlerStep(h)
<1> USE TypesSplit, ProcOfClient DEF HandlerStep
<1>1. /\ UNCHANGED <<object, kopf, account, bridged, stowaway, lock, mem, bounds>>
      /\ pc[h] \in {"patch", "replace"} /\ Working(h)
  BY DEF PatchPeers, ReplacePeers, Working
<1>2. mem[h].goal \in {"enable", "disable", "terminate"}
  BY <1>1 DEF AtGoal, Fits, PeerCalls
<1>3. PICK call \in {"restart", "rm", "enabling", "clear config", "read account"} : Goto(h, call)
  BY <1>1, AfterCalls DEF PatchPeers, ReplacePeers, PeerCalls
<1>4. MovesOn(h) /\ pc'[h] = call
  BY <1>1, <1>2, <1>3, CallMoves DEF Fits, PeerCalls, Pcs
<1>5. EditsPeers(h)
  BY <1>3, <1>4 DEF PatchPeers, ReplacePeers, EditsPeers, peerMap
<1>6. /\ peers' \subseteq Clients /\ fresh' \subseteq Procs
      /\ allowed' \in [Clients -> Subnets \cup {NoSubnet}]
  BY DEF PatchPeers, ReplacePeers, peerMap, ClusterTyped, ProcsTyped, Memory
<1> QED
  BY <1>1, <1>4, <1>5, <1>6 DEF object, kopf, stowaway, bounds, ObjectTyped, ClusterTyped

(* The tunnel's configuration, the bridges and the object. *)
LEMMA ConnectionStep ==
  ASSUME TypeOK, NEW h \in Procs,
         \/ AskConfig(h) \/ CopyConfig(h) \/ WriteConfig(h)
         \/ ListBridges(h) \/ DeleteBridge(h) \/ DeleteEnded(h)
  PROVE  HandlerStep(h)
<1> USE TypesSplit, ProcOfClient DEF HandlerStep
<1>1. UNCHANGED <<param, handled, account, peerMap, stowaway, lock, mem, bounds>> /\ Working(h)
  BY DEF AskConfig, CopyConfig, WriteConfig, ListBridges, DeleteBridge, DeleteEnded,
     object, kopf, Working
<1>2. PICK call \in {"copy", "raised", "write config", "activate", "waiting", "delete bridge",
                      "disabling", "delete object", "done"} :
         Goto(h, call) /\ (call = "disabling" => mem[h].goal = "disable")
  BY DEF AskConfig, CopyConfig, WriteConfig, ListBridges, DeleteBridge, DeleteEnded,
     AfterBridges, Broken, Done
<1>3. MovesOn(h) /\ pc'[h] = call
  BY <1>1, <1>2, CallMoves DEF Fits, PeerCalls, Pcs
<1>4. ObjectTyped' /\ bridged' \in [Clients -> BOOLEAN]
  <2>1. CASE WriteConfig(h)
    BY <2>1 DEF WriteConfig, kopf, ObjectTyped, ClusterTyped
  <2>2. CASE DeleteEnded(h)
    <3>1. UNCHANGED <<state, param, config, handled, bridged>>
      BY <2>2 DEF DeleteEnded
    <3>2. /\ phase' = phase \/ phase' = [phase EXCEPT ![Of(h)] = "deleting"]
          /\ todo' = todo \/ todo' = [todo EXCEPT ![Of(h)] = {"delete"}]
      BY <2>2 DEF DeleteEnded, MarkDeleted
    <3>3. bridged' \in [Clients -> BOOLEAN]
      BY <3>1 DEF ClusterTyped
    <3>4. phase' \in [Clients -> {"absent", "present", "deleting", "gone"}]
      BY <3>2 DEF ObjectTyped
    <3>5. todo' \in [Clients -> SUBSET {"create", "delete"}]
      <4>1. {"delete"} \in SUBSET {"create", "delete"}
        OBVIOUS
      <4>2. todo \in [Clients -> SUBSET {"create", "delete"}] /\ Of(h) \in Clients
        BY DEF ObjectTyped
      <4> QED
        BY <3>2, <4>1, <4>2
    <3> QED
      BY <3>1, <3>3, <3>4, <3>5 DEF ObjectTyped
  <2>3. CASE DeleteBridge(h)
    BY <2>3 DEF DeleteBridge, object, kopf, ObjectTyped, ClusterTyped
  <2>4. CASE AskConfig(h) \/ CopyConfig(h) \/ ListBridges(h)
    BY <2>4 DEF AskConfig, CopyConfig, ListBridges, object, kopf, ObjectTyped, ClusterTyped
  <2> QED
    BY <2>1, <2>2, <2>3, <2>4
<1> QED
  BY <1>1, <1>2, <1>3, <1>4 DEF peerMap, stowaway, bounds, ClusterTyped, EditsPeers

LEMMA FailingStep ==
  ASSUME TypeOK, NEW h \in Procs, AtGoal(h), CallFails(h)
  PROVE  HandlerStep(h)
<1> USE TypesSplit, ProcOfClient DEF HandlerStep
<1>1. /\ UNCHANGED <<object, kopf, account, bridged, peerMap, stowaway, lock, mem>>
      /\ Fault /\ Working(h) /\ pc[h] \in Pcs
      /\ failed' = failed \/ failed' = failed \cup {Of(h)}
  BY DEF CallFails, Settled, Working, ProcsTyped
<1>2. PICK call \in CaughtAt(h) : Goto(h, call)
  BY DEF CallFails
<1>3. /\ call \in {"read", "enabling", "raised", "activate", "done", "waiting", "clear config",
                   "read account", "delete object"}
      /\ call = "read" => mem[h].goal = "enable"
  BY <1>2 DEF CaughtAt, Done, RemovingPeer
<1>4. MovesOn(h) /\ pc'[h] = call
  BY <1>1, <1>2, <1>3, CallMoves DEF Fits, PeerCalls, Pcs
<1> QED
  BY <1>1, <1>3, <1>4, FaultIsCounted
  DEF object, kopf, peerMap, stowaway, ObjectTyped, ClusterTyped, EditsPeers

LEMMA StepIsHandlerStep ==
  ASSUME TypeOK, NEW h \in Procs, AtGoal(h), Step(h) \/ CallFails(h) \/ PodLate(h)
  PROVE  HandlerStep(h)
  BY EndingStep, PersistStep, AccountStep, PeerStep, ReadStep, WriteStep, ConnectionStep,
     FailingStep DEF Step

-----------------------------------------------------------------------------
(* Handlers that start or get the lock, the cluster, users.                *)

(* What does not touch the processes, nor adds a peer. *)
LEMMA OutsideKeepsInv ==
  ASSUME ClientInv, UNCHANGED <<peers, lock, pc, mem>>, ObjectTyped', ClusterTyped'
  PROVE  ClientInv'
<1>1. TypeOK'
  BY TypesSplit, TypesJoin DEF ClientInv, ProcsTyped
<1> QED
  BY <1>1 DEF ClientInv, EnableLocked, Working, AtGoal, NothingToLose

LEMMA BeginKeepsInv ==
  ASSUME ClientInv, NEW h \in Procs, NEW task \in {"create", "change", "delete", "reconcile"},
         NEW goal \in Goals, NEW call \in Pcs \ {"patch"}, Begin(h, task, goal, call),
         Fits(goal, call),
         goal = "enable" => call = "lock" /\ param[Of(h)] \in Subnets
  PROVE  ClientInv'
<1> USE TypesSplit, ProcOfClient DEF ClientInv
<1>1. /\ pc' = [pc EXCEPT ![h] = call] /\ pc[h] = "idle" /\ mem' = [mem EXCEPT ![h] = mem'[h]]
      /\ mem'[h] = [Idle EXCEPT !.task = task, !.goal = goal, !.state = state[Of(h)],
                                !.param = param[Of(h)]]
  BY DEF Begin, Goto, ProcsTyped
<1>2. mem'[h] \in Memory /\ mem'[h].goal = goal /\ mem'[h].param = param[Of(h)]
  <2>1. state[Of(h)] \in States /\ param[Of(h)] \in Subnets \cup {NoSubnet}
    BY DEF ObjectTyped
  <2> QED
    BY <1>1, <2>1, IdleTyped DEF Memory
<1>3. UNCHANGED <<object, kopf, account, bridged, peerMap, stowaway, lock, bounds>>
  BY DEF Begin
<1>4. ObjectTyped' /\ ClusterTyped'
  BY <1>3 DEF object, kopf, peerMap, stowaway, bounds, ObjectTyped, ClusterTyped
<1>5. ProcsTyped'
  BY <1>1, <1>2, <1>3 DEF ProcsTyped
<1>6. TypeOK'
  BY <1>4, <1>5, TypesJoin
<1>7. EnableLocked'
  BY <1>1, <1>2, <1>3 DEF EnableLocked, Working, ProcsTyped
<1>8. \A g \in Procs : AtGoal(g)'
  BY <1>1, <1>2 DEF AtGoal, ProcsTyped
<1>9. NothingToLose'
  BY <1>1, <1>2, <1>3 DEF NothingToLose, ProcsTyped, peerMap
<1> QED
  BY <1>6, <1>7, <1>8, <1>9

LEMMA StartStep ==
  ASSUME ClientInv, NEW c \in Clients,
         StartCreate(c) \/ StartChange(c) \/ StartDelete(c) \/ StartTimer(c)
  PROVE  ClientInv'
<1> DEFINE worker == <<c, "worker">>
           timer  == <<c, "timer">>
<1>1. worker \in Procs /\ timer \in Procs /\ Of(worker) = c /\ Of(timer) = c
  BY ProcsOf
<1>2. \A call \in {"account", "created", "done", "lock", "list"}, goal \in Goals :
         call \in Pcs \ {"patch"} /\ Fits(goal, call)
  BY DEF Fits, PeerCalls, Pcs
<1>3. {"create", "enable", "disable", "terminate"} \subseteq Goals
  BY DEF Goals
<1> HIDE DEF worker, timer
<1>4. ASSUME StartCreate(c) PROVE ClientInv'
  <2>1. PICK call \in {"account", "created", "done"} : Begin(worker, "create", "create", call)
    BY <1>4 DEF StartCreate, Creation, worker
  <2> QED
    BY <1>1, <1>2, <1>3, <2>1, BeginKeepsInv
<1>5. ASSUME StartChange(c) PROVE ClientInv'
  <2>1. CASE param[c] # NoSubnet
    <3>1. param[c] \in Subnets
      BY <2>1 DEF ClientInv, TypeOK
    <3>2. Begin(worker, "change", "enable", "lock")
      BY <1>5, <2>1 DEF StartChange, worker
    <3> QED
      BY <1>1, <1>2, <1>3, <3>1, <3>2, BeginKeepsInv
  <2>2. CASE param[c] = NoSubnet
    <3>1. Begin(worker, "change", "disable", "lock")
      BY <1>5, <2>2 DEF StartChange, worker
    <3> QED
      BY <1>1, <1>2, <1>3, <3>1, BeginKeepsInv
  <2> QED
    BY <2>1, <2>2
<1>6. ASSUME StartDelete(c) PROVE ClientInv'
  <2>1. Begin(worker, "delete", "terminate", "lock")
    BY <1>6 DEF StartDelete, worker
  <2> QED
    BY <1>1, <1>2, <1>3, <2>1, BeginKeepsInv
<1>7. ASSUME StartTimer(c) PROVE ClientInv'
  <2>1. CASE Begin(timer, "reconcile", "disable", "list")
    BY <1>1, <1>2, <1>3, <2>1, BeginKeepsInv
  <2>2. CASE Begin(timer, "reconcile", "terminate", "peer?")
    <3>1. "peer?" \in Pcs \ {"patch"} /\ Fits("terminate", "peer?")
      BY DEF Pcs, Fits, PeerCalls
    <3> QED
      BY <1>1, <1>3, <2>2, <3>1, BeginKeepsInv
  <2> QED
    BY <1>7, <2>1, <2>2 DEF StartTimer, timer
<1> QED
  BY <1>4, <1>5, <1>6, <1>7

LEMMA EnterStep ==
  ASSUME ClientInv, NEW h \in Procs, Enter(h)
  PROVE  ClientInv'
<1> USE TypesSplit, ProcOfClient DEF ClientInv
<1>1. UNCHANGED <<object, kopf, account, bridged, peerMap, stowaway, mem, bounds>>
      /\ pc[h] = "lock" /\ lock = Nobody /\ lock' = h
  BY DEF Enter
<1>2. /\ Entry(h) \in {"peer?", "raised", "config?", "list", "done"}
      /\ Entry(h) = "peer?" => mem[h].goal \in {"enable", "disable", "terminate"}
  BY DEF Entry
<1>3. pc' = [pc EXCEPT ![h] = Entry(h)]
  BY DEF Enter, Goto
<1>4. TypeOK'
  <2>1. ObjectTyped' /\ ClusterTyped'
    BY <1>1 DEF object, kopf, peerMap, stowaway, bounds, ObjectTyped, ClusterTyped
  <2>2. ProcsTyped'
    BY <1>1, <1>2, <1>3 DEF ProcsTyped, Pcs
  <2> QED
    BY <2>1, <2>2, TypesJoin
<1>5. EnableLocked'
  <2>1. \A g \in Procs : Working(g) => mem[g].goal # "enable"
    BY <1>1, NoneAssumption DEF EnableLocked, Procs
  <2> QED
    BY <1>1, <1>3, <2>1 DEF EnableLocked, Working, ProcsTyped
<1>6. \A g \in Procs : AtGoal(g)'
  BY <1>1, <1>2, <1>3 DEF AtGoal, Fits, PeerCalls, ProcsTyped
<1>7. NothingToLose'
  BY <1>1, <1>2, <1>3 DEF NothingToLose, ProcsTyped, peerMap
<1> QED
  BY <1>4, <1>5, <1>6, <1>7

LEMMA RestartStep ==
  ASSUME ClientInv, Restart
  PROVE  ClientInv'
<1> USE TypesSplit DEF ClientInv
<1>1. \A h \in Procs : pc'[h] = "idle" /\ mem'[h] = Idle
  BY DEF Restart
<1>2. ObjectTyped'
  BY DEF Restart, object, ObjectTyped
<1>3. ClusterTyped'
  BY FaultIsCounted DEF Restart, stowaway, ClusterTyped
<1>4. ProcsTyped'
  BY IdleTyped DEF Restart, ProcsTyped, Pcs
<1> QED
  BY <1>1, <1>2, <1>3, <1>4, TypesJoin, IdleTyped
  DEF EnableLocked, Working, AtGoal, Fits, PeerCalls, NothingToLose

LEMMA OutsideStep ==
  ASSUME ClientInv,
         \/ PodStarts \/ PodReady \/ PodLost
         \/ \E c \in Clients : CreateObject(c) \/ DeleteObject(c) \/ AddBridge(c) \/ RemoveFinalizer(c)
  PROVE  ClientInv'
<1> USE TypesSplit DEF ClientInv
<1>1. UNCHANGED <<peers, lock, pc, mem>>
  BY DEF PodStarts, PodReady, PodLost, CreateObject, DeleteObject, AddBridge, RemoveFinalizer, peerMap
<1>2. ObjectTyped'
  <2>1. CASE PodStarts \/ PodReady \/ PodLost
    BY <2>1 DEF PodStarts, PodReady, PodLost, object, kopf, ObjectTyped
  <2>2. ASSUME NEW c \in Clients, CreateObject(c) \/ DeleteObject(c) \/ AddBridge(c) \/ RemoveFinalizer(c)
        PROVE  ObjectTyped'
    BY <2>2 DEF CreateObject, DeleteObject, AddBridge, RemoveFinalizer, MarkDeleted, object, kopf,
       ObjectTyped
  <2> QED
    BY <2>1, <2>2
<1>3. ClusterTyped'
  <2>1. CASE PodStarts \/ PodReady \/ PodLost
    BY <2>1, FaultIsCounted DEF PodStarts, PodReady, PodLost, peerMap, bounds, ClusterTyped
  <2>2. CASE \E c \in Clients : CreateObject(c) \/ DeleteObject(c) \/ AddBridge(c) \/ RemoveFinalizer(c)
    BY <2>2 DEF CreateObject, DeleteObject, AddBridge, RemoveFinalizer, peerMap, stowaway, bounds,
       ClusterTyped
  <2> QED
    BY <2>1, <2>2
<1> QED
  BY <1>1, <1>2, <1>3, OutsideKeepsInv

LEMMA OperatesKeepsInv ==
  ASSUME ClientInv, Operator \/ Cluster
  PROVE  ClientInv'
<1>1. ASSUME NEW h \in Procs, Step(h) \/ CallFails(h) \/ PodLate(h)
      PROVE  ClientInv'
  BY <1>1, StepIsHandlerStep, HandlerStepKeepsInv DEF ClientInv
<1> QED
  BY <1>1, StartStep, EnterStep, RestartStep, OutsideStep DEF Operator, Cluster, Dispatch

-----------------------------------------------------------------------------
(* The user's machine.                                                     *)

(* A step of a command is one of one client. *)
MachineStep(c) ==
  /\ at' = [at EXCEPT ![c] = at'[c]] /\ at'[c] \in Ats
  /\ cmd' = [cmd EXCEPT ![c] = cmd'[c]] /\ cmd'[c] \in Commands
  /\ net' = [net EXCEPT ![c] = net'[c]] /\ net'[c] \in Subnets \cup {NoSubnet}
  /\ commands' = [commands EXCEPT ![c] = commands'[c]] /\ commands'[c] \in 0..MaxCommands[c]
  /\ MachineInv(c)'

LEMMA MachineStepKeepsInv ==
  ASSUME CommandInv, NEW c \in Clients, MachineStep(c), LocalTyped'
  PROVE  CommandInv'
<1>1. MachineTyped'
  BY CommandsAssumption DEF CommandInv, MachineTyped, MachineStep
<1>2. \A d \in Clients : MachineInv(d)'
  BY DEF CommandInv, MachineTyped, MachineStep, MachineInv
<1> QED
  BY <1>1, <1>2 DEF CommandInv

(* Where a command goes from a place it is at, with what it has. *)
LEMMA GoSteps ==
  ASSUME CommandInv, NEW c \in Clients, at[c] # "idle",
         NEW next \in Ats \ {"idle"}, Go(c, next),
         NEW n \in Subnets \cup {NoSubnet}, net' = [net EXCEPT ![c] = n],
         NEW com \in Commands, cmd' = [cmd EXCEPT ![c] = com],
         commands' = commands,
         com = "connect" /\ next \in UsesNet => n \in Subnets,
         next = "activate" => com = "connect"
  PROVE  MachineStep(c)
  BY DEF CommandInv, MachineTyped, MachineStep, MachineInv, Go, Commands

LEMMA Stays ==
  ASSUME CommandInv, NEW c \in Clients
  PROVE  /\ cmd' = cmd => cmd' = [cmd EXCEPT ![c] = cmd[c]]
         /\ net' = net => net' = [net EXCEPT ![c] = net[c]]
         /\ at[c] # "idle" => cmd[c] \in Commands
         /\ net[c] \in Subnets \cup {NoSubnet}
  BY DEF CommandInv, MachineTyped, MachineInv

LEMMA MovesTo ==
  ASSUME CommandInv, NEW c \in Clients, at[c] # "idle",
         NEW next \in Ats \ {"idle"}, Go(c, next), UNCHANGED <<net, cmd, commands>>,
         cmd[c] = "connect" /\ next \in UsesNet => net[c] \in Subnets,
         next = "activate" => cmd[c] = "connect"
  PROVE  MachineStep(c)
  BY GoSteps, Stays

LEMMA FailsMoves ==
  ASSUME CommandInv, NEW c \in Clients, at[c] # "idle", Fails(c), UNCHANGED <<net, cmd, commands>>
  PROVE  MachineStep(c)
<1>1. PICK next \in {"rm cargo", "failed"} : Go(c, next)
  BY DEF Fails
<1> QED
  BY <1>1, MovesTo DEF Ats, UsesNet

LEMMA CommandStep ==
  ASSUME CommandInv, NEW c \in Clients, Run(c) \/ TimesOut(c)
  PROVE  MachineStep(c)
<1> USE DEF Ats, UsesNet
<1>1. ASSUME GetClient(c) PROVE MachineStep(c)
  <2>1. PICK next \in {"rm cargo", "failed", "state?", "network"} :
          Go(c, next) /\ (next = "state?" => cmd[c] = "remove")
    BY <1>1 DEF GetClient, Fails
  <2>2. PICK com \in {cmd[c], "connect"} :
          cmd' = [cmd EXCEPT ![c] = com] /\ (com # cmd[c] => cmd[c] = "reconnect")
    BY <1>1 DEF GetClient
  <2>3. UNCHANGED <<net, commands>> /\ at[c] # "idle"
    BY <1>1 DEF GetClient, local
  <2> QED
    BY <2>1, <2>2, <2>3, GoSteps, Stays DEF Commands
<1>2. ASSUME Network(c) PROVE MachineStep(c)
  <2>1. PICK n \in Subnets \cup {NoSubnet} : net' = [net EXCEPT ![c] = n] /\ n # NoSubnet
    BY <1>2, Stays, NoneAssumption DEF Network, Occupied
  <2>2. PICK next \in {"state?", "stop cargo"} : Go(c, next)
    BY <1>2 DEF Network, AfterNetwork
  <2>3. UNCHANGED <<cmd, commands>> /\ at[c] # "idle"
    BY <1>2 DEF Network
  <2> QED
    BY <2>1, <2>2, <2>3, GoSteps, Stays
<1>3. ASSUME NoNetwork(c) \/ Gone(c) \/ NotFound(c) \/ TimesOut(c) PROVE MachineStep(c)
  BY <1>3, FailsMoves DEF NoNetwork, Gone, NotFound, TimesOut, local
<1>4. ASSUME StopCargo(c) PROVE MachineStep(c)
  <2>1. at[c] = "stop cargo" /\ Go(c, "state?") /\ UNCHANGED <<net, cmd, commands>>
    BY <1>4 DEF StopCargo
  <2>2. cmd[c] = "connect" => net[c] \in Subnets
    BY <2>1 DEF CommandInv, MachineInv
  <2> QED
    BY <2>1, <2>2, MovesTo
<1>5. ASSUME AskState(c) PROVE MachineStep(c)
  <2>1. at[c] = "state?" /\ UNCHANGED <<net, cmd, commands>>
    BY <1>5 DEF AskState, local
  <2>2. PICK next \in {"await", "activate", "deactivate", "rm cargo", "failed"} :
           Go(c, next) /\ (next = "activate" => cmd[c] = "connect")
    BY <1>5 DEF AskState, Fails
  <2>3. cmd[c] = "connect" => net[c] \in Subnets
    BY <2>1 DEF CommandInv, MachineInv
  <2> QED
    BY <2>1, <2>2, <2>3, MovesTo
<1>6. ASSUME Activate(c) \/ Deactivate(c) PROVE MachineStep(c)
  <2>1. at[c] \in {"activate", "deactivate"} /\ Go(c, "await") /\ UNCHANGED <<net, cmd, commands>>
    BY <1>6 DEF Activate, Deactivate, local
  <2>2. cmd[c] = "connect" => net[c] \in Subnets
    BY <2>1 DEF CommandInv, MachineInv
  <2> QED
    BY <2>1, <2>2, MovesTo
<1>7. ASSUME Rejected(c) PROVE MachineStep(c)
  <2>1. CASE Fails(c) /\ UNCHANGED net
    BY <1>7, <2>1, FailsMoves DEF Rejected
  <2>2. CASE Go(c, "network") /\ net' = [net EXCEPT ![c] = NoSubnet]
    <3>1. at[c] # "idle" /\ UNCHANGED <<cmd, commands>>
      BY <1>7 DEF Rejected
    <3>2. cmd[c] \in Commands /\ cmd' = [cmd EXCEPT ![c] = cmd[c]]
      BY <3>1, Stays
    <3> DEFINE next == "network"
               n    == NoSubnet
               com  == cmd[c]
    <3>3. next \in Ats \ {"idle"} /\ next \notin UsesNet /\ n \in Subnets \cup {NoSubnet}
      OBVIOUS
    <3>4. Go(c, next) /\ net' = [net EXCEPT ![c] = n] /\ commands' = commands
      BY <2>2, <3>1
    <3> HIDE DEF next, n, com
    <3> QED
      BY <3>1, <3>2, <3>3, <3>4, GoSteps DEF com
  <2> QED
    BY <1>7, <2>1, <2>2 DEF Rejected
<1>8. ASSUME Awaited(c) PROVE MachineStep(c)
  <2>1. at[c] = "await" /\ UNCHANGED <<net, commands>>
    BY <1>8 DEF Awaited, local
  <2>2. cmd[c] \in Commands /\ (cmd[c] = "connect" => net[c] \in Subnets)
    BY <2>1, Stays DEF CommandInv, MachineInv
  <2>3. PICK next \in {"save", "network", "ok", "rm cargo"}, com \in Commands :
          /\ Go(c, next) /\ cmd' = [cmd EXCEPT ![c] = com]
          /\ next = "save" => cmd[c] = "connect"
    BY <1>8, <2>2 DEF Awaited, Commands
  <2> QED
    BY <2>1, <2>2, <2>3, GoSteps, Stays
<1>9. ASSUME SaveConfig(c) \/ StartCargo(c) \/ StartFails(c) \/ Probe(c) PROVE MachineStep(c)
  <2>1. at[c] # "idle" /\ UNCHANGED <<net, cmd, commands>>
    BY <1>9 DEF SaveConfig, StartCargo, StartFails, Probe, local
  <2>2. PICK next \in {"start cargo", "rm cargo", "failed", "probe", "ok"} : Go(c, next)
    BY <1>9 DEF SaveConfig, StartCargo, StartFails, Probe, Fails
  <2> QED
    BY <2>1, <2>2, MovesTo
<1>10. ASSUME RemoveLocal(c) PROVE MachineStep(c)
  <2>1. /\ at[c] # "idle" /\ Go(c, "ok") /\ UNCHANGED <<cmd, commands>>
        /\ net' = [net EXCEPT ![c] = NoSubnet]
    BY <1>10 DEF RemoveLocal
  <2>2. cmd[c] \in Commands /\ cmd' = [cmd EXCEPT ![c] = cmd[c]]
    BY <2>1, Stays
  <2> DEFINE next == "ok"
             n    == NoSubnet
             com  == cmd[c]
  <2>3. next \in Ats \ {"idle"} /\ next \notin UsesNet /\ n \in Subnets \cup {NoSubnet}
    OBVIOUS
  <2>4. Go(c, next) /\ net' = [net EXCEPT ![c] = n] /\ commands' = commands
    BY <2>1
  <2> HIDE DEF next, n, com
  <2> QED
    BY <2>1, <2>2, <2>3, <2>4, GoSteps DEF com
<1> QED
  BY <1>1, <1>2, <1>3, <1>4, <1>5, <1>6, <1>7, <1>8, <1>9, <1>10 DEF Run

LEMMA StartCommandStep ==
  ASSUME CommandInv, NEW c \in Clients, NEW command \in Commands, Start(c, command)
  PROVE  MachineStep(c)
<1>1. commands[c] + 1 \in 0..MaxCommands[c]
  <2>1. commands[c] \in Nat /\ MaxCommands[c] \in Nat /\ commands[c] < MaxCommands[c]
    BY CommandsAssumption DEF Start, CommandInv, MachineTyped
  <2> QED
    BY <2>1
<1>2. /\ at' = [at EXCEPT ![c] = "client"] /\ at'[c] = "client"
      /\ cmd' = [cmd EXCEPT ![c] = command] /\ cmd'[c] = command
      /\ commands' = [commands EXCEPT ![c] = commands[c] + 1] /\ commands'[c] = commands[c] + 1
      /\ net' = net
  BY DEF Start, Go, local, CommandInv, MachineTyped
<1>3. net' = [net EXCEPT ![c] = net'[c]] /\ net'[c] \in Subnets \cup {NoSubnet}
  BY <1>2, Stays
<1>4. MachineInv(c)'
  BY <1>1, <1>2 DEF MachineInv, UsesNet, Commands
<1> QED
  BY <1>1, <1>2, <1>3, <1>4 DEF MachineStep, Ats

(* What a machine does to itself is typed, and to the object. *)
LEMMA LocalStep ==
  ASSUME CommandInv, NEW c \in Clients,
         Run(c) \/ TimesOut(c) \/ \E command \in Commands : Start(c, command)
  PROVE  LocalTyped'
<1> USE DEF CommandInv, LocalTyped
<1>1. ASSUME GetClient(c) \/ NoNetwork(c) \/ AskState(c) \/ Activate(c) \/ Deactivate(c) \/ Gone(c)
             \/ Awaited(c) \/ NotFound(c) \/ TimesOut(c) \/ Probe(c)
      PROVE  LocalTyped'
  BY <1>1 DEF GetClient, NoNetwork, AskState, Activate, Deactivate, Gone, Awaited, NotFound,
     TimesOut, Probe, local
<1>2. ASSUME Network(c) \/ StopCargo(c) PROVE LocalTyped'
  BY <1>2 DEF Network, StopCargo
<1>6. ASSUME RemoveLocal(c) PROVE LocalTyped'
  <2>1. keys[c] \ {"conf", "cargo"} \in SUBSET {"object", "conf", "cargo"}
    OBVIOUS
  <2> QED
    BY <1>6, <2>1 DEF RemoveLocal
<1>3. ASSUME Rejected(c) PROVE LocalTyped'
  <2>1. net[c] \in Subnets
    BY <1>3 DEF Rejected, MachineInv, UsesNet
  <2> QED
    BY <1>3, <2>1 DEF Rejected
<1>4. ASSUME SaveConfig(c) \/ StartCargo(c) \/ StartFails(c) PROVE LocalTyped'
  <2>1. keys' \in [Clients -> SUBSET {"object", "conf", "cargo"}]
    <3> DEFINE Some == SUBSET {"object", "conf", "cargo"}
    <3>1. keys[c] \cup {"conf"} \in Some /\ keys[c] \ {"conf"} \in Some
          /\ keys[c] \cup {"cargo"} \in Some /\ keys[c] \ {"cargo"} \in Some
      OBVIOUS
    <3>2. keys' = keys \/ \E k \in Some : keys' = [keys EXCEPT ![c] = k]
      BY <1>4, <3>1 DEF SaveConfig, StartCargo, StartFails, Reads
    <3> QED
      BY <3>2
  <2> QED
    BY <1>4, <2>1 DEF SaveConfig, StartCargo, StartFails, local
<1>5. ASSUME NEW command \in Commands, Start(c, command) PROVE LocalTyped'
  BY <1>5 DEF Start, local
<1> QED
  BY <1>1, <1>2, <1>3, <1>4, <1>5, <1>6 DEF Run

(* A command asks the operator for something by the object's parameter. *)
LEMMA CommandAsks ==
  ASSUME ClientInv, CommandInv, NEW c \in Clients,
         Run(c) \/ TimesOut(c) \/ \E command \in Commands : Start(c, command)
  PROVE  ClientInv' /\ peers' = peers
<1> USE TypesSplit DEF ClientInv
<1>1. /\ UNCHANGED <<phase, state, config, kopf, account, bridged, peerMap, stowaway, lock, pc, mem, failed>>
      /\ \/ param' = param /\ (faults' = faults \/ Fault)
         \/ faults' = faults /\ \E s \in Subnets \cup {NoSubnet} : param' = [param EXCEPT ![c] = s]
  <2>1. ASSUME Activate(c) \/ Deactivate(c)
        PROVE  /\ UNCHANGED <<phase, state, config, kopf, account, bridged, peerMap, stowaway, lock, pc, mem, failed>>
               /\ faults' = faults
               /\ \E s \in Subnets \cup {NoSubnet} : param' = [param EXCEPT ![c] = s]
    BY <2>1, Stays DEF Activate, Deactivate, bounds
  <2>2. ASSUME TimesOut(c) PROVE <1>1!1 /\ param' = param /\ Fault
    BY <2>2 DEF TimesOut, object
  <2>3. ASSUME UNCHANGED vars
        PROVE  <1>1!1 /\ param' = param /\ faults' = faults
    BY <2>3 DEF vars, kopf, peerMap, stowaway
  <2>4. UNCHANGED vars \/ Activate(c) \/ Deactivate(c) \/ TimesOut(c)
    BY DEF Run, GetClient, Network, NoNetwork, StopCargo, AskState, Rejected, Gone, Awaited,
       NotFound, SaveConfig, StartCargo, StartFails, Probe, RemoveLocal, Start
  <2> QED
    BY <2>1, <2>2, <2>3, <2>4
<1>2. ObjectTyped' /\ ClusterTyped'
  BY <1>1, FaultIsCounted DEF kopf, peerMap, stowaway, ObjectTyped, ClusterTyped
<1>3. UNCHANGED <<peers, lock, pc, mem>>
  BY <1>1 DEF peerMap
<1> QED
  BY <1>2, <1>3, OutsideKeepsInv

(* The operator leaves a machine alone, but for the worth of its keys. *)
LEMMA FollowedStep ==
  ASSUME CommandInv, Followed
  PROVE  CommandInv'
<1>1. \A c \in Clients : KeysAfter(c) \in SUBSET {"object", "conf", "cargo"}
  BY DEF KeysAfter, CommandInv, LocalTyped
<1> QED
  BY <1>1 DEF Followed, local, CommandInv, MachineTyped, LocalTyped, MachineInv

-----------------------------------------------------------------------------
(* Theorems.                                                               *)

ConnectionInv == ClientInv /\ CommandInv

LEMMA InitHolds ==
  ASSUME InitAll
  PROVE  ConnectionInv
<1> USE DEF InitAll
<1>1. \A h \in Procs : pc[h] = "idle" /\ mem[h] = Idle
  BY DEF Init
<1>2. ObjectTyped /\ ClusterTyped
  BY LimitAssumption DEF Init, ObjectTyped, ClusterTyped, States
<1>3. ProcsTyped
  BY <1>1, IdleTyped DEF Init, ProcsTyped, Pcs
<1>4. ClientInv
  BY <1>1, <1>2, <1>3, TypesSplit, IdleTyped
  DEF ClientInv, EnableLocked, Working, AtGoal, Fits, PeerCalls, NothingToLose
<1>5. CommandInv
  BY CommandsAssumption DEF InitLib, CommandInv, MachineTyped, LocalTyped, MachineInv, UsesNet, Ats
<1> QED
  BY <1>4, <1>5 DEF ConnectionInv

(* What a step of the composition is. *)
LEMMA Steps ==
  ASSUME NextAll
  PROVE  \/ (Operator \/ Cluster) /\ Followed
         \/ UNCHANGED libVars /\ \E c \in Clients : CreateObject(c) \/ DeleteObject(c) \/ AddBridge(c)
         \/ \E c \in Clients : Run(c) \/ TimesOut(c) \/ \E command \in Commands : Start(c, command)
  BY CommandsAssumption DEF NextAll, Operates, Others, Library

LEMMA NextKeepsInv ==
  ASSUME ConnectionInv, [NextAll]_allVars
  PROVE  ConnectionInv'
<1> USE DEF ConnectionInv
<1>1. CASE (Operator \/ Cluster) /\ Followed
  BY <1>1, OperatesKeepsInv, FollowedStep
<1>2. CASE UNCHANGED libVars /\ \E c \in Clients : CreateObject(c) \/ DeleteObject(c) \/ AddBridge(c)
  <2>1. CommandInv'
    BY <1>2 DEF libVars, local, CommandInv, MachineTyped, LocalTyped, MachineInv
  <2> QED
    BY <1>2, <2>1, OutsideStep
<1>3. ASSUME NEW c \in Clients, Run(c) \/ TimesOut(c) \/ \E command \in Commands : Start(c, command)
      PROVE  ConnectionInv'
  <2>1. MachineStep(c)
    BY <1>3, CommandStep, StartCommandStep
  <2> QED
    BY <1>3, <2>1, MachineStepKeepsInv, LocalStep, CommandAsks
<1>4. CASE UNCHANGED allVars
  <2>1. CommandInv'
    BY <1>4 DEF allVars, libVars, local, CommandInv, MachineTyped, LocalTyped, MachineInv
  <2>2. ClientInv'
    BY <1>4 DEF allVars, vars, ClientInv, TypeOK, EnableLocked, Working, AtGoal, NothingToLose
  <2> QED
    BY <2>1, <2>2
<1> QED
  BY <1>1, <1>2, <1>3, <1>4, Steps

(* The inductive invariant: types, the lock of those that enable, the      *)
(* calls of each handler, and that what is about to be written to PEERS    *)
(* has every present peer in it; with what the commands rely on.           *)
THEOREM ConnectionInvariant == ConnectionSpec => []ConnectionInv
<1>1. InitAll => ConnectionInv
  BY InitHolds
<1>2. ConnectionInv /\ [NextAll]_allVars => ConnectionInv'
  BY NextKeepsInv
<1> QED
  BY <1>1, <1>2, PTL DEF ConnectionSpec

(* Types, for any clients, subnets, commands and faults; and that connect  *)
(* has the subnet of a network whenever it asks the operator for one.      *)
THEOREM ConnectionTypes == ConnectionSpec => []ConnectionTypeOK
<1>1. ConnectionInv => ConnectionTypeOK
  BY DEF ConnectionInv, ClientInv, CommandInv, MachineTyped, LocalTyped, MachineInv, UsesNet, Ats,
     ConnectionTypeOK
<1> QED
  BY <1>1, ConnectionInvariant, PTL

(* add_peer writes back all of PEERS as it was read, remove_peer replaces  *)
(* the map, and the handlers of on_create and of the timer take no lock:   *)
(* still no client is taken out of PEERS but by a handler of its own,      *)
(* whatever fails, restarts or runs beside it.                             *)
THEOREM PeersAreKept == ConnectionSpec => NoPeerLost
<1> DEFINE Kept == \A c \in peers \ peers' :
                      \E h \in Procs : Of(h) = c /\ pc[h] = "replace" /\ pc'[h] # "replace"
<1>1. ASSUME ConnectionInv, [NextAll]_allVars
      PROVE  [Kept]_vars
  <2>1. CASE peers' = peers
    BY <2>1
  <2>2. ASSUME NEW h \in Procs, Step(h) \/ CallFails(h) \/ PodLate(h)
        PROVE  Kept
    BY <1>1, <2>2, StepIsHandlerStep, HandlerStepLosesNothing DEF ConnectionInv, ClientInv
  <2>3. peers' = peers \/ \E h \in Procs : Step(h) \/ CallFails(h) \/ PodLate(h)
    <3>1. CASE Operator \/ Cluster
      BY <3>1 DEF Operator, Cluster, Dispatch, StartCreate, StartChange, StartDelete, StartTimer,
         Begin, RemoveFinalizer, Enter, Restart, PodStarts, PodReady, PodLost, peerMap
    <3>2. CASE \E c \in Clients : CreateObject(c) \/ DeleteObject(c) \/ AddBridge(c)
      BY <3>2 DEF CreateObject, DeleteObject, AddBridge, peerMap
    <3>3. ASSUME NEW c \in Clients,
                 Run(c) \/ TimesOut(c) \/ \E command \in Commands : Start(c, command)
          PROVE  peers' = peers
      BY <1>1, <3>3, CommandAsks DEF ConnectionInv
    <3>4. CASE UNCHANGED allVars
      BY <3>4 DEF allVars, vars
    <3> QED
      BY <1>1, <3>1, <3>2, <3>3, <3>4, Steps
  <2> QED
    BY <2>1, <2>2, <2>3
<1> QED
  BY <1>1, ConnectionInvariant, PTL DEF ConnectionSpec, NoPeerLost

-----------------------------------------------------------------------------
(* One client and its worker. *)
W(c) == <<c, "worker">>

(* What the worker is at, and what it has read and is about to do. *)
Call(c)  == pc[W(c)]
Goal(c)  == mem[W(c)].goal
Task(c)  == mem[W(c)].task
Seen(c)  == mem[W(c)].state
Asked(c) == mem[W(c)].param

(* A client without an age or a sunset: its timer has never anything to do. *)
Timeless(c) == c \notin Aging \cup Ending

-----------------------------------------------------------------------------
(* The handlers of one client.                                             *)

(* At which calls the handler of each goal can be, in which state of its   *)
(* client.                                                                 *)
OnCourse(goal, call, s) ==
  \/ goal = "none" /\ call = "idle"
  \/ goal # "none" /\ call \in {"done", "raised"}
  \/ goal \in {"enable", "disable", "terminate"} /\ call = "lock"
  \/ /\ goal = "create" /\ s \in {"REQUESTED", "CREATING"}
     /\ call \in {"account", "binding", "token", "publish token", "created"}
  \/ goal = "create" /\ s = "CREATING" /\ call = "waiting"
  \/ /\ goal = "enable" /\ s = "WAITING"
     /\ call \in {"peer?", "read", "patch", "restart", "await pod", "enabling"}
  \/ goal = "enable" /\ s = "ENABLING" /\ call \in {"config?", "copy", "write config", "activate"}
  \/ goal = "disable" /\ s = "ACTIVE" /\ call \in {"list", "delete bridge", "disabling"}
  \/ /\ goal = "disable" /\ s = "DISABLING"
     /\ call \in {"peer?", "read", "replace", "rm", "restart", "await pod", "clear config", "waiting"}
  \/ /\ goal = "terminate" /\ s \in Terminable
     /\ call \in {"peer?", "read", "replace", "rm", "restart", "await pod", "read account",
                  "delete binding", "delete account", "list", "delete bridge"}

TaskOf(goal) == CASE goal \in {"enable", "disable"} -> "change"
                  [] goal = "terminate"             -> "delete"
                  [] OTHER                          -> goal

Course(c) ==
  /\ pc[<<c, "timer">>] = "idle"
  /\ Task(c) = TaskOf(Goal(c))
  /\ OnCourse(Goal(c), Call(c), state[c])
  /\ Call(c) = "lock" => Seen(c) = state[c]

(* The object, and what kopf owes it. *)
Life(c) ==
  /\ phase[c] \in {"absent", "gone"} => todo[c] = {} /\ Call(c) = "idle"
  /\ phase[c] = "absent" => state[c] = "REQUESTED"
  /\ phase[c] = "present" => todo[c] \subseteq {"create"}
  /\ phase[c] = "deleting" => todo[c] \subseteq {"delete"}
  /\ Goal(c) = "terminate" => phase[c] = "deleting" /\ "delete" \in todo[c]

(* What the subnet that is asked for has to do with the handler's goal. *)
Asks(c) ==
  /\ state[c] \in {"REQUESTED", "CREATING", "DISABLING"} => param[c] = NoSubnet
  /\ Goal(c) = "enable" /\ state[c] # "ACTIVE" => param[c] # NoSubnet /\ Asked(c) = param[c]
  /\ Goal(c) = "disable" /\ state[c] # "WAITING" => param[c] = NoSubnet

Control(c) == Course(c) /\ Life(c) /\ Asks(c)

(* From enable on the client is a peer. *)
Enabling == {"restart", "await pod", "enabling"}

Present(c) ==
  /\ c \in peers => allowed[c] # NoSubnet
  /\ state[c] = "ENABLING" => c \in peers
  /\ state[c] = "ACTIVE" /\ phase[c] = "present" => c \in peers /\ config[c]
  /\ Goal(c) = "enable" /\ Call(c) \in Enabling => c \in peers
  /\ Call(c) = "activate" => config[c]

(* ... and Stowaway's pod has loaded it, this pod or the next one. *)
Loaded(c) ==
  /\ Call(c) \in {"write config", "activate"} /\ pod # "none" => c \in loaded
  /\ state[c] = "ACTIVE" /\ phase[c] = "present" /\ pod # "none" => c \in loaded

(* What add_peer is going to write says of the client what the map says. *)
SnapTrue(c) ==
  \A h \in Procs : pc[h] = "patch" => (c \in mem[h].snap <=> c \in peers)

-----------------------------------------------------------------------------
(* The commands of one client.                                             *)

(* Places that are come to with one command only. *)
Linked == {"save", "start cargo", "probe"}

Placed(c) ==
  /\ at[c] \in Linked \cup {"activate"} => cmd[c] = "connect"
  /\ at[c] \in {"deactivate", "stop cargo"} => cmd[c] # "connect"
  /\ at[c] = "rm cargo" => cmd[c] = "remove"
  /\ phase[c] = "absent" =>
       at[c] \in {"idle", "client", "failed", "rm cargo"} \/ (at[c] = "ok" /\ cmd[c] = "remove")

(* Whoever has asked for a change waits for it; nobody else does. *)
Agreed(c) ==
  /\ Found(c) /\ state[c] = "ACTIVE" /\ param[c] = NoSubnet => cmd[c] # "connect" /\ at[c] = "await"
  /\ Found(c) /\ state[c] = "DISABLING" => cmd[c] # "connect" /\ at[c] = "await"
  /\ Found(c) /\ state[c] # "ACTIVE" /\ param[c] # NoSubnet => cmd[c] = "connect" /\ at[c] = "await"
  /\ Found(c) /\ at[c] = "deactivate" => state[c] = "ACTIVE"
  /\ Found(c) /\ at[c] = "activate" => state[c] = "WAITING"
  /\ Found(c) /\ cmd[c] = "connect" /\ at[c] \in Linked \cup {"ok"} => state[c] = "ACTIVE"
  /\ cmd[c] = "disconnect" /\ at[c] = "ok" => state[c] = "WAITING" /\ param[c] = NoSubnet

(* The subnet asked for is that of the network. *)
SameNet(c) ==
  /\ Found(c) /\ cmd[c] = "connect" /\ at[c] \in Linked \cup {"await", "ok"} => param[c] = net[c]
  /\ Found(c) /\ cmd[c] = "connect" /\ at[c] \in {"network", "state?"} /\ state[c] = "ACTIVE"
     => param[c] = net[c]
  /\ Found(c) /\ state[c] = "ACTIVE" /\ cargo[c] # "none" /\ param[c] # NoSubnet => param[c] = net[c]

Joined(c) ==
  phase[c] = "present" /\ cmd[c] = "connect" /\ at[c] = "ok"
  => cargo[c] = "running" /\ "cargo" \in keys[c]

Command(c) == Placed(c) /\ Agreed(c) /\ SameNet(c) /\ Joined(c)

-----------------------------------------------------------------------------
(* What holds of a client when no timer edits the map beside the lock.     *)

Locking == {"enable", "disable", "terminate"}

Exclusive == \A c \in Clients : Working(W(c)) /\ Goal(c) \in Locking => lock = W(c)

(* remove_peer meets no conflict, and the handler that has restarted the   *)
(* pod is there until it is back.                                          *)
Removing   == \A c \in Clients : Call(c) = "replace" => W(c) \in fresh
PodAwaited == pod # "ready" => \E c \in Clients : Call(c) = "await pod"

(* A client is no peer before it is enabled nor after it is disabled. *)
Absent(c) ==
  /\ c \notin peers => allowed[c] = NoSubnet
  /\ state[c] \in {"REQUESTED", "CREATING"} => c \notin peers
  /\ c \in peers /\ state[c] = "WAITING" => Goal(c) = "enable" /\ Call(c) \in Enabling
  /\ Goal(c) = "disable" /\ Call(c) \in {"rm", "restart", "await pod", "clear config", "waiting"}
     => c \notin peers
  /\ Goal(c) = "terminate" /\ Call(c) \in {"rm", "restart", "await pod", "read account",
       "delete binding", "delete account", "list", "delete bridge", "done"} => c \notin peers

Routed(c) ==
  /\ Goal(c) = "enable" /\ Call(c) \in Enabling => allowed[c] = param[c]
  /\ state[c] = "ENABLING" => allowed[c] = param[c]
  /\ state[c] = "ACTIVE" /\ phase[c] = "present" /\ param[c] # NoSubnet => allowed[c] = param[c]

Account(c) ==
  /\ "account" \in account[c] => "binding" \in account[c] \/ Call(c) \in {"binding", "delete account"}
  /\ "account" \notin account[c] => account[c] = {}
  /\ Call(c) = "binding" => "account" \in account[c]
  /\ Call(c) = "delete account" => "binding" \notin account[c]
  /\ Goal(c) = "terminate" /\ Call(c) \in {"list", "delete bridge", "done"} => account[c] = {}

Cleaned(c) == c \notin peers /\ account[c] = {} /\ ~bridged[c]
Clean(c) ==
  /\ Goal(c) = "terminate" /\ Call(c) = "done" => ~bridged[c]
  /\ phase[c] = "deleting" /\ "delete" \notin todo[c] => Cleaned(c) /\ Call(c) = "idle"
  /\ phase[c] = "gone" => Cleaned(c)

Alone(c) == Absent(c) /\ Routed(c) /\ Account(c) /\ Clean(c)

-----------------------------------------------------------------------------
PeersInv ==
  /\ Exclusive
  /\ faults = 0 =>
       /\ \A c \in Clients : Timeless(c) => Control(c) /\ Present(c) /\ Loaded(c) /\ SnapTrue(c) /\ Command(c)
       /\ NoTimers => Removing /\ PodAwaited /\ \A c \in Clients : Alone(c)

-----------------------------------------------------------------------------
LEMMA WorkerOf ==
  ASSUME NEW c \in Clients
  PROVE  /\ W(c) \in Procs /\ Of(W(c)) = c
         /\ \A h \in Procs : Of(h) = c => h = W(c) \/ h = <<c, "timer">>
         /\ \A d \in Clients : W(d) = W(c) => d = c
  BY DEF W, Procs, Of

(* What may be the same after a step. *)
SameMemory(c) ==
  /\ Goal(c)' = Goal(c) /\ Task(c)' = Task(c) /\ Seen(c)' = Seen(c) /\ Asked(c)' = Asked(c)
  /\ pc'[<<c, "timer">>] = pc[<<c, "timer">>]
SameObject(c) == phase'[c] = phase[c] /\ todo'[c] = todo[c] /\ param'[c] = param[c]
SamePeer(c)   == (c \in peers' <=> c \in peers) /\ allowed'[c] = allowed[c]
SameThings(c) == config'[c] = config[c] /\ account'[c] = account[c] /\ bridged'[c] = bridged[c]
SameMachine(c) ==
  /\ cmd'[c] = cmd[c] /\ at'[c] = at[c] /\ net'[c] = net[c] /\ cargo'[c] = cargo[c]
  /\ "cargo" \in keys[c] => "cargo" \in keys'[c]

(* A pod that is there afterwards has been there before, or has loaded     *)
(* whoever is a peer. *)
PodFollows == pod' # "none" => loaded' = peers \/ (pod # "none" /\ loaded' = loaded)

(* A step of others. *)
Quiet(c) ==
  /\ Call(c)' = Call(c) /\ SameMemory(c) /\ SameObject(c) /\ state'[c] = state[c]
  /\ SamePeer(c) /\ SameThings(c) /\ SameMachine(c) /\ PodFollows

LEMMA QuietKeepsControl ==
  ASSUME NEW c \in Clients, Control(c), Quiet(c)
  PROVE  Control(c)'
  BY DEF Control, Course, Life, Asks, Quiet, SameMemory, SameObject

LEMMA QuietKeepsPresent ==
  ASSUME NEW c \in Clients, Control(c), Present(c), Loaded(c), Quiet(c)
  PROVE  Present(c)' /\ Loaded(c)'
<1>1. Call(c) \in {"write config", "activate"} => state[c] = "ENABLING"
  BY DEF Control, Course, OnCourse
<1>2. Present(c)'
  BY DEF Present, Quiet, SameMemory, SameObject, SamePeer, SameThings
<1>3. Loaded(c)'
  BY <1>1 DEF Present, Loaded, Quiet, SameObject, SamePeer, PodFollows
<1> QED
  BY <1>2, <1>3

LEMMA QuietKeepsCommand ==
  ASSUME NEW c \in Clients, Command(c), Quiet(c)
  PROVE  Command(c)'
<1>1. Found(c)' <=> Found(c)
  BY DEF Found, Quiet, SameObject
<1> QED
  BY <1>1 DEF Command, Placed, Agreed, SameNet, Joined, Quiet, SameObject, SameMachine

LEMMA QuietKeepsAlone ==
  ASSUME NEW c \in Clients, Alone(c), Quiet(c)
  PROVE  Alone(c)'
  BY DEF Alone, Absent, Routed, Account, Clean, Cleaned, Quiet, SameMemory, SameObject, SamePeer,
     SameThings

-----------------------------------------------------------------------------
(* The steps of a client's own worker, seen from the client.               *)

SamePod == pod' = pod /\ loaded' = loaded

(* Everything but where the worker is. *)
SameButCall(c) == SameMemory(c) /\ SameObject(c) /\ SamePod

AfterGoal(goal) ==
  CASE goal = "enable" -> "enabling" [] goal = "disable" -> "clear config"
    [] goal = "terminate" -> "read account"
WithoutPod(goal) == IF goal = "terminate" THEN "done" ELSE "raised"

(* It looks at something, and goes on. *)
Look(c) ==
  \/ /\ Call(c) = "peer?" /\ Goal(c) \in Locking
     /\ Goal(c) = "enable"    => Call(c)' = IF c \in peers THEN "enabling" ELSE "read"
     /\ Goal(c) = "disable"   => Call(c)' = IF c \in peers THEN "read" ELSE "waiting"
     /\ Goal(c) = "terminate" => Call(c)' = IF c \in peers THEN "read" ELSE "read account"
  \/ /\ Call(c) = "read" /\ Goal(c) \in Locking
     /\ Goal(c) = "enable" => Call(c)' = IF c \in peers THEN "restart" ELSE "patch"
     /\ Goal(c) # "enable" => Call(c)' = IF c \in peers THEN "replace" ELSE "rm"
  \/ Call(c) = "replace" /\ W(c) \notin fresh /\ Call(c)' = AfterGoal(Goal(c))
  \/ Call(c) = "rm" /\ Call(c)' = IF pod = "none" THEN WithoutPod(Goal(c)) ELSE "restart"
  \/ Call(c) = "restart" /\ pod = "none" /\ Call(c)' \in {WithoutPod(Goal(c)), AfterGoal(Goal(c))}
  \/ Call(c) = "await pod" /\ pod = "ready" /\ Call(c)' = AfterGoal(Goal(c))
  \/ Call(c) = "config?" /\ Call(c)' \in {"copy", "raised"}
  \/ Call(c) = "copy" /\ Call(c)' = IF pod = "ready" /\ c \in loaded THEN "write config" ELSE "raised"
  \/ /\ Call(c) = "list"
     /\ Call(c)' = IF bridged[c] THEN "delete bridge"
                   ELSE IF Goal(c) = "disable" THEN "disabling" ELSE "done"
  \/ Call(c) = "read account"
     /\ Call(c)' = IF "account" \in account[c] THEN "delete binding" ELSE "list"
  \/ Call(c) = "publish token" /\ Call(c)' = "created"

Looks(c) == Look(c) /\ SameButCall(c) /\ state'[c] = state[c] /\ SamePeer(c) /\ SameThings(c)

Restarts(c) ==
  /\ Call(c) = "restart" /\ Call(c)' = "await pod" /\ pod # "none" /\ pod' = "none"
  /\ SameMemory(c) /\ SameObject(c) /\ state'[c] = state[c] /\ SamePeer(c) /\ SameThings(c)

Adds(c) ==
  /\ Call(c) = "patch" /\ Call(c)' = "restart" /\ c \in peers' /\ allowed'[c] = Asked(c)
  /\ SameButCall(c) /\ state'[c] = state[c] /\ SameThings(c)

Removes(c) ==
  /\ Call(c) = "replace" /\ W(c) \in fresh /\ Call(c)' = "rm"
  /\ c \notin peers' /\ allowed'[c] = NoSubnet
  /\ SameButCall(c) /\ state'[c] = state[c] /\ SameThings(c)

Writes(c) ==
  /\ \/ Call(c) = "write config" /\ Call(c)' = "activate" /\ config'[c]
     \/ Call(c) = "clear config" /\ Call(c)' = "waiting"
  /\ account'[c] = account[c] /\ bridged'[c] = bridged[c]
  /\ SameButCall(c) /\ state'[c] = state[c] /\ SamePeer(c)

Unbridges(c) ==
  /\ Call(c) = "delete bridge" /\ ~bridged'[c]
  /\ Call(c)' \in IF Goal(c) = "disable" THEN {"disabling", "raised"} ELSE {"done"}
  /\ account'[c] = account[c] /\ config'[c] = config[c]
  /\ SameButCall(c) /\ state'[c] = state[c] /\ SamePeer(c)

Accounts(c) ==
  /\ \/ /\ Call(c) = "account" /\ account'[c] = account[c] \cup {"account"}
        /\ Call(c)' = IF "account" \in account[c] THEN "token" ELSE "binding"
     \/ Call(c) = "binding" /\ account'[c] = account[c] \cup {"binding"} /\ Call(c)' = "token"
     \/ /\ Call(c) = "token" /\ Call(c)' \in {"publish token", "raised"}
        /\ account'[c] = IF "account" \in account[c] THEN account[c] \cup {"token"} ELSE account[c]
     \/ /\ Call(c) = "delete binding" /\ account'[c] = account[c] \ {"binding"}
        /\ Call(c)' = IF "binding" \in account[c] THEN "delete account" ELSE "list"
     \/ /\ Call(c) = "delete account" /\ account'[c] = account[c] \ {"account", "token"}
        /\ Call(c)' = "list"
  /\ bridged'[c] = bridged[c] /\ config'[c] = config[c]
  /\ SameButCall(c) /\ state'[c] = state[c] /\ SamePeer(c)

Persists(c) ==
  /\ \/ Call(c) = "created" /\ state'[c] = "CREATING" /\ Call(c)' = "waiting"
     \/ Call(c) = "waiting" /\ state'[c] = "WAITING" /\ Call(c)' = "done"
     \/ Call(c) = "enabling" /\ state'[c] = "ENABLING" /\ Call(c)' = "config?"
     \/ Call(c) = "activate" /\ state'[c] = "ACTIVE" /\ Call(c)' = "done"
     \/ Call(c) = "disabling" /\ state'[c] = "DISABLING" /\ Call(c)' = "peer?"
  /\ SameButCall(c) /\ SamePeer(c) /\ SameThings(c)

Ends(c) ==
  /\ Call(c) \in {"done", "raised"} /\ Call(c)' = "idle" /\ Goal(c)' = "none" /\ Task(c)' = "none"
  /\ pc'[<<c, "timer">>] = pc[<<c, "timer">>]
  /\ todo'[c] = IF Call(c) = "done" THEN todo[c] \ {Task(c)} ELSE todo[c]
  /\ phase'[c] = phase[c] /\ param'[c] = param[c] /\ state'[c] = state[c]
  /\ SamePeer(c) /\ SameThings(c) /\ SamePod

Works(c) ==
  \/ Looks(c) \/ Restarts(c) \/ Adds(c) \/ Removes(c) \/ Writes(c) \/ Unbridges(c)
  \/ Accounts(c) \/ Persists(c) \/ Ends(c)

(* A worker begins, or gets the lock. *)
Starts(c) ==
  /\ Call(c) = "idle"
  /\ Seen(c)' = state[c] /\ Asked(c)' = param[c]
  /\ \/ /\ "create" \in todo[c] /\ Goal(c)' = "create" /\ Task(c)' = "create"
        /\ Call(c)' = IF state[c] \in {"REQUESTED", "CREATING"} THEN Creation ELSE "done"
     \/ /\ phase[c] = "present" /\ Goal(c)' = (IF param[c] # NoSubnet THEN "enable" ELSE "disable")
        /\ Task(c)' = "change" /\ Call(c)' = "lock"
     \/ "delete" \in todo[c] /\ Goal(c)' = "terminate" /\ Task(c)' = "delete" /\ Call(c)' = "lock"
  /\ pc'[<<c, "timer">>] = pc[<<c, "timer">>]
  /\ SameObject(c) /\ state'[c] = state[c] /\ SamePeer(c) /\ SameThings(c) /\ SamePod

Enters(c) ==
  /\ Call(c) = "lock"
  /\ \/ Goal(c) = "terminate" /\ Seen(c) \in Terminable /\ Call(c)' = "peer?"
     \/ Goal(c) = "terminate" /\ Seen(c) \notin Terminable /\ Call(c)' = "raised"
     \/ Goal(c) = "enable" /\ Seen(c) = "WAITING" /\ Call(c)' = "peer?"
     \/ Goal(c) = "enable" /\ Seen(c) = "ENABLING" /\ Call(c)' = "config?"
     \/ Goal(c) = "disable" /\ Seen(c) = "ACTIVE" /\ Call(c)' = "list"
     \/ Goal(c) = "disable" /\ Seen(c) = "DISABLING" /\ Call(c)' = "peer?"
     \/ Goal(c) \in {"enable", "disable"} /\ Call(c)' = "done"
  /\ SameButCall(c) /\ state'[c] = state[c] /\ SamePeer(c) /\ SameThings(c)

(* kopf takes the finalizer away; the user creates or deletes the object,  *)
(* or bridges. *)
SameWorker(c) == Call(c)' = Call(c) /\ SameMemory(c) /\ param'[c] = param[c] /\ state'[c] = state[c]
Changes(c) ==
  /\ \/ phase[c] = "deleting" /\ todo[c] = {} /\ Call(c) = "idle"
        /\ phase'[c] = "gone" /\ todo'[c] = todo[c] /\ bridged'[c] = bridged[c]
     \/ phase[c] = "absent" /\ phase'[c] = "present" /\ todo'[c] = {"create"} /\ bridged'[c] = bridged[c]
     \/ phase[c] = "present" /\ phase'[c] = "deleting" /\ todo'[c] = {"delete"} /\ bridged'[c] = bridged[c]
     \/ phase[c] = "present" /\ phase'[c] = phase[c] /\ todo'[c] = todo[c]
  /\ account'[c] = account[c] /\ config'[c] = config[c]
  /\ SameWorker(c) /\ SamePeer(c) /\ SamePod

-----------------------------------------------------------------------------
(* They keep what is known of the handlers.                                *)

(* Where a call leads that changes neither object nor state. *)
LEMMA CallKeepsControl ==
  ASSUME NEW c \in Clients, Control(c), SameMemory(c), SameObject(c), state'[c] = state[c],
         Call(c) # "idle", Call(c)' \notin {"idle", "lock"},
         OnCourse(Goal(c), Call(c)', state[c])
  PROVE  Control(c)'
  BY DEF Control, Course, Life, Asks, SameMemory, SameObject

LEMMA WorkKeepsControl ==
  ASSUME NEW c \in Clients, Control(c), Works(c)
  PROVE  Control(c)'
<1> USE DEF SameButCall
<1>0. OnCourse(Goal(c), Call(c), state[c])
  BY DEF Control, Course
<1>1. ASSUME Looks(c) PROVE Control(c)'
  <2>1. OnCourse(Goal(c), Call(c)', state[c]) /\ Call(c) # "idle" /\ Call(c)' \notin {"idle", "lock"}
    BY <1>0, <1>1 DEF Looks, Look, OnCourse, AfterGoal, WithoutPod, Locking
  <2> QED
    BY <1>1, <2>1, CallKeepsControl DEF Looks
<1>2. ASSUME Restarts(c) \/ Adds(c) \/ Removes(c) \/ Writes(c) \/ Unbridges(c) \/ Accounts(c)
      PROVE Control(c)'
  <2>1. OnCourse(Goal(c), Call(c)', state[c]) /\ Call(c) # "idle" /\ Call(c)' \notin {"idle", "lock"}
    BY <1>0, <1>2 DEF Restarts, Adds, Removes, Writes, Unbridges, Accounts, OnCourse
  <2> QED
    BY <1>2, <2>1, CallKeepsControl DEF Restarts, Adds, Removes, Writes, Unbridges, Accounts
<1>3. ASSUME Persists(c) PROVE Control(c)'
  <2>1. OnCourse(Goal(c), Call(c)', state'[c]) /\ Call(c) # "idle" /\ Call(c)' \notin {"idle", "lock"}
    BY <1>0, <1>3 DEF Persists, OnCourse, Terminable
  <2>2. Asks(c)'
    BY <1>0, <1>3 DEF Control, Asks, Persists, OnCourse, SameMemory, SameObject
  <2> QED
    BY <1>3, <2>1, <2>2 DEF Control, Course, Life, Persists, SameMemory, SameObject
<1>4. ASSUME Ends(c) PROVE Control(c)'
  <2>1. Course(c)'
    BY <1>4 DEF Control, Course, OnCourse, TaskOf, Ends
  <2>2. Life(c)'
    <3>1. todo'[c] \subseteq todo[c]
      BY <1>4 DEF Ends
    <3> QED
      BY <1>4, <3>1 DEF Control, Life, Ends
  <2>3. Asks(c)'
    BY <1>4 DEF Control, Asks, Ends
  <2> QED
    BY <2>1, <2>2, <2>3 DEF Control
<1> QED
  BY <1>1, <1>2, <1>3, <1>4 DEF Works

LEMMA StartKeepsControl ==
  ASSUME NEW c \in Clients, phase[c] \in {"absent", "present", "deleting", "gone"},
         Control(c), Starts(c)
  PROVE  Control(c)'
<1>1. CASE Goal(c)' = "create" /\ "create" \in todo[c] /\ Task(c)' = "create"
           /\ Call(c)' = IF state[c] \in {"REQUESTED", "CREATING"} THEN Creation ELSE "done"
  BY <1>1 DEF Creation, Control, Course, Life, Asks, OnCourse, TaskOf, Starts, SameObject
<1>2. CASE Goal(c)' = "enable" /\ param[c] # NoSubnet /\ phase[c] = "present"
           /\ Task(c)' = "change" /\ Call(c)' = "lock"
  BY <1>2 DEF Control, Course, Life, Asks, OnCourse, TaskOf, Starts, SameObject
<1>3. CASE Goal(c)' = "disable" /\ param[c] = NoSubnet /\ phase[c] = "present"
           /\ Task(c)' = "change" /\ Call(c)' = "lock"
  BY <1>3 DEF Control, Course, Life, Asks, OnCourse, TaskOf, Starts, SameObject
<1>4. CASE Goal(c)' = "terminate" /\ "delete" \in todo[c] /\ Task(c)' = "delete" /\ Call(c)' = "lock"
  <2>1. phase[c] = "deleting"
    BY <1>4 DEF Control, Life
  <2> QED
    BY <1>4, <2>1 DEF Control, Course, Life, Asks, OnCourse, TaskOf, Starts, SameObject
<1> QED
  BY <1>1, <1>2, <1>3, <1>4 DEF Starts

LEMMA EnterKeepsControl ==
  ASSUME NEW c \in Clients, Control(c), Enters(c)
  PROVE  Control(c)'
<1>1. Seen(c) = state[c]
  BY DEF Control, Course, Enters
<1>2. OnCourse(Goal(c), Call(c)', state[c]) /\ Call(c) # "idle" /\ Call(c)' \notin {"idle", "lock"}
  BY <1>1 DEF Enters, OnCourse
<1> QED
  BY <1>2, CallKeepsControl DEF Enters, SameButCall

LEMMA ChangeKeepsControl ==
  ASSUME NEW c \in Clients, Control(c), Changes(c)
  PROVE  Control(c)'
  BY DEF Control, Course, Life, Asks, OnCourse, Changes, SameWorker, SameMemory

-----------------------------------------------------------------------------
(* ... of the client as a peer.                                            *)

LEMMA WorkKeepsPresent ==
  ASSUME NEW c \in Clients, Control(c), Present(c), Loaded(c), Works(c), PodFollows
  PROVE  Present(c)' /\ Loaded(c)'
<1> USE DEF SameButCall, SameMemory, SameObject, SamePeer, SameThings
<1>0. /\ OnCourse(Goal(c), Call(c), state[c])
      /\ phase[c] \in {"absent", "gone"} => Call(c) = "idle"
      /\ Goal(c) = "terminate" => phase[c] = "deleting"
      /\ Goal(c) = "enable" /\ state[c] # "ACTIVE" => Asked(c) = param[c] /\ param[c] # NoSubnet
  BY DEF Control, Course, Life, Asks
<1>1. ASSUME Looks(c) PROVE Present(c)' /\ Loaded(c)'
  <2>1. Present(c)'
    BY <1>0, <1>1 DEF Looks, Look, Present, OnCourse, AfterGoal, WithoutPod, Enabling
  <2>2. Loaded(c)'
    BY <1>0, <1>1 DEF Looks, Look, Loaded, OnCourse, AfterGoal, WithoutPod, SamePod
  <2> QED
    BY <2>1, <2>2
<1>2. ASSUME Restarts(c) PROVE Present(c)' /\ Loaded(c)'
  BY <1>0, <1>2 DEF Restarts, Present, Loaded, OnCourse, Enabling
<1>3. ASSUME Adds(c) PROVE Present(c)' /\ Loaded(c)'
  BY <1>0, <1>3 DEF Adds, Present, Loaded, OnCourse, Enabling, SamePod
<1>4. ASSUME Removes(c) PROVE Present(c)' /\ Loaded(c)'
  BY <1>0, <1>4 DEF Removes, Present, Loaded, OnCourse, Enabling, SamePod, Terminable
<1>5. ASSUME Writes(c) PROVE Present(c)' /\ Loaded(c)'
  BY <1>0, <1>5 DEF Writes, Present, Loaded, OnCourse, Enabling, SamePod
<1>6. ASSUME Unbridges(c) \/ Accounts(c) PROVE Present(c)' /\ Loaded(c)'
  BY <1>0, <1>6 DEF Unbridges, Accounts, Present, Loaded, OnCourse, Enabling, SamePod
<1>7. ASSUME Persists(c) PROVE Present(c)' /\ Loaded(c)'
  BY <1>0, <1>7 DEF Persists, Present, Loaded, OnCourse, Enabling, SamePod
<1>8. ASSUME Ends(c) PROVE Present(c)' /\ Loaded(c)'
  BY <1>0, <1>8 DEF Ends, Present, Loaded, SamePod
<1> QED
  BY <1>1, <1>2, <1>3, <1>4, <1>5, <1>6, <1>7, <1>8 DEF Works

LEMMA StartKeepsPresent ==
  ASSUME NEW c \in Clients, Control(c), Present(c), Loaded(c), Starts(c) \/ Enters(c) \/ Changes(c)
  PROVE  Present(c)' /\ Loaded(c)'
<1> USE DEF SameButCall, SameMemory, SameObject, SamePeer, SameThings, SamePod
<1>1. ASSUME Starts(c) PROVE Present(c)' /\ Loaded(c)'
  BY <1>1 DEF Starts, Creation, Present, Loaded, Enabling
<1>2. ASSUME Enters(c) PROVE Present(c)' /\ Loaded(c)'
  BY <1>2 DEF Enters, Present, Loaded, Enabling
<1>3. ASSUME Changes(c) PROVE Present(c)' /\ Loaded(c)'
  <2>1. phase[c] = "absent" => state[c] = "REQUESTED"
    BY DEF Control, Life
  <2> QED
    BY <1>3, <2>1 DEF Changes, SameWorker, Present, Loaded, Enabling
<1> QED
  BY <1>1, <1>2, <1>3

-----------------------------------------------------------------------------
(* ... and of the commands.                                                *)

(* What the operator does, a command sees in the object only. *)
Seeing(c) ==
  /\ cmd'[c] = cmd[c] /\ at'[c] = at[c] /\ net'[c] = net[c] /\ cargo'[c] = cargo[c]
  /\ "cargo" \in keys[c] /\ ~(Call(c) = "rm" /\ Call(c)' = "restart") => "cargo" \in keys'[c]

LEMMA WorkKeepsCommand ==
  ASSUME NEW c \in Clients, phase[c] \in {"absent", "present", "deleting", "gone"},
         Control(c), Command(c), Works(c), Seeing(c)
  PROVE  Command(c)'
<1>0. /\ OnCourse(Goal(c), Call(c), state[c])
      /\ phase[c] \in {"absent", "gone"} => Call(c) = "idle"
      /\ Goal(c) = "terminate" => phase[c] = "deleting"
      /\ Asks(c)
  BY DEF Control, Course, Life
<1>1. phase'[c] = phase[c] /\ param'[c] = param[c] /\ Call(c) # "idle"
  BY <1>0 DEF Works, Looks, Look, Restarts, Adds, Removes, Writes, Unbridges, Accounts, Persists, Ends,
     SameButCall, SameObject
<1>2. Found(c)' <=> Found(c)
  BY <1>1 DEF Found
<1>3. Call(c) = "rm" => state[c] = "DISABLING" \/ phase[c] = "deleting"
  BY <1>0 DEF OnCourse
<1>4. CASE state'[c] = state[c]
  <2>1. Placed(c)' /\ Agreed(c)' /\ SameNet(c)'
    BY <1>1, <1>2, <1>4 DEF Command, Placed, Agreed, SameNet, Seeing
  <2>2. Joined(c)'
    BY <1>1, <1>3 DEF Command, Agreed, Found, Joined, Seeing
  <2> QED
    BY <2>1, <2>2 DEF Command
<1>5. CASE Persists(c)
  <2>1. Found(c)
    BY <1>0, <1>5 DEF Control, Life, Persists, Found
  <2>2. Placed(c)' /\ Joined(c)'
    BY <1>1, <1>5 DEF Command, Placed, Joined, Seeing, Persists
  <2>3. Agreed(c)'
    BY <1>0, <1>1, <1>2, <1>5 DEF Command, Placed, Agreed, Seeing, Persists, Asks, OnCourse
  <2>4. SameNet(c)'
    BY <1>0, <1>1, <1>2, <1>5 DEF Command, Agreed, SameNet, Seeing, Persists, Asks, OnCourse
  <2> QED
    BY <2>2, <2>3, <2>4 DEF Command
<1> QED
  BY <1>4, <1>5 DEF Works, Looks, Restarts, Adds, Removes, Writes, Unbridges, Accounts, Ends

LEMMA StartKeepsCommand ==
  ASSUME NEW c \in Clients, Control(c), Command(c), Starts(c) \/ Enters(c) \/ Changes(c), Seeing(c)
  PROVE  Command(c)'
<1>1. param'[c] = param[c] /\ state'[c] = state[c] /\ (phase'[c] = phase[c] \/ Changes(c))
  BY DEF Starts, Enters, Changes, SameButCall, SameObject, SameWorker
<1>2. Call(c) # "rm" \/ Call(c)' # "restart"
  BY DEF Starts, Enters, Changes, SameWorker
<1>3. CASE phase'[c] = phase[c]
  BY <1>1, <1>2, <1>3 DEF Command, Placed, Agreed, SameNet, Joined, Seeing, Found
<1>4. CASE phase'[c] # phase[c]
  <2>1. /\ phase'[c] # "absent"
        /\ Found(c)' => Found(c) \/ phase[c] = "absent"
        /\ phase'[c] = "present" => phase[c] = "absent"
    BY <1>1, <1>4 DEF Changes, Found
  <2>2. Placed(c)' /\ Joined(c)'
    BY <1>2, <2>1 DEF Command, Placed, Joined, Seeing
  <2>3. CASE phase[c] = "absent"
    <3>1. state[c] = "REQUESTED" /\ param[c] = NoSubnet
      BY <2>3 DEF Control, Life, Asks
    <3>2. at[c] \in {"idle", "client", "failed", "rm cargo"} \/ (at[c] = "ok" /\ cmd[c] = "remove")
      BY <2>3 DEF Command, Placed
    <3>3. cmd[c] = "disconnect" /\ at[c] = "ok" => state[c] = "WAITING" /\ param[c] = NoSubnet
      BY DEF Command, Agreed
    <3>4. cmd'[c] = cmd[c] /\ at'[c] = at[c] /\ net'[c] = net[c] /\ cargo'[c] = cargo[c]
      BY DEF Seeing
    <3> QED
      BY <1>1, <2>2, <3>1, <3>2, <3>3, <3>4 DEF Command, Agreed, SameNet, Linked
  <2>4. CASE Found(c)' => Found(c)
    BY <1>1, <2>2, <2>4 DEF Command, Agreed, SameNet, Seeing
  <2> QED
    BY <2>1, <2>3, <2>4
<1> QED
  BY <1>3, <1>4

-----------------------------------------------------------------------------
(* ... and, where every edit of the map is made under the lock, of what is *)
(* left of the client.                                                     *)

LEMMA WorkKeepsAlone ==
  ASSUME NEW c \in Clients, Goal(c) \in Goals, account[c] \subseteq {"account", "binding", "token"},
         Control(c), Alone(c), Works(c),
         Call(c) \in {"rm", "restart"} => pod = "ready",
         Call(c) = "replace" => W(c) \in fresh
  PROVE  Alone(c)'
<1> USE DEF SameButCall, SameMemory, SameObject, SamePeer, SameThings
<1>0. /\ OnCourse(Goal(c), Call(c), state[c])
      /\ phase[c] \in {"absent", "gone"} => Call(c) = "idle"
      /\ phase[c] = "deleting" => todo[c] \subseteq {"delete"}
      /\ Goal(c) = "terminate" => phase[c] = "deleting" /\ "delete" \in todo[c]
      /\ Goal(c) = "enable" /\ state[c] # "ACTIVE" => Asked(c) = param[c]
      /\ Task(c) = TaskOf(Goal(c))
  BY DEF Control, Course, Life, Asks
<1>1. phase'[c] = phase[c] /\ param'[c] = param[c] /\ Call(c) # "idle"
  BY <1>0 DEF Works, Looks, Look, Restarts, Adds, Removes, Writes, Unbridges, Accounts, Persists, Ends
<1>2. Absent(c)'
  <2>1. CASE Looks(c)
    BY <1>0, <2>1 DEF Alone, Absent, Looks, Look, OnCourse, AfterGoal, WithoutPod, Enabling
  <2>2. CASE Restarts(c) \/ Adds(c) \/ Removes(c)
    BY <1>0, <2>2 DEF Alone, Absent, Restarts, Adds, Removes, OnCourse, Enabling
  <2>3. CASE Writes(c) \/ Unbridges(c) \/ Accounts(c)
    BY <1>0, <2>3 DEF Alone, Absent, Writes, Unbridges, Accounts, OnCourse, Enabling
  <2>4. CASE Persists(c) \/ Ends(c)
    BY <1>0, <2>4 DEF Alone, Absent, Persists, Ends, OnCourse, Enabling
  <2> QED
    BY <2>1, <2>2, <2>3, <2>4 DEF Works
<1>3. Routed(c)'
  <2>1. CASE Looks(c)
    BY <1>0, <2>1 DEF Alone, Absent, Routed, Looks, Look, OnCourse, AfterGoal, WithoutPod, Enabling
  <2>2. CASE Restarts(c) \/ Adds(c) \/ Removes(c)
    BY <1>0, <2>2 DEF Alone, Routed, Restarts, Adds, Removes, OnCourse, Enabling, Terminable
  <2>3. CASE Writes(c) \/ Unbridges(c) \/ Accounts(c)
    BY <1>0, <2>3 DEF Alone, Routed, Writes, Unbridges, Accounts, OnCourse, Enabling
  <2>4. CASE Persists(c) \/ Ends(c)
    BY <1>0, <2>4 DEF Alone, Routed, Persists, Ends, OnCourse, Enabling
  <2> QED
    BY <2>1, <2>2, <2>3, <2>4 DEF Works
<1>4. Account(c)'
  <2>1. CASE Looks(c)
    BY <1>0, <2>1 DEF Alone, Account, Looks, Look, OnCourse, AfterGoal, WithoutPod
  <2>2. CASE Accounts(c)
    <3>1. Account(c) /\ account[c] \subseteq {"account", "binding", "token"}
      BY DEF Alone
    <3>2. Goal(c)' = Goal(c)
      BY <2>2 DEF Accounts
    <3>3. CASE Call(c) \in {"account", "binding", "token"}
      BY <1>0, <2>2, <3>1, <3>2, <3>3 DEF Account, Accounts, OnCourse
    <3>4. CASE Call(c) = "delete binding"
      <4>1. account'[c] = account[c] \ {"binding"}
            /\ Call(c)' = IF "binding" \in account[c] THEN "delete account" ELSE "list"
        BY <2>2, <3>4 DEF Accounts
      <4>2. "binding" \notin account[c] => account[c] = {}
        BY <3>1, <3>4 DEF Account
      <4> QED
        BY <3>1, <3>2, <3>4, <4>1, <4>2 DEF Account
    <3>5. CASE Call(c) = "delete account"
      <4>1. account'[c] = {} /\ Call(c)' = "list"
        BY <2>2, <3>1, <3>5 DEF Account, Accounts
      <4> QED
        BY <4>1 DEF Account
    <3> QED
      BY <2>2, <3>3, <3>4, <3>5 DEF Accounts
  <2>3. CASE Restarts(c) \/ Adds(c) \/ Removes(c) \/ Writes(c) \/ Unbridges(c) \/ Persists(c) \/ Ends(c)
    BY <1>0, <2>3 DEF Alone, Account, Restarts, Adds, Removes, Writes, Unbridges, Persists, Ends, OnCourse
  <2> QED
    BY <2>1, <2>2, <2>3 DEF Works
<1>5. Clean(c)'
  <2>1. phase[c] = "deleting" => "delete" \in todo[c]
    BY <1>1 DEF Alone, Clean
  <2>2. CASE Ends(c)
    BY <1>0, <1>1, <2>1, <2>2 DEF Alone, Absent, Account, Clean, Cleaned, Ends, TaskOf, OnCourse, Goals
  <2>3. CASE ~Ends(c)
    <3>1. todo'[c] = todo[c]
      BY <2>3 DEF Works, Looks, Restarts, Adds, Removes, Writes, Unbridges, Accounts, Persists
    <3>2. Goal(c)' = "terminate" /\ Call(c)' = "done" => ~bridged'[c]
      BY <1>0, <2>3 DEF Works, Looks, Look, Restarts, Adds, Removes, Writes, Unbridges, Accounts, Persists,
         AfterGoal, WithoutPod, OnCourse
    <3>3. phase[c] # "gone"
      BY <1>0, <1>1
    <3> QED
      BY <1>1, <2>1, <3>1, <3>2, <3>3 DEF Clean
  <2> QED
    BY <2>2, <2>3
<1> QED
  BY <1>2, <1>3, <1>4, <1>5 DEF Alone

LEMMA StartKeepsAlone ==
  ASSUME NEW c \in Clients, Control(c), Alone(c), Starts(c) \/ Enters(c) \/ Changes(c)
  PROVE  Alone(c)'
<1> USE DEF SameButCall, SameMemory, SameObject, SamePeer, SameThings
<1>0. /\ OnCourse(Goal(c), Call(c), state[c]) /\ Life(c)
  BY DEF Control, Course
<1>1. ASSUME Starts(c) PROVE Alone(c)'
  <2>1. phase[c] = "deleting" => "delete" \in todo[c]
    BY <1>0, <1>1 DEF Starts, Alone, Clean, Life
  <2>2. phase[c] # "gone"
    BY <1>0, <1>1 DEF Starts, Life
  <2>3. Absent(c)' /\ Routed(c)' /\ Account(c)'
    BY <1>0, <1>1 DEF Starts, Creation, Alone, Absent, Routed, Account, Enabling, OnCourse
  <2>4. Clean(c)'
    BY <1>1, <2>1, <2>2 DEF Starts, Clean
  <2> QED
    BY <2>3, <2>4 DEF Alone
<1>2. ASSUME Enters(c) PROVE Alone(c)'
  <2>1. phase[c] = "deleting" => "delete" \in todo[c]
    BY <1>0, <1>2 DEF Enters, Alone, Clean, Life
  <2>2. phase[c] # "gone"
    BY <1>0, <1>2 DEF Enters, Life
  <2>3. Absent(c)' /\ Routed(c)' /\ Account(c)'
    BY <1>0, <1>2 DEF Enters, Alone, Absent, Routed, Account, Enabling, OnCourse
  <2>4. Clean(c)'
    BY <1>2, <2>1, <2>2 DEF Enters, Clean
  <2> QED
    BY <2>3, <2>4 DEF Alone
<1>3. ASSUME Changes(c) PROVE Alone(c)'
  <2>1. Absent(c)' /\ Account(c)'
    BY <1>3 DEF Changes, SameWorker, Alone, Absent, Account
  <2>2. Routed(c)'
    BY <1>0, <1>3 DEF Changes, SameWorker, Alone, Routed, Life
  <2>3. Clean(c)'
    BY <1>0, <1>3 DEF Changes, SameWorker, Alone, Clean, Cleaned, Life
  <2> QED
    BY <2>1, <2>2, <2>3 DEF Alone
<1> QED
  BY <1>1, <1>2, <1>3

-----------------------------------------------------------------------------
(* A step of a command. *)

SameOperator(c) ==
  /\ Call(c)' = Call(c) /\ SameMemory(c) /\ phase'[c] = phase[c] /\ todo'[c] = todo[c]
  /\ state'[c] = state[c] /\ SamePeer(c) /\ SameThings(c) /\ SamePod

(* It asks to be connected where nothing is asked for, or to be            *)
(* disconnected where the client is connected. *)
Requests(c) ==
  \/ param'[c] = param[c]
  \/ state[c] = "WAITING" /\ param[c] = NoSubnet
  \/ state[c] = "ACTIVE" /\ param'[c] = NoSubnet

LEMMA RequestKeepsOperator ==
  ASSUME NEW c \in Clients, Control(c), SameOperator(c), Requests(c)
  PROVE  /\ Control(c)'
         /\ Present(c) => Present(c)'
         /\ Loaded(c) => Loaded(c)'
         /\ Alone(c) => Alone(c)'
<1> USE DEF SameOperator, SameMemory, SamePeer, SameThings, SamePod
<1>1. Control(c)'
  BY DEF Control, Course, Life, Asks, Requests
<1>2. (Present(c) => Present(c)') /\ (Loaded(c) => Loaded(c)')
  BY DEF Present, Loaded
<1>3. Routed(c) => Routed(c)'
  BY DEF Control, Course, OnCourse, Asks, Requests, Routed, Enabling
<1>4. Alone(c) => Alone(c)'
  BY <1>3 DEF Alone, Absent, Account, Clean, Cleaned
<1> QED
  BY <1>1, <1>2, <1>4

(* What a command reads of the object stays as it is. *)
Reading(c) == phase'[c] = phase[c] /\ state'[c] = state[c] /\ param'[c] = param[c]

LEMMA FailKeepsCommand ==
  ASSUME NEW c \in Clients, Command(c), Reading(c),
         at[c] \notin {"idle", "ok", "failed", "rm cargo"}, at[c] = "await" => ~Found(c),
         at'[c] = IF cmd[c] = "remove" THEN "rm cargo" ELSE "failed",
         cmd'[c] = cmd[c] \/ (cmd[c] = "reconnect" /\ cmd'[c] = "connect"),
         net'[c] = net[c], cargo'[c] \in {cargo[c], "none"}
  PROVE  Command(c)'
<1>1. Found(c)' <=> Found(c)
  BY DEF Found, Reading
<1> QED
  BY <1>1 DEF Command, Placed, Agreed, SameNet, Joined, Linked, Reading, Found

(* The types that a command's step needs. *)
Typed == CommandInv /\ TypeOK

LEMMA FailIsSeen ==
  ASSUME Typed, NEW c \in Clients, Fails(c)
  PROVE  at'[c] = IF cmd[c] = "remove" THEN "rm cargo" ELSE "failed"
  BY DEF Fails, Go, Typed, CommandInv, MachineTyped

LEMMA CommandKeepsCommand ==
  ASSUME Typed, NEW c \in Clients, Command(c), Run(c)
  PROVE  Command(c)' /\ Requests(c)
<1> USE DEF Command
<1>0. /\ at \in [Clients -> Ats] /\ cmd \in [Clients -> Commands \cup {"none"}]
      /\ net \in [Clients -> Subnets \cup {NoSubnet}] /\ param \in [Clients -> Subnets \cup {NoSubnet}]
      /\ cargo \in [Clients -> {"none", "stopped", "running"}]
      /\ keys \in [Clients -> SUBSET {"object", "conf", "cargo"}]
      /\ at[c] = "activate" => cmd[c] = "connect" /\ net[c] \in Subnets
      /\ at[c] # "idle" => cmd[c] # "none"
  BY DEF Typed, CommandInv, MachineTyped, LocalTyped, MachineInv, UsesNet, TypeOK
<1>1. ASSUME GetClient(c) PROVE Command(c)' /\ Requests(c)
  <2>1. /\ at[c] = "client" /\ Reading(c) /\ net'[c] = net[c] /\ cargo'[c] = cargo[c]
        /\ cmd'[c] = IF cmd[c] = "reconnect" /\ ~(Found(c) /\ state[c] = "ACTIVE") THEN "connect" ELSE cmd[c]
    BY <1>0, <1>1 DEF GetClient, Reading, local, vars
  <2>2. CASE Fails(c)
    BY <2>1, <2>2, FailIsSeen, FailKeepsCommand DEF Requests, Reading
  <2>3. CASE /\ at'[c] = IF cmd[c] = "remove" THEN "state?" ELSE "network"
             /\ Found(c) /\ (cmd[c] = "connect" /\ state[c] = "ACTIVE" => cargo[c] # "none")
    BY <1>0, <2>1, <2>3 DEF Placed, Agreed, SameNet, Joined, Linked, Found, Reading, Requests
  <2>4. \/ Fails(c)
        \/ /\ at'[c] = IF cmd[c] = "remove" THEN "state?" ELSE "network"
           /\ Found(c) /\ (cmd[c] = "connect" /\ state[c] = "ACTIVE" => cargo[c] # "none")
    BY <1>0, <1>1 DEF GetClient, Go
  <2> QED
    BY <2>2, <2>3, <2>4
<1>2. ASSUME Network(c) PROVE Command(c)' /\ Requests(c)
  <2>1. /\ at[c] = "network" /\ Reading(c) /\ cmd'[c] = cmd[c] /\ cargo'[c] = cargo[c]
        /\ net[c] # NoSubnet => net'[c] = net[c]
        /\ at'[c] = IF cmd[c] = "connect" THEN "state?" ELSE "stop cargo"
    BY <1>0, <1>2 DEF Network, Go, AfterNetwork, Reading, vars
  <2> QED
    BY <1>0, <2>1 DEF Placed, Agreed, SameNet, Joined, Linked, Found, Reading, Requests
<1>3. ASSUME NoNetwork(c) \/ Gone(c) \/ NotFound(c) \/ StartFails(c) PROVE Command(c)' /\ Requests(c)
  <2>1. /\ at[c] \in {"network", "activate", "deactivate", "await", "start cargo"}
        /\ at[c] = "await" => ~Found(c)
        /\ Fails(c) /\ Reading(c) /\ cmd'[c] = cmd[c] /\ net'[c] = net[c] /\ cargo'[c] \in {cargo[c], "none"}
    BY <1>0, <1>3 DEF NoNetwork, Gone, NotFound, StartFails, Reading, local, vars
  <2> QED
    BY <2>1, FailIsSeen, FailKeepsCommand DEF Requests, Reading
<1>4. ASSUME StopCargo(c) PROVE Command(c)' /\ Requests(c)
  <2>1. /\ at[c] = "stop cargo" /\ at'[c] = "state?" /\ Reading(c) /\ cmd'[c] = cmd[c] /\ net'[c] = net[c]
        /\ cargo[c] = "none" => cargo'[c] = "none"
    BY <1>0, <1>4 DEF StopCargo, Go, Reading, vars
  <2> QED
    BY <1>0, <2>1 DEF Placed, Agreed, SameNet, Joined, Linked, Found, Reading, Requests
<1>5. ASSUME AskState(c) PROVE Command(c)' /\ Requests(c)
  <2>1. /\ at[c] = "state?" /\ Reading(c) /\ cmd'[c] = cmd[c] /\ net'[c] = net[c] /\ cargo'[c] = cargo[c]
    BY <1>0, <1>5 DEF AskState, Reading, local, vars
  <2>2. CASE Fails(c)
    BY <2>1, <2>2, FailIsSeen, FailKeepsCommand DEF Requests, Reading
  <2>3. CASE Found(c) /\ state[c] = Wanted(c) /\ at'[c] = "await"
    BY <2>1, <2>3 DEF Wanted, Placed, Agreed, SameNet, Joined, Linked, Found, Reading, Requests
  <2>4. CASE Found(c) /\ state[c] = Other(c) /\ at'[c] = IF cmd[c] = "connect" THEN "activate" ELSE "deactivate"
    BY <2>1, <2>4 DEF Other, Placed, Agreed, SameNet, Joined, Linked, Found, Reading, Requests
  <2> QED
    BY <1>0, <1>5, <2>2, <2>3, <2>4 DEF AskState, Go
<1>6. ASSUME Activate(c) PROVE Command(c)' /\ Requests(c)
  <2>1. /\ at[c] = "activate" /\ at'[c] = "await" /\ Found(c) /\ cmd'[c] = cmd[c] /\ net'[c] = net[c]
        /\ cargo'[c] = cargo[c] /\ param'[c] = net[c] /\ phase'[c] = phase[c] /\ state'[c] = state[c]
    BY <1>0, <1>6 DEF Activate, Go, local
  <2> QED
    BY <1>0, <2>1 DEF Placed, Agreed, SameNet, Joined, Linked, Found, Requests
<1>7. ASSUME Rejected(c) PROVE Command(c)' /\ Requests(c)
  <2>1. /\ at[c] = "activate" /\ Found(c) /\ Reading(c) /\ cmd'[c] = cmd[c] /\ cargo'[c] = cargo[c]
    BY <1>0, <1>7 DEF Rejected, Reading, vars
  <2>2. CASE Fails(c) /\ UNCHANGED net
    BY <2>1, <2>2, FailIsSeen, FailKeepsCommand DEF Requests, Reading
  <2>3. CASE at'[c] = "network"
    BY <2>1, <2>3 DEF Placed, Agreed, SameNet, Joined, Linked, Found, Reading, Requests
  <2> QED
    BY <1>0, <1>7, <2>2, <2>3 DEF Rejected, Go
<1>8. ASSUME Deactivate(c) PROVE Command(c)' /\ Requests(c)
  <2>1. /\ at[c] = "deactivate" /\ at'[c] = "await" /\ Found(c) /\ cmd'[c] = cmd[c] /\ net'[c] = net[c]
        /\ cargo'[c] = cargo[c] /\ param'[c] = NoSubnet /\ phase'[c] = phase[c] /\ state'[c] = state[c]
    BY <1>0, <1>8 DEF Deactivate, Go, local
  <2> QED
    BY <1>0, <2>1 DEF Placed, Agreed, SameNet, Joined, Linked, Found, Requests
<1>9. ASSUME Awaited(c) PROVE Command(c)' /\ Requests(c)
  <2>1. /\ at[c] = "await" /\ Found(c) /\ state[c] = Wanted(c) /\ Reading(c)
        /\ net'[c] = net[c] /\ cargo'[c] = cargo[c]
        /\ cmd'[c] = IF cmd[c] = "reconnect" THEN "connect" ELSE cmd[c]
        /\ cmd[c] = "connect"    => at'[c] = "save"
        /\ cmd[c] = "reconnect"  => at'[c] = "network"
        /\ cmd[c] = "disconnect" => at'[c] = "ok"
        /\ cmd[c] = "remove"     => at'[c] = "rm cargo"
    BY <1>0, <1>9 DEF Awaited, Go, Reading, local, vars
  <2>2. cmd[c] \in Commands
    BY <1>0, <2>1
  <2> QED
    BY <2>1, <2>2 DEF Commands, Wanted, Placed, Agreed, SameNet, Joined, Linked, Found, Reading, Requests
<1>10. ASSUME SaveConfig(c) PROVE Command(c)' /\ Requests(c)
  <2>1. /\ at[c] = "save" /\ Reading(c) /\ cmd'[c] = cmd[c] /\ net'[c] = net[c] /\ cargo'[c] = cargo[c]
        /\ at'[c] = "start cargo" \/ Fails(c)
    BY <1>0, <1>10 DEF SaveConfig, Go, Reading, local, vars
  <2>2. CASE Fails(c)
    BY <2>1, <2>2, FailIsSeen, FailKeepsCommand DEF Requests, Reading
  <2>3. CASE at'[c] = "start cargo"
    BY <2>1, <2>3 DEF Placed, Agreed, SameNet, Joined, Linked, Found, Reading, Requests
  <2> QED
    BY <2>1, <2>2, <2>3
<1>11. ASSUME StartCargo(c) PROVE Command(c)' /\ Requests(c)
  <2>1. /\ at[c] = "start cargo" /\ at'[c] = "probe" /\ Reading(c) /\ cmd'[c] = cmd[c] /\ net'[c] = net[c]
    BY <1>0, <1>11 DEF StartCargo, Go, Reading, vars
  <2> QED
    BY <2>1 DEF Placed, Agreed, SameNet, Joined, Linked, Found, Reading, Requests
<1>12. ASSUME Probe(c) PROVE Command(c)' /\ Requests(c)
  <2>1. /\ at[c] = "probe" /\ Reading(c) /\ cmd'[c] = cmd[c] /\ net'[c] = net[c] /\ cargo'[c] = cargo[c]
        /\ keys'[c] = keys[c]
        /\ (at'[c] = "ok" /\ Tunnel(c)) \/ Fails(c)
    BY <1>0, <1>12 DEF Probe, Go, Reading, local, vars
  <2>2. CASE Fails(c)
    BY <2>1, <2>2, FailIsSeen, FailKeepsCommand DEF Requests, Reading
  <2>3. CASE at'[c] = "ok" /\ Tunnel(c)
    BY <2>1, <2>3 DEF Tunnel, Placed, Agreed, SameNet, Joined, Linked, Found, Reading, Requests
  <2> QED
    BY <2>1, <2>2, <2>3
<1>13. ASSUME RemoveLocal(c) PROVE Command(c)' /\ Requests(c)
  <2>1. /\ at[c] = "rm cargo" /\ at'[c] = "ok" /\ Reading(c) /\ cmd'[c] = cmd[c] /\ cargo'[c] = "none"
    BY <1>0, <1>13 DEF RemoveLocal, Go, Reading, vars
  <2> QED
    BY <2>1 DEF Placed, Agreed, SameNet, Joined, Linked, Found, Reading, Requests
<1> QED
  BY <1>1, <1>2, <1>3, <1>4, <1>5, <1>6, <1>7, <1>8, <1>9, <1>10, <1>11, <1>12, <1>13 DEF Run

LEMMA StartKeepsCommands ==
  ASSUME Typed, NEW c \in Clients, Command(c), NEW command \in Commands, Start(c, command)
  PROVE  Command(c)' /\ Requests(c)
<1>1. /\ at[c] \in {"idle", "ok", "failed"} /\ at'[c] = "client" /\ Reading(c)
      /\ net'[c] = net[c] /\ cargo'[c] = cargo[c]
  BY DEF Start, Go, Reading, local, vars, Typed, CommandInv, MachineTyped
<1> QED
  BY <1>1 DEF Command, Placed, Agreed, SameNet, Joined, Linked, Found, Reading, Requests

-----------------------------------------------------------------------------
(* The steps of the model, seen from a client: of its own worker first.    *)

LEMMA GoesTo ==
  ASSUME TypeOK, NEW c \in Clients, NEW call, Goto(W(c), call)
  PROVE  Call(c)' = call /\ pc'[<<c, "timer">>] = pc[<<c, "timer">>]
<1>1. W(c) \in Procs /\ <<c, "timer">> \in Procs /\ <<c, "timer">> # W(c)
  BY DEF W, Procs
<1>2. pc \in [Procs -> Pcs]
  BY DEF TypeOK
<1> QED
  BY <1>1, <1>2 DEF Goto, Call

LEMMA CallsOf ==
  ASSUME TypeOK, NEW c \in Clients, Control(c), AtGoal(W(c))
  PROVE  /\ Call(c) \in {"peer?", "read", "replace", "rm", "restart", "await pod"} => Goal(c) \in Locking
         /\ Goal(c) \in Goals
         /\ Done(W(c)) = "done" /\ AfterPeer(W(c)) = AfterGoal(Goal(c)) /\ NoPod(W(c)) = WithoutPod(Goal(c))
         /\ AfterBridges(W(c)) = IF Goal(c) = "disable" THEN "disabling" ELSE "done"
         /\ Broken(W(c)) = IF Goal(c) = "disable" THEN "raised" ELSE "done"
         /\ Call(c) # "delete object"
<1>1. Goal(c) \in Goals /\ Task(c) = TaskOf(Goal(c)) /\ OnCourse(Goal(c), Call(c), state[c])
  BY WorkerOf DEF TypeOK, Goal, Goals, Control, Course
<1>2. Task(c) # "reconcile"
  BY <1>1 DEF TaskOf, Goals
<1>3. Done(W(c)) = "done"
  BY <1>2 DEF Done, Task
<1>4. Call(c) \in PeerCalls => Goal(c) \in {"enable", "disable", "terminate"}
  BY DEF AtGoal, Fits, Call, Goal
<1>5. Call(c) # "delete object"
  BY <1>1 DEF OnCourse
<1> QED
  BY <1>1, <1>3, <1>4, <1>5
  DEF PeerCalls, Locking, AfterPeer, AfterGoal, NoPod, WithoutPod, AfterBridges, Broken, Goal

LEMMA LookWorks ==
  ASSUME TypeOK, NEW c \in Clients, Control(c), AtGoal(W(c)),
         \/ AskPeer(W(c)) \/ RemoveFiles(W(c)) \/ AwaitPod(W(c)) \/ AskConfig(W(c)) \/ CopyConfig(W(c))
         \/ ListBridges(W(c)) \/ ReadAccount(W(c)) \/ PublishToken(W(c))
  PROVE  Looks(c) /\ SamePod
<1>1. UNCHANGED <<object, kopf, account, bridged, peerMap, stowaway, mem>> /\ Of(W(c)) = c
  BY WorkerOf DEF AskPeer, RemoveFiles, AwaitPod, AskConfig, CopyConfig, ListBridges, ReadAccount, PublishToken
<1>2. pc[W(c)] = Call(c) /\ mem[W(c)].goal = Goal(c)
  BY DEF Call, Goal
<1>3. PICK call : Goto(W(c), call)
  BY DEF AskPeer, RemoveFiles, AwaitPod, AskConfig, CopyConfig, ListBridges, ReadAccount, PublishToken
<1>4. \A call2 : Goto(W(c), call2) => Call(c)' = call2
  BY GoesTo
<1>5. pc'[<<c, "timer">>] = pc[<<c, "timer">>]
  BY <1>3, GoesTo
<1>6. SameButCall(c) /\ state'[c] = state[c] /\ SamePeer(c) /\ SameThings(c) /\ SamePod
  BY <1>1, <1>5 DEF SameButCall, SameMemory, SameObject, SamePeer, SameThings, SamePod, Goal, Task, Seen,
     Asked, object, kopf, peerMap, stowaway
<1>7. Look(c)
  <2>1. CASE AskPeer(W(c))
    BY <1>1, <1>2, <1>4, <2>1, CallsOf DEF AskPeer, Look, Locking
  <2>2. CASE RemoveFiles(W(c)) \/ AwaitPod(W(c))
    BY <1>1, <1>2, <1>4, <2>2, CallsOf DEF RemoveFiles, AwaitPod, Look
  <2>3. CASE AskConfig(W(c)) \/ CopyConfig(W(c)) \/ PublishToken(W(c))
    BY <1>1, <1>2, <1>4, <2>3 DEF AskConfig, CopyConfig, PublishToken, Look
  <2>4. CASE ListBridges(W(c)) \/ ReadAccount(W(c))
    BY <1>1, <1>2, <1>4, <2>4, CallsOf DEF ListBridges, ReadAccount, Look
  <2> QED
    BY <2>1, <2>2, <2>3, <2>4
<1> QED
  BY <1>6, <1>7 DEF Looks

LEMMA PeersWork ==
  ASSUME TypeOK, NEW c \in Clients, Control(c), AtGoal(W(c)),
         ReadPeers(W(c)) \/ PatchPeers(W(c)) \/ ReplacePeers(W(c)) \/ RestartPod(W(c))
  PROVE  Works(c) /\ (SamePod \/ (pod # "none" /\ pod' = "none"))
<1>1. UNCHANGED <<object, kopf, account, bridged>> /\ Of(W(c)) = c /\ W(c) \in Procs
  BY WorkerOf DEF ReadPeers, PatchPeers, ReplacePeers, RestartPod
<1>2. pc[W(c)] = Call(c) /\ mem[W(c)].goal = Goal(c)
  BY DEF Call, Goal
<1>3. PICK call : Goto(W(c), call)
  BY DEF ReadPeers, PatchPeers, ReplacePeers, RestartPod
<1>4. \A call2 : Goto(W(c), call2) => Call(c)' = call2
  BY GoesTo
<1>5. pc'[<<c, "timer">>] = pc[<<c, "timer">>]
  BY <1>3, GoesTo
<1>6. SameMemory(c)
  <2>1. mem' = mem \/ mem' = [mem EXCEPT ![W(c)].snap = peers]
    BY DEF ReadPeers, PatchPeers, ReplacePeers, RestartPod
  <2>2. mem \in [Procs -> Memory]
    BY TypesSplit DEF ProcsTyped
  <2> QED
    BY <1>1, <1>5, <2>1, <2>2 DEF SameMemory, Goal, Task, Seen, Asked, Memory
<1>7. SameObject(c) /\ state'[c] = state[c] /\ SameThings(c)
  BY <1>1 DEF SameObject, SameThings, object, kopf
<1>8. CASE ReadPeers(W(c))
  <2>1. SamePod /\ SamePeer(c)
    BY <1>8 DEF ReadPeers, SamePod, SamePeer, stowaway
  <2>2. Look(c)
    BY <1>1, <1>2, <1>4, <1>8, CallsOf DEF ReadPeers, Look
  <2> QED
    BY <1>6, <1>7, <2>1, <2>2 DEF Works, Looks, SameButCall
<1>9. CASE PatchPeers(W(c))
  <2>1. c \in peers' /\ allowed'[c] = Asked(c)
    <3>1. allowed \in [Clients -> Subnets \cup {NoSubnet}]
      BY DEF TypeOK
    <3> QED
      BY <1>1, <1>9, <3>1 DEF PatchPeers, Asked
  <2>2. SamePod
    BY <1>9 DEF PatchPeers, SamePod, stowaway
  <2>3. Call(c) = "patch" /\ Call(c)' = "restart"
    BY <1>2, <1>4, <1>9 DEF PatchPeers
  <2> QED
    BY <1>6, <1>7, <2>1, <2>2, <2>3 DEF Works, Adds, SameButCall
<1>10. CASE ReplacePeers(W(c))
  <2>1. SamePod
    BY <1>10 DEF ReplacePeers, SamePod, stowaway
  <2>2. Call(c) = "replace"
    BY <1>2, <1>10 DEF ReplacePeers
  <2>3. CASE W(c) \in fresh
    <3>1. allowed \in [Clients -> Subnets \cup {NoSubnet}]
      BY DEF TypeOK
    <3>2. c \notin peers' /\ allowed'[c] = NoSubnet /\ Call(c)' = "rm"
      BY <1>1, <1>4, <1>10, <2>3, <3>1 DEF ReplacePeers
    <3> QED
      BY <1>6, <1>7, <2>1, <2>2, <2>3, <3>2 DEF Works, Removes, SameButCall
  <2>4. CASE W(c) \notin fresh
    <3>1. SamePeer(c) /\ Call(c)' = AfterGoal(Goal(c))
      BY <1>4, <1>10, <2>4, CallsOf DEF ReplacePeers, peerMap, SamePeer
    <3> QED
      BY <1>6, <1>7, <2>1, <2>2, <2>4, <3>1 DEF Works, Looks, Look, SameButCall
  <2> QED
    BY <2>3, <2>4
<1>11. CASE RestartPod(W(c))
  <2>1. SamePeer(c) /\ Call(c) = "restart"
    BY <1>2, <1>11 DEF RestartPod, peerMap, SamePeer
  <2>2. CASE pod = "none"
    <3>1. SamePod /\ Call(c)' \in {WithoutPod(Goal(c)), AfterGoal(Goal(c))}
      BY <1>4, <1>11, <2>2, CallsOf DEF RestartPod, SamePod, stowaway
    <3> QED
      BY <1>6, <1>7, <2>1, <2>2, <3>1 DEF Works, Looks, Look, SameButCall
  <2>3. CASE pod # "none"
    <3>1. pod' = "none" /\ Call(c)' = "await pod"
      BY <1>4, <1>11, <2>3 DEF RestartPod
    <3> QED
      BY <1>6, <1>7, <2>1, <2>3, <3>1 DEF Works, Restarts
  <2> QED
    BY <2>2, <2>3
<1> QED
  BY <1>8, <1>9, <1>10, <1>11

LEMMA ThingsWork ==
  ASSUME TypeOK, NEW c \in Clients, Control(c), AtGoal(W(c)),
         \/ WriteConfig(W(c)) \/ DeleteBridge(W(c))
         \/ MakeAccount(W(c)) \/ MakeBinding(W(c)) \/ ReadToken(W(c))
         \/ DeleteBinding(W(c)) \/ DeleteAccount(W(c))
  PROVE  Works(c) /\ SamePod
<1>0. Of(W(c)) = c
  BY WorkerOf
<1>1. UNCHANGED <<phase, state, param, kopf, peerMap, stowaway, mem>>
  BY DEF WriteConfig, DeleteBridge, MakeAccount, MakeBinding, ReadToken, DeleteBinding, DeleteAccount, object
<1>2. pc[W(c)] = Call(c) /\ mem[W(c)].goal = Goal(c)
  BY DEF Call, Goal
<1>3. PICK call : Goto(W(c), call)
  BY DEF WriteConfig, DeleteBridge, MakeAccount, MakeBinding, ReadToken, DeleteBinding, DeleteAccount
<1>4. \A call2 : Goto(W(c), call2) => Call(c)' = call2
  BY GoesTo
<1>5. pc'[<<c, "timer">>] = pc[<<c, "timer">>]
  BY <1>3, GoesTo
<1>6. SameButCall(c) /\ state'[c] = state[c] /\ SamePeer(c) /\ SamePod
  BY <1>1, <1>5 DEF SameButCall, SameMemory, SameObject, SamePeer, SamePod, Goal, Task, Seen, Asked, kopf,
     peerMap, stowaway
<1>7. /\ config \in [Clients -> BOOLEAN] /\ bridged \in [Clients -> BOOLEAN]
      /\ account \in [Clients -> SUBSET {"account", "binding", "token"}]
  BY DEF TypeOK
<1>8. CASE WriteConfig(W(c))
  <2>1. account'[c] = account[c] /\ bridged'[c] = bridged[c]
    BY <1>8 DEF WriteConfig
  <2>2. \/ Call(c) = "write config" /\ Call(c)' = "activate" /\ config'[c]
        \/ Call(c) = "clear config" /\ Call(c)' = "waiting"
    BY <1>0, <1>2, <1>4, <1>7, <1>8 DEF WriteConfig
  <2> QED
    BY <1>6, <2>1, <2>2 DEF Works, Writes
<1>9. CASE DeleteBridge(W(c))
  <2>1. account'[c] = account[c] /\ config'[c] = config[c] /\ ~bridged'[c] /\ Call(c) = "delete bridge"
    BY <1>0, <1>2, <1>7, <1>9 DEF DeleteBridge, object
  <2>2. Call(c)' \in IF Goal(c) = "disable" THEN {"disabling", "raised"} ELSE {"done"}
    BY <1>4, <1>9, CallsOf DEF DeleteBridge
  <2> QED
    BY <1>6, <2>1, <2>2 DEF Works, Unbridges
<1>10. CASE \/ MakeAccount(W(c)) \/ MakeBinding(W(c)) \/ ReadToken(W(c))
            \/ DeleteBinding(W(c)) \/ DeleteAccount(W(c))
  <2>1. bridged'[c] = bridged[c] /\ config'[c] = config[c]
    BY <1>10 DEF MakeAccount, MakeBinding, ReadToken, DeleteBinding, DeleteAccount, object
  <2>2. CASE MakeAccount(W(c)) \/ MakeBinding(W(c))
    BY <1>0, <1>2, <1>4, <1>6, <1>7, <2>1, <2>2 DEF MakeAccount, MakeBinding, Works, Accounts
  <2>3. CASE ReadToken(W(c))
    BY <1>0, <1>2, <1>4, <1>6, <1>7, <2>1, <2>3 DEF ReadToken, Works, Accounts
  <2>4. CASE DeleteBinding(W(c)) \/ DeleteAccount(W(c))
    BY <1>0, <1>2, <1>4, <1>6, <1>7, <2>1, <2>4 DEF DeleteBinding, DeleteAccount, Works, Accounts
  <2> QED
    BY <1>10, <2>2, <2>3, <2>4
<1> QED
  BY <1>6, <1>8, <1>9, <1>10

LEMMA EndWorks ==
  ASSUME TypeOK, NEW c \in Clients, Control(c), Finish(W(c)) \/ Raise(W(c)) \/ Persist(W(c))
  PROVE  Works(c) /\ SamePod
<1>0. Of(W(c)) = c /\ W(c) \in Procs /\ pc[W(c)] = Call(c) /\ mem[W(c)].task = Task(c)
  BY WorkerOf DEF Call, Task
<1>1. /\ mem \in [Procs -> Memory] /\ todo \in [Clients -> SUBSET {"create", "delete"}]
      /\ state \in [Clients -> States]
  BY TypesSplit DEF ProcsTyped, ObjectTyped
<1>2. ASSUME Finish(W(c)) \/ Raise(W(c)) PROVE Works(c) /\ SamePod
  <2>1. Leave(W(c)) /\ Call(c) \in {"done", "raised"}
    BY <1>0, <1>2 DEF Finish, Raise
  <2>2. Call(c)' = "idle" /\ pc'[<<c, "timer">>] = pc[<<c, "timer">>]
    BY <2>1, GoesTo DEF Leave
  <2>3. Goal(c)' = "none" /\ Task(c)' = "none"
    BY <1>0, <1>1, <2>1 DEF Leave, Goal, Task, Idle
  <2>4. SamePod /\ SamePeer(c) /\ SameThings(c) /\ phase'[c] = phase[c] /\ param'[c] = param[c]
        /\ state'[c] = state[c]
    BY <2>1 DEF Leave, SamePod, SamePeer, SameThings, stowaway, object
  <2>5. todo'[c] = IF Call(c) = "done" THEN todo[c] \ {Task(c)} ELSE todo[c]
    BY <1>0, <1>1, <1>2 DEF Finish, Raise, kopf
  <2> QED
    BY <2>1, <2>2, <2>3, <2>4, <2>5 DEF Works, Ends
<1>3. ASSUME Persist(W(c)) PROVE Works(c) /\ SamePod
  <2>1. /\ SameThings(c) /\ SamePeer(c) /\ SameObject(c) /\ SamePod
        /\ UNCHANGED mem /\ Goto(W(c), Machine[Call(c)].then)
        /\ Call(c) \in {"created", "waiting", "enabling", "activate", "disabling"}
        /\ state'[c] = Machine[Call(c)].to
    BY <1>0, <1>1, <1>3 DEF Persist, Machine, SameThings, SamePeer, SameObject, SamePod, kopf, peerMap, stowaway
  <2>2. Call(c)' = Machine[Call(c)].then /\ pc'[<<c, "timer">>] = pc[<<c, "timer">>]
    BY <2>1, GoesTo
  <2>3. SameButCall(c)
    BY <2>1, <2>2 DEF SameButCall, SameMemory, Goal, Task, Seen, Asked
  <2> QED
    BY <2>1, <2>2, <2>3 DEF Works, Persists, Machine
<1> QED
  BY <1>2, <1>3

LEMMA StepWorks ==
  ASSUME TypeOK, NEW c \in Clients, Control(c), AtGoal(W(c)), Step(W(c))
  PROVE  Works(c) /\ PodFollows
<1>1. ~DeleteEnded(W(c))
  BY CallsOf DEF DeleteEnded, Call
<1>2. SamePod \/ pod' = "none" => PodFollows
  BY DEF SamePod, PodFollows
<1> QED
  BY <1>1, <1>2, LookWorks, PeersWork, ThingsWork, EndWorks DEF Step, Works

-----------------------------------------------------------------------------
(* A worker that begins, or gets the lock; kopf and the user.              *)

LEMMA StartIsSeen ==
  ASSUME TypeOK, NEW c \in Clients, StartCreate(c) \/ StartChange(c) \/ StartDelete(c)
  PROVE  Starts(c)
<1>0. Of(W(c)) = c /\ W(c) \in Procs /\ <<c, "worker">> = W(c)
  BY WorkerOf DEF W
<1>1. PICK task \in {"create", "change", "delete"}, goal \in Goals, call \in {"account", "created", "done", "lock"} :
        /\ Begin(W(c), task, goal, call)
        /\ \/ /\ "create" \in todo[c] /\ goal = "create" /\ task = "create"
              /\ call = IF state[c] \in {"REQUESTED", "CREATING"} THEN Creation ELSE "done"
           \/ /\ phase[c] = "present" /\ goal = (IF param[c] # NoSubnet THEN "enable" ELSE "disable")
              /\ task = "change" /\ call = "lock"
           \/ "delete" \in todo[c] /\ goal = "terminate" /\ task = "delete" /\ call = "lock"
  <2>1. CASE StartCreate(c)
    <3> DEFINE call == IF state[c] \in {"REQUESTED", "CREATING"} THEN Creation ELSE "done"
    <3>1. Begin(W(c), "create", "create", call) /\ "create" \in todo[c]
      BY <1>0, <2>1 DEF StartCreate
    <3>2. call \in {"account", "created", "done", "lock"} /\ "create" \in Goals
      BY DEF Goals, Creation
    <3> QED
      BY <3>1, <3>2
  <2>2. CASE StartChange(c)
    <3> DEFINE goal == IF param[c] # NoSubnet THEN "enable" ELSE "disable"
    <3>1. Begin(W(c), "change", goal, "lock") /\ phase[c] = "present"
      BY <1>0, <2>2 DEF StartChange
    <3>2. goal \in Goals
      BY DEF Goals
    <3> QED
      BY <3>1, <3>2
  <2>3. CASE StartDelete(c)
    <3>1. Begin(W(c), "delete", "terminate", "lock") /\ "delete" \in todo[c] /\ "terminate" \in Goals
      BY <1>0, <2>3 DEF StartDelete, Goals
    <3> QED
      BY <3>1
  <2> QED
    BY <2>1, <2>2, <2>3
<1>2. Call(c) = "idle" /\ Call(c)' = call /\ pc'[<<c, "timer">>] = pc[<<c, "timer">>]
  BY <1>1, GoesTo DEF Begin, Call
<1>3. Goal(c)' = goal /\ Task(c)' = task /\ Seen(c)' = state[c] /\ Asked(c)' = param[c]
  <2>1. mem \in [Procs -> Memory]
    BY TypesSplit DEF ProcsTyped
  <2>2. mem' = [mem EXCEPT ![W(c)] = [Idle EXCEPT !.task = task, !.goal = goal, !.state = state[c],
                                                  !.param = param[c]]]
    BY <1>0, <1>1 DEF Begin
  <2> QED
    BY <1>0, <2>1, <2>2 DEF Goal, Task, Seen, Asked, Idle
<1>4. SameObject(c) /\ state'[c] = state[c] /\ SamePeer(c) /\ SameThings(c) /\ SamePod
  BY <1>1 DEF Begin, SameObject, SamePeer, SameThings, SamePod, object, kopf, peerMap, stowaway
<1> QED
  BY <1>1, <1>2, <1>3, <1>4 DEF Starts

LEMMA EnterIsSeen ==
  ASSUME TypeOK, NEW c \in Clients, Control(c), Enter(W(c))
  PROVE  Enters(c)
<1>1. Call(c) = "lock" /\ Call(c)' = Entry(W(c)) /\ pc'[<<c, "timer">>] = pc[<<c, "timer">>]
  BY GoesTo DEF Enter, Call
<1>2. SameButCall(c) /\ state'[c] = state[c] /\ SamePeer(c) /\ SameThings(c)
  BY <1>1 DEF Enter, SameButCall, SameMemory, SameObject, SamePeer, SameThings, SamePod, Goal, Task, Seen,
     Asked, object, kopf, peerMap, stowaway
<1>3. Goal(c) \in {"enable", "disable", "terminate"}
  BY <1>1, WorkerOf DEF Control, Course, OnCourse
<1> QED
  BY <1>1, <1>2, <1>3 DEF Enters, Entry, Goal, Seen

LEMMA ChangeIsSeen ==
  ASSUME TypeOK, NEW c \in Clients,
         CreateObject(c) \/ DeleteObject(c) \/ AddBridge(c) \/ RemoveFinalizer(c)
  PROVE  Changes(c)
<1>1. UNCHANGED <<state, param, config, account, peerMap, stowaway, pc, mem>>
  BY DEF CreateObject, DeleteObject, AddBridge, RemoveFinalizer, object
<1>2. SameWorker(c) /\ SamePeer(c) /\ SamePod /\ account'[c] = account[c] /\ config'[c] = config[c]
  BY <1>1 DEF SameWorker, SameMemory, SamePeer, SamePod, Call, Goal, Task, Seen, Asked, peerMap, stowaway
<1>3. /\ phase \in [Clients -> {"absent", "present", "deleting", "gone"}]
      /\ todo \in [Clients -> SUBSET {"create", "delete"}]
  BY DEF TypeOK
<1>4. CASE CreateObject(c) \/ DeleteObject(c)
  BY <1>2, <1>3, <1>4 DEF Changes, CreateObject, DeleteObject, MarkDeleted
<1>5. CASE AddBridge(c)
  BY <1>2, <1>5 DEF Changes, AddBridge, object, kopf
<1>6. CASE RemoveFinalizer(c)
  <2>1. Call(c) = "idle"
    BY <1>6 DEF RemoveFinalizer, Call, W
  <2> QED
    BY <1>2, <1>3, <1>6, <2>1 DEF Changes, RemoveFinalizer, kopf
<1> QED
  BY <1>4, <1>5, <1>6

(* What the operator does to the keys. *)
LEMMA FollowedIsSeen ==
  ASSUME CommandInv, NEW c \in Clients, pc[<<c, "timer">>] = "idle",
         Followed \/ UNCHANGED libVars
  PROVE  Seeing(c)
<1>1. CASE Followed
  <2>1. keys'[c] = KeysAfter(c)
    BY <1>1 DEF Followed
  <2>2. \A h \in Procs : Of(h) = c /\ pc[h] = "rm" => h = W(c)
    BY WorkerOf
  <2>3. "cargo" \in keys[c] /\ ~(Call(c) = "rm" /\ Call(c)' = "restart") => "cargo" \in KeysAfter(c)
    BY <2>2 DEF KeysAfter, Call
  <2> QED
    BY <1>1, <2>1, <2>3 DEF Followed, local, Seeing
<1>2. CASE UNCHANGED libVars
  BY <1>2 DEF libVars, local, Seeing
<1> QED
  BY <1>1, <1>2

-----------------------------------------------------------------------------
(* The steps of others.                                                    *)

(* The object, the peer and the account stay what they are. *)
Untouched(c) == SameObject(c) /\ state'[c] = state[c] /\ SamePeer(c) /\ SameThings(c)

LEMMA StepElsewhere ==
  ASSUME TypeOK, NEW c \in Clients, NEW h \in Procs, Of(h) # c, SnapTrue(c), Step(h)
  PROVE  Untouched(c) /\ PodFollows
<1> USE ProcOfClient DEF Untouched, SameObject, SamePeer, SameThings, PodFollows
<1>0. /\ phase \in [Clients -> {"absent", "present", "deleting", "gone"}]
      /\ state \in [Clients -> States]
      /\ config \in [Clients -> BOOLEAN]
      /\ todo \in [Clients -> SUBSET {"create", "delete"}]
      /\ account \in [Clients -> SUBSET {"account", "binding", "token"}]
      /\ bridged \in [Clients -> BOOLEAN]
      /\ allowed \in [Clients -> Subnets \cup {NoSubnet}]
  BY DEF TypeOK
<1>1. CASE \/ AskPeer(h) \/ RemoveFiles(h) \/ AwaitPod(h) \/ AskConfig(h) \/ CopyConfig(h)
           \/ ListBridges(h) \/ ReadAccount(h) \/ PublishToken(h) \/ ReadPeers(h) \/ RestartPod(h)
  BY <1>1 DEF AskPeer, RemoveFiles, AwaitPod, AskConfig, CopyConfig, ListBridges, ReadAccount, PublishToken,
     ReadPeers, RestartPod, object, kopf, peerMap, stowaway
<1>2. CASE PatchPeers(h)
  BY <1>0, <1>2 DEF PatchPeers, SnapTrue, object, kopf, stowaway
<1>3. CASE ReplacePeers(h)
  BY <1>0, <1>3 DEF ReplacePeers, object, kopf, peerMap, stowaway
<1>4. CASE WriteConfig(h) \/ DeleteBridge(h) \/ Persist(h)
  BY <1>0, <1>4 DEF WriteConfig, DeleteBridge, Persist, object, kopf, peerMap, stowaway
<1>5. CASE MakeAccount(h) \/ MakeBinding(h) \/ ReadToken(h) \/ DeleteBinding(h) \/ DeleteAccount(h)
  BY <1>0, <1>5 DEF MakeAccount, MakeBinding, ReadToken, DeleteBinding, DeleteAccount, object, kopf,
     peerMap, stowaway
<1>6. CASE DeleteEnded(h)
  BY <1>0, <1>6 DEF DeleteEnded, MarkDeleted, peerMap, stowaway
<1>7. CASE Finish(h) \/ Raise(h)
  BY <1>0, <1>7 DEF Finish, Raise, Leave, object, kopf, peerMap, stowaway
<1> QED
  BY <1>1, <1>2, <1>3, <1>4, <1>5, <1>6, <1>7 DEF Step

(* Its handlers are where they are when another process moves. *)
LEMMA OtherProcess ==
  ASSUME NEW c \in Clients, NEW h \in Procs, Of(h) # c,
         pc' = [pc EXCEPT ![h] = pc'[h]], mem' = mem \/ mem' = [mem EXCEPT ![h] = mem'[h]],
         pc \in [Procs -> Pcs], mem \in [Procs -> Memory]
  PROVE  Call(c)' = Call(c) /\ SameMemory(c)
<1>1. W(c) # h /\ <<c, "timer">> # h
  BY DEF W, Of
<1>2. W(c) \in Procs /\ <<c, "timer">> \in Procs
  BY WorkerOf DEF Procs
<1> QED
  BY <1>1, <1>2 DEF Call, SameMemory, Goal, Task, Seen, Asked

LEMMA QuietStep ==
  ASSUME TypeOK, NEW c \in Clients, NEW h \in Procs, Of(h) # c, AtGoal(h), SnapTrue(c),
         Step(h), Seeing(c)
  PROVE  Quiet(c)
<1>1. Untouched(c) /\ PodFollows
  BY StepElsewhere
<1>2. Call(c)' = Call(c) /\ SameMemory(c)
  BY StepIsHandlerStep, OtherProcess, TypesSplit DEF HandlerStep, MovesOn, ProcsTyped
<1> QED
  BY <1>1, <1>2 DEF Quiet, Untouched, Seeing, SameMachine

(* A handler of another client that begins or gets the lock. *)
LEMMA QuietBegin ==
  ASSUME TypeOK, NEW c \in Clients, NEW d \in Clients, d # c, Seeing(c),
         \/ StartCreate(d) \/ StartChange(d) \/ StartDelete(d) \/ StartTimer(d)
         \/ \E h \in Procs : Of(h) = d /\ Enter(h)
  PROVE  Quiet(c)
<1>1. PICK h \in Procs : Of(h) = d /\ (Enter(h) \/ \E task, goal, call : Begin(h, task, goal, call))
  BY ProcsOf DEF StartCreate, Creation, StartChange, StartDelete, StartTimer
<1>2. UNCHANGED <<object, kopf, account, bridged, peerMap, stowaway>>
  BY <1>1 DEF Enter, Begin
<1>3. /\ pc' = [pc EXCEPT ![h] = pc'[h]]
      /\ mem' = mem \/ mem' = [mem EXCEPT ![h] = mem'[h]]
  BY <1>1, TypesSplit DEF Enter, Begin, Goto, ProcsTyped
<1>4. Call(c)' = Call(c) /\ SameMemory(c)
  BY <1>1, <1>3, OtherProcess, TypesSplit DEF ProcsTyped
<1> QED
  BY <1>2, <1>4 DEF Quiet, SameObject, SamePeer, SameThings, PodFollows, Seeing, SameMachine, object, kopf,
     peerMap, stowaway

(* The cluster; the user and kopf at another object. *)
LEMMA QuietCluster ==
  ASSUME TypeOK, NEW c \in Clients, Seeing(c),
         \/ PodStarts \/ PodReady
         \/ \E d \in Clients : d # c /\ (CreateObject(d) \/ DeleteObject(d) \/ AddBridge(d) \/ RemoveFinalizer(d))
  PROVE  Quiet(c)
<1>0. /\ phase \in [Clients -> {"absent", "present", "deleting", "gone"}]
      /\ todo \in [Clients -> SUBSET {"create", "delete"}]
      /\ bridged \in [Clients -> BOOLEAN]
  BY DEF TypeOK
<1>1. Call(c)' = Call(c) /\ SameMemory(c)
  BY DEF PodStarts, PodReady, CreateObject, DeleteObject, AddBridge, RemoveFinalizer, Call, SameMemory,
     Goal, Task, Seen, Asked
<1>2. Untouched(c) /\ PodFollows
  <2>1. CASE PodStarts \/ PodReady
    BY <2>1 DEF PodStarts, PodReady, Untouched, SameObject, SamePeer, SameThings, PodFollows, object, kopf,
       peerMap
  <2>2. ASSUME NEW d \in Clients, d # c,
               CreateObject(d) \/ DeleteObject(d) \/ AddBridge(d) \/ RemoveFinalizer(d)
        PROVE  Untouched(c) /\ PodFollows
    BY <1>0, <2>2 DEF CreateObject, DeleteObject, AddBridge, RemoveFinalizer, MarkDeleted, Untouched,
       SameObject, SamePeer, SameThings, PodFollows, object, kopf, peerMap, stowaway
  <2> QED
    BY <2>1, <2>2
<1> QED
  BY <1>1, <1>2 DEF Quiet, Untouched, Seeing, SameMachine

(* A command of another user, which changes neither peers nor pods. *)
LEMMA QuietCommand ==
  ASSUME Typed, NEW c \in Clients, NEW d \in Clients, d # c,
         Run(d) \/ \E command \in Commands : Start(d, command)
  PROVE  Quiet(c)
<1>1. MachineStep(d)
  BY CommandStep, StartCommandStep DEF Typed
<1>2. /\ at \in [Clients -> Ats] /\ cmd \in [Clients -> Commands \cup {"none"}]
      /\ net \in [Clients -> Subnets \cup {NoSubnet}]
      /\ cargo \in [Clients -> {"none", "stopped", "running"}]
      /\ keys \in [Clients -> SUBSET {"object", "conf", "cargo"}]
      /\ param \in [Clients -> Subnets \cup {NoSubnet}]
  BY DEF Typed, CommandInv, MachineTyped, LocalTyped, TypeOK
<1>3. at'[c] = at[c] /\ cmd'[c] = cmd[c] /\ net'[c] = net[c]
  BY <1>1, <1>2 DEF MachineStep
<1>4. cargo'[c] = cargo[c] /\ keys'[c] = keys[c]
  BY <1>2 DEF Run, GetClient, Network, NoNetwork, StopCargo, AskState, Activate, Rejected, Deactivate, Gone,
     Awaited, NotFound, SaveConfig, StartCargo, Reads, StartFails, Probe, RemoveLocal, Start, local
<1>5. /\ UNCHANGED <<phase, state, config, kopf, account, bridged, peerMap, stowaway, pc, mem>>
      /\ param'[c] = param[c]
  <2>1. CASE Activate(d) \/ Deactivate(d)
    BY <1>2, <2>1 DEF Activate, Deactivate
  <2>2. CASE UNCHANGED vars
    BY <2>2 DEF vars, kopf, peerMap, stowaway
  <2>3. UNCHANGED vars \/ Activate(d) \/ Deactivate(d)
    BY DEF Run, GetClient, Network, NoNetwork, StopCargo, AskState, Rejected, Gone, Awaited, NotFound,
       SaveConfig, StartCargo, StartFails, Probe, RemoveLocal, Start
  <2> QED
    BY <2>1, <2>2, <2>3
<1> QED
  BY <1>3, <1>4, <1>5 DEF Quiet, Call, SameMemory, Goal, Task, Seen, Asked, SameObject, SamePeer, SameThings,
     SameMachine, PodFollows, kopf, peerMap, stowaway

(* ... and one of the client's own. *)
LEMMA CommandIsSeen ==
  ASSUME Typed, NEW c \in Clients, Run(c) \/ \E command \in Commands : Start(c, command)
  PROVE  SameOperator(c)
<1>1. UNCHANGED <<phase, state, config, kopf, account, bridged, peerMap, stowaway, pc, mem>>
  BY DEF Run, GetClient, Network, NoNetwork, StopCargo, AskState, Rejected, Gone, Awaited, NotFound,
     SaveConfig, StartCargo, StartFails, Probe, RemoveLocal, Start, Activate, Deactivate, vars, kopf, peerMap,
     stowaway
<1> QED
  BY <1>1 DEF SameOperator, Call, SameMemory, Goal, Task, Seen, Asked, SamePeer, SameThings, SamePod, kopf,
     peerMap, stowaway

-----------------------------------------------------------------------------
(* The lock, and what is done under it.                                    *)

LEMMA StepKeepsExclusive ==
  ASSUME ClientInv, Exclusive, NEW h \in Procs, HandlerStep(h)
  PROVE  Exclusive'
<1> SUFFICES ASSUME NEW c \in Clients, Working(W(c))', Goal(c)' \in Locking
             PROVE  lock' = W(c)
  BY DEF Exclusive
<1>1. /\ W(c) \in Procs /\ pc \in [Procs -> Pcs] /\ mem \in [Procs -> Memory]
      /\ pc' = [pc EXCEPT ![h] = pc'[h]] /\ mem' = [mem EXCEPT ![h] = mem'[h]]
  BY WorkerOf, TypesSplit DEF ClientInv, ProcsTyped, HandlerStep, MovesOn
<1>2. CASE W(c) = h
  <2>1. Working(h) /\ lock' = lock /\ mem'[h].goal = mem[h].goal
    BY <1>2 DEF HandlerStep, MovesOn, Working
  <2> QED
    BY <1>2, <2>1 DEF Exclusive, Goal
<1>3. CASE W(c) # h
  <2>1. pc'[W(c)] = pc[W(c)] /\ mem'[W(c)] = mem[W(c)]
    BY <1>1, <1>3
  <2>2. lock = W(c)
    BY <2>1 DEF Exclusive, Goal, Working
  <2> QED
    BY <1>3, <2>2 DEF HandlerStep, MovesOn
<1> QED
  BY <1>2, <1>3

LEMMA EnterKeepsExclusive ==
  ASSUME ClientInv, Exclusive, NEW h \in Procs, Enter(h)
  PROVE  Exclusive'
<1> SUFFICES ASSUME NEW c \in Clients, Working(W(c))', Goal(c)' \in Locking
             PROVE  lock' = W(c)
  BY DEF Exclusive
<1>1. /\ W(c) \in Procs /\ pc \in [Procs -> Pcs] /\ Goal(c)' = Goal(c) /\ lock = Nobody /\ lock' = h
      /\ Nobody \notin Procs
  BY WorkerOf, TypesSplit, NoneAssumption DEF ClientInv, ProcsTyped, Enter, Goal, Procs
<1>2. W(c) # h => pc'[W(c)] = pc[W(c)]
  BY <1>1 DEF Enter, Goto
<1> QED
  BY <1>1, <1>2 DEF Exclusive, Working

LEMMA StartKeepsExclusive ==
  ASSUME ClientInv, Exclusive, NEW c \in Clients,
         StartCreate(c) \/ StartChange(c) \/ StartDelete(c) \/ StartTimer(c)
  PROVE  Exclusive'
<1>1. PICK h \in Procs, task \in {"create", "change", "delete", "reconcile"}, goal \in Goals, call \in Pcs :
        /\ Begin(h, task, goal, call)
        /\ h = <<c, "timer">> \/ goal = "create" \/ call = "lock"
  <2>1. {"create", "enable", "disable", "terminate"} \subseteq Goals
        /\ {"account", "created", "done", "lock", "peer?", "list"} \subseteq Pcs
    BY DEF Goals, Pcs
  <2>2. <<c, "worker">> \in Procs /\ <<c, "timer">> \in Procs
    BY ProcsOf
  <2>3. CASE StartCreate(c)
    <3>1. PICK call \in {"account", "created", "done"} : Begin(<<c, "worker">>, "create", "create", call)
      BY <2>3 DEF StartCreate, Creation
    <3> QED
      BY <2>1, <2>2, <3>1
  <2>4. CASE StartChange(c)
    <3>1. PICK goal \in {"enable", "disable"} : Begin(<<c, "worker">>, "change", goal, "lock")
      BY <2>4 DEF StartChange
    <3> QED
      BY <2>1, <2>2, <3>1
  <2>5. CASE StartDelete(c)
    BY <2>1, <2>2, <2>5 DEF StartDelete
  <2>6. CASE StartTimer(c)
    BY <2>1, <2>2, <2>6 DEF StartTimer
  <2> QED
    BY <2>3, <2>4, <2>5, <2>6
<1> SUFFICES ASSUME NEW d \in Clients, Working(W(d))', Goal(d)' \in Locking
             PROVE  lock' = W(d)
  BY DEF Exclusive
<1>2. /\ W(d) \in Procs /\ pc \in [Procs -> Pcs] /\ mem \in [Procs -> Memory] /\ lock' = lock
      /\ pc' = [pc EXCEPT ![h] = call]
      /\ mem' = [mem EXCEPT ![h] = [Idle EXCEPT !.task = task, !.goal = goal, !.state = state[Of(h)],
                                                !.param = param[Of(h)]]]
  BY <1>1, WorkerOf, TypesSplit DEF ClientInv, ProcsTyped, Begin, Goto
<1>3. CASE W(d) = h
  <2>1. W(d) # <<c, "timer">>
    BY DEF W
  <2>2. pc'[h] = call /\ mem'[h].goal = goal
    BY <1>2 DEF Idle
  <2> QED
    BY <1>1, <1>3, <2>1, <2>2 DEF Working, Goal, Locking
<1>4. CASE W(d) # h
  <2>1. pc'[W(d)] = pc[W(d)] /\ mem'[W(d)] = mem[W(d)]
    BY <1>2, <1>4
  <2> QED
    BY <1>2, <2>1 DEF Exclusive, Goal, Working
<1> QED
  BY <1>3, <1>4

LEMMA ElseKeepsExclusive ==
  ASSUME Exclusive, UNCHANGED <<pc, mem, lock>> \/ Restart
  PROVE  Exclusive'
<1>1. CASE UNCHANGED <<pc, mem, lock>>
  BY <1>1 DEF Exclusive, Working, Goal
<1>2. CASE Restart
  <2>1. \A c \in Clients : pc'[W(c)] = "idle"
    BY <1>2, WorkerOf DEF Restart
  <2> QED
    BY <2>1 DEF Exclusive, Working
<1> QED
  BY <1>1, <1>2

(* Where no timer is at work, one client is at the peers at a time. *)
AtPeers == PeerCalls \cup {"patch"}

LEMMA HoldsLock ==
  ASSUME ClientInv, Exclusive, NEW c \in Clients, Call(c) \in AtPeers
  PROVE  lock = W(c)
<1>1. W(c) \in Procs /\ AtGoal(W(c))
  BY WorkerOf DEF ClientInv
<1>2. Goal(c) \in Locking
  BY <1>1 DEF AtGoal, Fits, Call, Goal, AtPeers, Locking
<1>3. Working(W(c))
  BY DEF Working, Call, AtPeers, PeerCalls
<1> QED
  BY <1>2, <1>3 DEF Exclusive

LEMMA OneAtPeers ==
  ASSUME ClientInv, Exclusive, NEW c \in Clients, NEW d \in Clients, Call(c) \in AtPeers, Call(d) \in AtPeers
  PROVE  c = d
  BY HoldsLock, WorkerOf

(* add_peer's copy keeps telling the truth about a client without a timer. *)
LEMMA StepKeepsSnap ==
  ASSUME ClientInv, Exclusive, NEW h \in Procs, HandlerStep(h),
         NEW c \in Clients, pc[<<c, "timer">>] = "idle", SnapTrue(c)
  PROVE  SnapTrue(c)'
<1> SUFFICES ASSUME NEW g \in Procs, pc'[g] = "patch"
             PROVE  c \in mem'[g].snap <=> c \in peers'
  BY DEF SnapTrue
<1>1. EditsPeers(h)
  BY DEF HandlerStep
<1>2. CASE g = h
  BY <1>1, <1>2 DEF EditsPeers
<1>3. CASE g # h
  <2>1. pc[g] = "patch" /\ mem'[g].snap = mem[g].snap
    BY <1>3, TypesSplit DEF ClientInv, ProcsTyped, HandlerStep, MovesOn
  <2>2. mem[g].goal = "enable" /\ Working(g) /\ lock = g
    BY <2>1 DEF ClientInv, EnableLocked, AtGoal, Fits, Working
  <2>3. pc[h] # "patch"
    BY <1>3, <2>2, OneEnables DEF ClientInv, AtGoal, Fits, Working
  <2>4. peers' = peers \/ (pc[h] = "replace" /\ peers' = peers \ {Of(h)})
    BY <1>1, <2>3 DEF EditsPeers
  <2>5. pc[h] = "replace" => Of(h) # c
    <3> SUFFICES ASSUME pc[h] = "replace", Of(h) = c
                 PROVE  FALSE
      OBVIOUS
    <3>1. h = W(c)
      BY WorkerOf
    <3>2. lock = h
      BY <3>1, HoldsLock DEF Call, AtPeers, PeerCalls
    <3> QED
      BY <1>3, <2>2, <3>2
  <2>6. c \in peers' <=> c \in peers
    BY <2>4, <2>5
  <2> QED
    BY <2>1, <2>6 DEF SnapTrue
<1> QED
  BY <1>2, <1>3

LEMMA OutsideKeepsSnap ==
  ASSUME TypeOK, NEW c \in Clients, SnapTrue(c), peers' = peers,
         \/ UNCHANGED <<pc, mem>>
         \/ \E d \in Clients : StartCreate(d) \/ StartChange(d) \/ StartDelete(d) \/ StartTimer(d)
         \/ \E h \in Procs : Enter(h)
  PROVE  SnapTrue(c)'
<1>1. CASE UNCHANGED <<pc, mem>>
  BY <1>1 DEF SnapTrue
<1>2. \/ UNCHANGED <<pc, mem>>
      \/ \A h \in Procs : pc'[h] = "patch" => pc[h] = "patch" /\ mem'[h] = mem[h]
  <2>1. ASSUME NEW h \in Procs, Enter(h)
        PROVE  \A g \in Procs : pc'[g] = "patch" => pc[g] = "patch" /\ mem'[g] = mem[g]
    <3>1. Entry(h) # "patch"
      BY DEF Entry
    <3> QED
      BY <2>1, <3>1, TypesSplit DEF Enter, Goto, ProcsTyped
  <2>2. ASSUME NEW d \in Clients, StartCreate(d) \/ StartChange(d) \/ StartDelete(d) \/ StartTimer(d)
        PROVE  \A g \in Procs : pc'[g] = "patch" => pc[g] = "patch" /\ mem'[g] = mem[g]
    <3>1. PICK h \in Procs, call \in Pcs \ {"patch"} : \E task, goal : Begin(h, task, goal, call)
      <4>1. {"account", "created", "done", "lock", "peer?", "list"} \subseteq Pcs \ {"patch"}
        BY DEF Pcs
      <4> QED
        BY <2>2, <4>1, ProcsOf DEF StartCreate, Creation, StartChange, StartDelete, StartTimer
    <3>2. PICK task, goal : Begin(h, task, goal, call)
      BY <3>1
    <3>3. \A g \in Procs : g # h => pc'[g] = pc[g] /\ mem'[g] = mem[g]
      BY <3>2, TypesSplit DEF Begin, ProcsTyped, Goto
    <3>4. pc'[h] = call
      BY <3>2, TypesSplit DEF Begin, ProcsTyped, Goto
    <3> QED
      BY <3>3, <3>4
  <2> QED
    BY <2>1, <2>2
<1> QED
  BY <1>1, <1>2 DEF SnapTrue

(* What a step does to the copies of the map and to the pod. *)
LEMMA StepFacts ==
  ASSUME TypeOK, NEW h \in Procs, AtGoal(h), Step(h)
  PROVE  /\ pc'[h] = "replace" => h \in fresh'
         /\ fresh \ {h} \subseteq fresh' \/ pc[h] \in {"patch", "replace"}
         /\ pod' = pod \/ pc'[h] = "await pod"
         /\ pc[h] = "await pod" => pod' = "ready"
<1>0. pc \in [Procs -> Pcs]
  BY DEF TypeOK
<1>1. CASE AskPeer(h) \/ RemoveFiles(h) \/ AwaitPod(h) \/ RestartPod(h) \/ PatchPeers(h) \/ ReplacePeers(h)
  <2>1. pc[h] \in AtPeers
    BY <1>1 DEF AskPeer, RemoveFiles, AwaitPod, RestartPod, PatchPeers, ReplacePeers, AtPeers, PeerCalls
  <2>2. AfterPeer(h) # "replace" /\ NoPod(h) # "replace"
    BY <2>1, AfterCalls DEF AtPeers
  <2>3. mem[h].goal \in {"enable", "disable", "terminate"}
    BY <2>1 DEF AtGoal, Fits, AtPeers
  <2> QED
    BY <1>0, <1>1, <2>2, <2>3 DEF AskPeer, RemoveFiles, AwaitPod, RestartPod, PatchPeers, ReplacePeers, Goto,
       peerMap, stowaway
<1>2. CASE ReadPeers(h)
  BY <1>0, <1>2 DEF ReadPeers, Goto, stowaway
<1>3. CASE \/ AskConfig(h) \/ CopyConfig(h) \/ ListBridges(h) \/ ReadAccount(h) \/ PublishToken(h)
           \/ WriteConfig(h) \/ DeleteBridge(h) \/ MakeAccount(h) \/ MakeBinding(h) \/ ReadToken(h)
           \/ DeleteBinding(h) \/ DeleteAccount(h) \/ DeleteEnded(h)
  BY <1>0, <1>3 DEF AskConfig, CopyConfig, ListBridges, ReadAccount, PublishToken, WriteConfig,
     DeleteBridge, MakeAccount, MakeBinding, ReadToken, DeleteBinding, DeleteAccount, DeleteEnded, Goto,
     AfterBridges, Broken, Done, peerMap, stowaway
<1>4. CASE Finish(h) \/ Raise(h)
  BY <1>0, <1>4 DEF Finish, Raise, Leave, Goto, stowaway
<1>5. CASE Persist(h)
  <2>1. pc[h] \in {"created", "waiting", "enabling", "activate", "disabling"}
    BY <1>5 DEF Persist, Machine
  <2>2. Machine[pc[h]].then # "replace"
    BY <2>1 DEF Machine
  <2> QED
    BY <1>0, <1>5, <2>1, <2>2 DEF Persist, Goto, peerMap, stowaway
<1> QED
  BY <1>1, <1>2, <1>3, <1>4, <1>5 DEF Step

LEMMA StepKeepsRemoving ==
  ASSUME ClientInv, Exclusive, NEW h \in Procs, Step(h), \A c \in Clients : Control(c), Removing
  PROVE  Removing'
<1>1. h = W(Of(h)) /\ Of(h) \in Clients
  <2>1. Of(h) \in Clients
    BY ProcOfClient
  <2>2. Working(h)
    BY StepIsHandlerStep DEF ClientInv, HandlerStep, MovesOn
  <2>3. pc[<<Of(h), "timer">>] = "idle"
    BY <2>1 DEF Control, Course
  <2> QED
    BY <2>1, <2>2, <2>3, WorkerOf DEF Working
<1> SUFFICES ASSUME NEW c \in Clients, Call(c)' = "replace"
             PROVE  W(c) \in fresh'
  BY DEF Removing
<1>2. CASE W(c) = h
  BY <1>2, StepFacts DEF ClientInv, Call
<1>3. CASE W(c) # h
  <2>1. Call(c) = "replace"
    BY <1>3, WorkerOf, StepIsHandlerStep, TypesSplit DEF ClientInv, HandlerStep, MovesOn, ProcsTyped, Call
  <2>2. pc[h] \notin {"patch", "replace"}
    <3> SUFFICES ASSUME pc[h] \in {"patch", "replace"}
                 PROVE  FALSE
      OBVIOUS
    <3>1. Call(c) \in AtPeers /\ Call(Of(h)) \in AtPeers
      BY <1>1, <2>1 DEF Call, AtPeers, PeerCalls
    <3> QED
      BY <1>1, <1>3, <3>1, OneAtPeers
  <2>3. W(c) \in fresh
    BY <2>1 DEF Removing
  <2> QED
    BY <1>3, <2>2, <2>3, StepFacts DEF ClientInv
<1> QED
  BY <1>2, <1>3

LEMMA StepKeepsPodAwaited ==
  ASSUME ClientInv, NEW h \in Procs, Step(h), \A c \in Clients : Control(c), PodAwaited
  PROVE  PodAwaited'
<1>1. h = W(Of(h)) /\ Of(h) \in Clients
  <2>1. Of(h) \in Clients
    BY ProcOfClient
  <2>2. Working(h)
    BY StepIsHandlerStep DEF ClientInv, HandlerStep, MovesOn
  <2>3. pc[<<Of(h), "timer">>] = "idle"
    BY <2>1 DEF Control, Course
  <2> QED
    BY <2>1, <2>2, <2>3, WorkerOf DEF Working
<1> SUFFICES ASSUME pod' # "ready"
             PROVE  \E c \in Clients : Call(c)' = "await pod"
  BY DEF PodAwaited
<1>2. CASE pc'[h] = "await pod"
  BY <1>1, <1>2 DEF Call
<1>3. CASE pod' = pod
  <2>1. PICK c \in Clients : Call(c) = "await pod"
    BY <1>3 DEF PodAwaited
  <2>2. W(c) # h
    BY <2>1, StepFacts DEF ClientInv, Call
  <2>3. Call(c)' = Call(c)
    BY <2>2, WorkerOf, StepIsHandlerStep, TypesSplit DEF ClientInv, HandlerStep, MovesOn, ProcsTyped, Call
  <2> QED
    BY <2>1, <2>3
<1> QED
  BY <1>2, <1>3, StepFacts DEF ClientInv

(* The pod is there for whoever is about to restart it. *)
LEMMA PodIsReady ==
  ASSUME ClientInv, Exclusive, PodAwaited, NEW c \in Clients, Call(c) \in {"rm", "restart"}
  PROVE  pod = "ready"
<1> SUFFICES ASSUME pod # "ready"
             PROVE  FALSE
  OBVIOUS
<1>1. PICK d \in Clients : Call(d) = "await pod"
  BY DEF PodAwaited
<1> QED
  BY <1>1, OneAtPeers DEF AtPeers, PeerCalls

-----------------------------------------------------------------------------
(* The steps of the model.                                                 *)

(* What a step is to a client. *)
Event(c) ==
  \/ Quiet(c)
  \/ Works(c) /\ PodFollows /\ Seeing(c)
  \/ (Starts(c) \/ Enters(c) \/ Changes(c)) /\ Seeing(c)
  \/ SameOperator(c) /\ Requests(c) /\ Command(c)'

Known(c) == Control(c) /\ Present(c) /\ Loaded(c) /\ SnapTrue(c) /\ Command(c)

LEMMA EventKeeps ==
  ASSUME TypeOK, NEW c \in Clients, Known(c), Event(c)
  PROVE  Control(c)' /\ Present(c)' /\ Loaded(c)' /\ Command(c)'
<1>0. phase[c] \in {"absent", "present", "deleting", "gone"}
  BY DEF TypeOK
<1> USE DEF Known
<1>1. CASE Quiet(c)
  BY <1>1, QuietKeepsControl, QuietKeepsPresent, QuietKeepsCommand
<1>2. CASE Works(c) /\ PodFollows /\ Seeing(c)
  BY <1>0, <1>2, WorkKeepsControl, WorkKeepsPresent, WorkKeepsCommand
<1>3. CASE (Starts(c) \/ Enters(c) \/ Changes(c)) /\ Seeing(c)
  BY <1>0, <1>3, StartKeepsControl, EnterKeepsControl, ChangeKeepsControl, StartKeepsPresent,
     StartKeepsCommand
<1>4. CASE SameOperator(c) /\ Requests(c) /\ Command(c)'
  BY <1>4, RequestKeepsOperator
<1> QED
  BY <1>1, <1>2, <1>3, <1>4 DEF Event

LEMMA EventKeepsAlone ==
  ASSUME ClientInv, Exclusive, Removing, PodAwaited, NEW c \in Clients, Known(c), Alone(c), Event(c)
  PROVE  Alone(c)'
<1>0. Goal(c) \in Goals /\ account[c] \subseteq {"account", "binding", "token"}
  BY WorkerOf DEF ClientInv, TypeOK, Goal, Goals
<1> USE DEF Known
<1>1. CASE Quiet(c)
  BY <1>1, QuietKeepsAlone
<1>2. CASE Works(c)
  BY <1>0, <1>2, PodIsReady, WorkKeepsAlone DEF Removing
<1>3. CASE Starts(c) \/ Enters(c) \/ Changes(c)
  BY <1>3, StartKeepsAlone
<1>4. CASE SameOperator(c) /\ Requests(c)
  BY <1>4, RequestKeepsOperator
<1> QED
  BY <1>1, <1>2, <1>3, <1>4 DEF Event

LEMMA NoFault ==
  ASSUME TypeOK, faults' = 0
  PROVE  ~Fault
  BY LimitAssumption DEF TypeOK, Fault

LEMMA FaultsStay ==
  ASSUME TypeOK, faults' = 0, NextAll \/ UNCHANGED allVars
  PROVE  faults = 0
<1>1. ~Fault
  BY NoFault
<1>2. ASSUME NEW h \in Procs, Step(h) PROVE faults' = faults
  BY <1>2 DEF Step, Finish, Raise, Leave, Persist, MakeAccount, MakeBinding, ReadToken, PublishToken, AskPeer,
     ReadPeers, PatchPeers, ReplacePeers, RemoveFiles, RestartPod, AwaitPod, AskConfig, CopyConfig,
     WriteConfig, ListBridges, DeleteBridge, ReadAccount, DeleteBinding, DeleteAccount, DeleteEnded, bounds
<1>3. CASE Operator \/ Cluster
  BY <1>1, <1>2, <1>3 DEF Operator, Cluster, Dispatch, StartCreate, StartChange, StartDelete, StartTimer,
     Begin, RemoveFinalizer, Enter, CallFails, PodLate, Restart, PodStarts, PodReady, PodLost, bounds
<1>4. CASE \E c \in Clients : CreateObject(c) \/ DeleteObject(c) \/ AddBridge(c)
  BY <1>4 DEF CreateObject, DeleteObject, AddBridge, bounds
<1>5. ASSUME NEW c \in Clients, Run(c) \/ TimesOut(c) \/ \E command \in Commands : Start(c, command)
      PROVE  faults' = faults
  BY <1>1, <1>5 DEF Run, TimesOut, GetClient, Network, NoNetwork, StopCargo, AskState, Rejected, Gone,
     Awaited, NotFound, SaveConfig, StartCargo, StartFails, Probe, RemoveLocal, Start, Activate, Deactivate,
     vars, bounds
<1> QED
  BY <1>3, <1>4, <1>5, Steps DEF allVars, vars

LEMMA OperatorIsSeen ==
  ASSUME ConnectionInv, NEW c \in Clients, Timeless(c), Known(c), faults' = 0,
         Operator \/ Cluster, Followed
  PROVE  Event(c)
<1> USE DEF ConnectionInv, ClientInv, Known
<1>1. pc[<<c, "timer">>] = "idle"
  BY DEF Control, Course
<1>2. Seeing(c) /\ ~Fault
  BY <1>1, FollowedIsSeen, NoFault
<1>3. ASSUME NEW d \in Clients, Dispatch(d) \/ StartTimer(d) PROVE Event(c)
  <2>1. CASE d = c
    <3>1. ~StartTimer(c)
      BY DEF StartTimer, Timeless
    <3> QED
      BY <1>2, <1>3, <2>1, <3>1, StartIsSeen, ChangeIsSeen DEF Dispatch, Event
  <2>2. CASE d # c
    BY <1>2, <1>3, <2>2, QuietBegin, QuietCluster DEF Dispatch, Event
  <2> QED
    BY <2>1, <2>2
<1>4. ASSUME NEW h \in Procs, Enter(h) \/ Step(h) PROVE Event(c)
  <2>1. CASE Of(h) = c
    <3>1. pc[h] # "idle"
      <4>1. Step(h) => Working(h)
        BY StepIsHandlerStep DEF HandlerStep, MovesOn
      <4> QED
        BY <1>4, <4>1 DEF Enter, Working
    <3>2. h = W(c)
      BY <1>1, <2>1, <3>1, WorkerOf
    <3> QED
      BY <1>2, <1>4, <3>2, EnterIsSeen, StepWorks DEF Event
  <2>2. CASE Of(h) # c
    BY <1>2, <1>4, <2>2, QuietBegin, QuietStep, ProcOfClient DEF Event
  <2> QED
    BY <2>1, <2>2
<1>5. CASE PodStarts \/ PodReady
  BY <1>2, <1>5, QuietCluster DEF Event
<1>6. ~Restart /\ ~PodLost /\ \A h \in Procs : ~CallFails(h) /\ ~PodLate(h)
  BY <1>2 DEF Restart, PodLost, CallFails, PodLate
<1> QED
  BY <1>3, <1>4, <1>5, <1>6 DEF Operator, Cluster

LEMMA NextIsSeen ==
  ASSUME ConnectionInv, NEW c \in Clients, Timeless(c), Known(c), faults' = 0,
         NextAll \/ UNCHANGED allVars
  PROVE  Event(c)
<1> USE DEF ConnectionInv, ClientInv, Known
<1>1. CASE (Operator \/ Cluster) /\ Followed
  BY <1>1, OperatorIsSeen
<1>2. ASSUME UNCHANGED libVars,
             NEW d \in Clients, CreateObject(d) \/ DeleteObject(d) \/ AddBridge(d)
      PROVE  Event(c)
  <2>1. Seeing(c)
    BY <1>2, FollowedIsSeen DEF Control, Course
  <2> QED
    BY <1>2, <2>1, ChangeIsSeen, QuietCluster DEF Event
<1>3. ASSUME NEW d \in Clients, Run(d) \/ \E command \in Commands : Start(d, command)
      PROVE  Event(c)
  <2>1. CASE d = c
    BY <1>3, <2>1, CommandIsSeen, CommandKeepsCommand, StartKeepsCommands DEF Typed, Event
  <2>2. CASE d # c
    BY <1>3, <2>2, QuietCommand DEF Typed, Event
  <2> QED
    BY <2>1, <2>2
<1>4. \A d \in Clients : ~TimesOut(d)
  BY NoFault DEF TimesOut
<1>5. CASE UNCHANGED allVars
  BY <1>5 DEF Event, Quiet, Call, SameMemory, Goal, Task, Seen, Asked, SameObject, SamePeer, SameThings,
     SameMachine, PodFollows, allVars, vars, libVars, local
<1> QED
  BY <1>1, <1>2, <1>3, <1>4, <1>5, Steps

-----------------------------------------------------------------------------
(* The invariant is inductive.                                             *)

(* A step in which no handler takes one of its own, and no call fails. *)
LEMMA OtherSteps ==
  ASSUME ConnectionInv, faults' = 0, NextAll \/ UNCHANGED allVars, \A h \in Procs : ~Step(h)
  PROVE  /\ peers' = peers /\ fresh' = fresh /\ (pod' = pod \/ pod # "ready")
         /\ \/ UNCHANGED <<pc, mem, lock>>
            \/ \E d \in Clients : StartCreate(d) \/ StartChange(d) \/ StartDelete(d) \/ StartTimer(d)
            \/ \E h \in Procs : Enter(h)
<1>1. ~Fault
  BY NoFault DEF ConnectionInv, ClientInv
<1>2. CASE Operator \/ Cluster
  BY <1>1, <1>2 DEF Operator, Cluster, Dispatch, StartCreate, StartChange, StartDelete, StartTimer, Begin,
     RemoveFinalizer, Enter, CallFails, PodLate, Restart, PodStarts, PodReady, PodLost, peerMap, stowaway
<1>3. CASE \E c \in Clients : CreateObject(c) \/ DeleteObject(c) \/ AddBridge(c)
  BY <1>3 DEF CreateObject, DeleteObject, AddBridge, peerMap, stowaway
<1>4. ASSUME NEW c \in Clients, Run(c) \/ \E command \in Commands : Start(c, command)
      PROVE  UNCHANGED <<peers, fresh, pod, pc, mem, lock>>
  BY <1>4 DEF Run, GetClient, Network, NoNetwork, StopCargo, AskState, Rejected, Gone, Awaited, NotFound,
     SaveConfig, StartCargo, StartFails, Probe, RemoveLocal, Start, Activate, Deactivate, vars, peerMap,
     stowaway
<1>5. \A c \in Clients : ~TimesOut(c)
  BY <1>1 DEF TimesOut
<1> QED
  BY <1>2, <1>3, <1>4, <1>5, Steps DEF allVars, vars

LEMMA NextKeepsExclusive ==
  ASSUME ConnectionInv, Exclusive, NextAll \/ UNCHANGED allVars
  PROVE  Exclusive'
<1> USE DEF ConnectionInv, ClientInv
<1>1. ASSUME NEW h \in Procs, Step(h) \/ CallFails(h) \/ PodLate(h) PROVE Exclusive'
  BY <1>1, StepIsHandlerStep, StepKeepsExclusive
<1>2. CASE Operator \/ Cluster
  <2>1. ASSUME NEW c \in Clients, RemoveFinalizer(c) PROVE Exclusive'
    BY <2>1, ElseKeepsExclusive DEF RemoveFinalizer
  <2>2. CASE Cluster
    BY <2>2, ElseKeepsExclusive DEF Cluster, PodStarts, PodReady, PodLost
  <2> QED
    BY <1>1, <1>2, <2>1, <2>2, StartKeepsExclusive, EnterKeepsExclusive, ElseKeepsExclusive
    DEF Operator, Dispatch
<1>3. CASE \E c \in Clients : CreateObject(c) \/ DeleteObject(c) \/ AddBridge(c)
  BY <1>3, ElseKeepsExclusive DEF CreateObject, DeleteObject, AddBridge
<1>4. ASSUME NEW c \in Clients, Run(c) \/ TimesOut(c) \/ \E command \in Commands : Start(c, command)
      PROVE  UNCHANGED <<pc, mem, lock>>
  BY <1>4 DEF Run, TimesOut, GetClient, Network, NoNetwork, StopCargo, AskState, Rejected, Gone, Awaited,
     NotFound, SaveConfig, StartCargo, StartFails, Probe, RemoveLocal, Start, Activate, Deactivate, vars
<1>5. UNCHANGED allVars => UNCHANGED <<pc, mem, lock>>
  BY DEF allVars, vars
<1> QED
  BY <1>2, <1>3, <1>4, <1>5, Steps, ElseKeepsExclusive

LEMMA NextKeepsKnown ==
  ASSUME ConnectionInv, Exclusive, NEW c \in Clients, Timeless(c), Known(c), faults' = 0,
         NextAll \/ UNCHANGED allVars
  PROVE  Known(c)'
<1>1. Control(c)' /\ Present(c)' /\ Loaded(c)' /\ Command(c)'
  BY NextIsSeen, EventKeeps DEF ConnectionInv, ClientInv
<1>2. SnapTrue(c)'
  <2>1. ASSUME NEW h \in Procs, Step(h) PROVE SnapTrue(c)'
    BY <2>1, StepIsHandlerStep, StepKeepsSnap DEF ConnectionInv, ClientInv, Known, Control, Course
  <2>2. CASE \A h \in Procs : ~Step(h)
    BY <2>2, OtherSteps, OutsideKeepsSnap DEF ConnectionInv, ClientInv, Known
  <2> QED
    BY <2>1, <2>2
<1> QED
  BY <1>1, <1>2 DEF Known

LEMMA NextKeepsPod ==
  ASSUME ConnectionInv, Exclusive, \A c \in Clients : Control(c), Removing, PodAwaited, faults' = 0,
         NextAll \/ UNCHANGED allVars
  PROVE  Removing' /\ PodAwaited'
<1>1. ASSUME NEW h \in Procs, Step(h) PROVE Removing' /\ PodAwaited'
  BY <1>1, StepKeepsRemoving, StepKeepsPodAwaited DEF ConnectionInv
<1>2. CASE \A h \in Procs : ~Step(h)
  <2> DEFINE Stay == \A h \in Procs : (pc'[h] = "replace" => pc[h] = "replace")
                                     /\ (pc[h] = "await pod" => pc'[h] = "await pod")
  <2>1. Stay
    <3>0. pc \in [Procs -> Pcs]
      BY DEF ConnectionInv, ClientInv, TypeOK
    <3>1. ASSUME NEW h \in Procs, Enter(h) PROVE Stay
      <4>1. Entry(h) # "replace" /\ pc' = [pc EXCEPT ![h] = Entry(h)] /\ pc[h] = "lock"
        BY <3>1 DEF Entry, Enter, Goto
      <4> QED
        BY <3>0, <4>1
    <3>2. ASSUME NEW d \in Clients, StartCreate(d) \/ StartChange(d) \/ StartDelete(d) \/ StartTimer(d)
          PROVE  Stay
      <4>1. PICK h \in Procs, call \in Pcs \ {"replace"} :
              pc' = [pc EXCEPT ![h] = call] /\ pc[h] = "idle"
        <5>1. {"account", "created", "done", "lock", "peer?", "list"} \subseteq Pcs \ {"replace"}
          BY DEF Pcs
        <5> QED
          BY <3>2, <5>1, ProcsOf DEF StartCreate, Creation, StartChange, StartDelete, StartTimer, Begin, Goto
      <4> QED
        BY <3>0, <4>1
    <3> QED
      BY <1>2, <3>1, <3>2, OtherSteps
  <2>2. fresh' = fresh /\ (pod' = pod \/ pod # "ready")
    BY <1>2, OtherSteps
  <2>3. \A c \in Clients : /\ Call(c)' = "replace" => Call(c) = "replace"
                           /\ Call(c) = "await pod" => Call(c)' = "await pod"
    BY <2>1, WorkerOf DEF Call
  <2>4. Removing'
    BY <2>2, <2>3 DEF Removing
  <2>5. PodAwaited'
    BY <2>2, <2>3 DEF PodAwaited
  <2> QED
    BY <2>4, <2>5
<1> QED
  BY <1>1, <1>2

LEMMA NextKeepsPeers ==
  ASSUME ConnectionInv, PeersInv, [NextAll]_allVars
  PROVE  PeersInv'
<1>1. Exclusive'
  BY NextKeepsExclusive DEF PeersInv
<1> SUFFICES ASSUME faults' = 0
             PROVE  /\ \A c \in Clients : Timeless(c) => Known(c)'
                    /\ NoTimers => Removing' /\ PodAwaited' /\ \A c \in Clients : Alone(c)'
  BY <1>1 DEF PeersInv, Known, Timeless, NoTimers
<1>2. faults = 0
  BY FaultsStay DEF ConnectionInv, ClientInv
<1>3. \A c \in Clients : Timeless(c) => Known(c)
  BY <1>2 DEF PeersInv, Known
<1>4. \A c \in Clients : Timeless(c) => Known(c)'
  BY <1>3, NextKeepsKnown DEF PeersInv
<1>5. ASSUME NoTimers PROVE Removing' /\ PodAwaited' /\ \A c \in Clients : Alone(c)'
  <2>1. Removing /\ PodAwaited /\ \A c \in Clients : Timeless(c) /\ Known(c) /\ Alone(c)
    BY <1>2, <1>3, <1>5 DEF PeersInv, NoTimers, Timeless
  <2>2. Removing' /\ PodAwaited'
    BY <2>1, NextKeepsPod DEF PeersInv, Known
  <2>3. \A c \in Clients : Alone(c)'
    BY <2>1, NextIsSeen, EventKeepsAlone DEF PeersInv, ConnectionInv
  <2> QED
    BY <2>2, <2>3
<1> QED
  BY <1>4, <1>5

LEMMA InitHasPeers ==
  ASSUME InitAll
  PROVE  PeersInv
<1>1. \A h \in Procs : pc[h] = "idle" /\ mem[h] = Idle
  BY DEF InitAll, Init
<1>2. Exclusive
  BY <1>1, WorkerOf DEF Exclusive, Working
<1>3. ASSUME NEW c \in Clients PROVE Known(c) /\ Alone(c)
  <2>1. /\ Call(c) = "idle" /\ Goal(c) = "none" /\ Task(c) = "none" /\ pc[<<c, "timer">>] = "idle"
        /\ phase[c] = "absent" /\ state[c] = "REQUESTED" /\ param[c] = NoSubnet /\ todo[c] = {}
        /\ account[c] = {} /\ ~bridged[c] /\ c \notin peers /\ allowed[c] = NoSubnet
    BY <1>1, WorkerOf, ProcsOf DEF InitAll, Init, Call, Goal, Task, Idle
  <2>2. cmd[c] = "none" /\ at[c] = "idle" /\ cargo[c] = "none"
    BY DEF InitAll, InitLib
  <2>3. Control(c)
    BY <2>1 DEF Control, Course, OnCourse, TaskOf, Life, Asks
  <2>4. Present(c) /\ Loaded(c)
    BY <2>1 DEF Present, Loaded
  <2>5. SnapTrue(c)
    BY <1>1 DEF SnapTrue
  <2>6. Command(c)
    BY <2>1, <2>2 DEF Command, Placed, Agreed, SameNet, Joined, Linked, Found
  <2>7. Alone(c)
    BY <2>1 DEF Alone, Absent, Routed, Account, Clean, Cleaned
  <2> QED
    BY <2>3, <2>4, <2>5, <2>6, <2>7 DEF Known
<1>4. Removing /\ PodAwaited
  BY <1>1, WorkerOf DEF InitAll, Init, Removing, PodAwaited, Call
<1> QED
  BY <1>2, <1>3, <1>4 DEF PeersInv, Known

-----------------------------------------------------------------------------
(* Theorems.                                                               *)

(* The inductive invariant: the change and delete handlers exclude each    *)
(* other; as long as no call has failed, every client without a timer is   *)
(* on a course that its object, its subnet, the peers, the pod and the     *)
(* commands of its user agree with; and where no client has a timer,       *)
(* remove_peer meets no conflict, the pod is awaited by whoever has        *)
(* restarted it, and what is left of each client is accounted for.         *)
THEOREM PeersInvariant == ConnectionSpec => [](ConnectionInv /\ PeersInv)
<1>1. InitAll => ConnectionInv /\ PeersInv
  BY InitHolds, InitHasPeers
<1>2. ConnectionInv /\ PeersInv /\ [NextAll]_allVars => (ConnectionInv /\ PeersInv)'
  BY NextKeepsInv, NextKeepsPeers
<1> QED
  BY <1>1, <1>2, PTL DEF ConnectionSpec

(* A client that says ACTIVE is a peer of Stowaway's config map, with a    *)
(* subnet and with its configuration, for any number of clients: enable    *)
(* writes them before it says so, and nobody takes them away but the       *)
(* client's own disable, which asks for the lock.                          *)
THEOREM ActiveClientsArePeers == ConnectionSpec => []ActiveHasPeer
<1>1. PeersInv => ActiveHasPeer
  BY DEF PeersInv, ActiveHasPeer, Undisturbed, Timeless, Present
<1> QED
  BY <1>1, PeersInvariant, PTL

(* A client that has gone has left no peer, no service account and no      *)
(* bridge: kopf releases the object only after a delete handler that has   *)
(* come to its end, and that one has removed them.                         *)
THEOREM GoneClientsLeaveNothing == ConnectionSpec => []GoneLeavesNothing
<1>1. PeersInv => GoneLeavesNothing
  BY DEF PeersInv, GoneLeavesNothing, Undisturbed, Alone, Clean, Cleaned
<1> QED
  BY <1>1, PeersInvariant, PTL

(* When connect has returned and no handler of the client is at work,      *)
(* Stowaway routes the subnet of the user's network to the client: the one *)
(* that was asked for is the one that enable has written.                  *)
THEOREM ConnectedClientsHaveTheirSubnet == ConnectionSpec => []ConnectedSubnet
<1>1. PeersInv => ConnectedSubnet
  <2> SUFFICES ASSUME PeersInv, NEW c \in Clients, NoTimers, Connected(c), Undisturbed
               PROVE  allowed[c] = net[c]
    BY DEF ConnectedSubnet
  <2>1. Command(c) /\ Alone(c)
    BY DEF PeersInv, Undisturbed, NoTimers, Timeless
  <2>2. Found(c) /\ cmd[c] = "connect" /\ at[c] = "ok" /\ phase[c] = "present"
    BY DEF Connected, Found
  <2>3. state[c] = "ACTIVE" /\ param[c] # NoSubnet /\ param[c] = net[c]
    BY <2>1, <2>2 DEF Command, Agreed, SameNet
  <2> QED
    BY <2>1, <2>2, <2>3 DEF Alone, Routed
<1> QED
  BY <1>1, PeersInvariant, PTL

(* ... and the tunnel works: Cargo has the present keys of the peer, and   *)
(* the pod has loaded it.                                                  *)
THEOREM ConnectedClientsHaveATunnel == ConnectionSpec => []ConnectedTunnel
<1>1. PeersInv => ConnectedTunnel
  <2> SUFFICES ASSUME PeersInv, NEW c \in Clients, Connected(c), Undisturbed, pod = "ready"
               PROVE  Tunnel(c)
    BY DEF ConnectedTunnel
  <2>1. Command(c) /\ Loaded(c)
    BY DEF PeersInv, Undisturbed, Timeless, Connected
  <2>2. Found(c) /\ cmd[c] = "connect" /\ at[c] = "ok" /\ phase[c] = "present"
    BY DEF Connected, Found
  <2> QED
    BY <2>1, <2>2 DEF Command, Agreed, Joined, Loaded, Tunnel
<1> QED
  BY <1>1, PeersInvariant, PTL

(* When disconnect has returned the client is no peer any more: the        *)
(* command has waited for WAITING, and disable says so after the peer has  *)
(* been taken out of the map.                                              *)
THEOREM DisconnectedClientsAreNoPeers == ConnectionSpec => []DisconnectedHasNoPeer
<1>1. PeersInv => DisconnectedHasNoPeer
  <2> SUFFICES ASSUME PeersInv, NEW c \in Clients, NoTimers, Disconnected(c), Undisturbed
               PROVE  c \notin peers
    BY DEF DisconnectedHasNoPeer
  <2>1. Command(c) /\ Alone(c) /\ Control(c)
    BY DEF PeersInv, Undisturbed, NoTimers, Timeless
  <2>2. state[c] = "WAITING" /\ param[c] = NoSubnet
    BY <2>1 DEF Disconnected, Command, Agreed
  <2> QED
    BY <2>1, <2>2 DEF Alone, Absent, Control, Asks
<1> QED
  BY <1>1, PeersInvariant, PTL
=============================================================================
