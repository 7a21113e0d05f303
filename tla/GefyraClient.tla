---------------------------- MODULE GefyraClient ----------------------------
(***************************************************************************)
(* The life of GefyraClient objects in the operator: the state machine of  *)
(* clientstate.py, the kopf handlers of handler/clients.py, and what they  *)
(* write: the custom resource, the client's service account, the peers of  *)
(* Stowaway's config map and the pod that is restarted to load them.       *)
(*                                                                         *)
(* As in GefyraBridge a client has two processes: the create, change and   *)
(* delete handlers, which kopf runs one after the other ("worker"), and    *)
(* the reconcile timer beside them.  The change and delete handlers of all *)
(* clients share one lock; create and reconcile take none.  A step is one  *)
(* call to the Kubernetes API.                                             *)
(*                                                                         *)
(* Abstractions: a client has at most one GefyraBridge; its key files in   *)
(* the pod are those of the peers the pod has loaded; ERROR is left out,   *)
(* for impair() answers a TransitionNotAllowed that no path to it raises;  *)
(* status.wireguard and events are shown to users and read by no handler.  *)
(***************************************************************************)
EXTENDS Integers, FiniteSets

CONSTANTS
  Clients, Subnets,
  Nobody, NoSubnet,
  Aging,        \* clients whose connection can reach max_connection_age
  Ending,       \* clients with a sunset
  ManagesAccounts, \* FALSE when DISABLE_CLIENT_SA_MANAGEMENT is set
  MaxFaults     \* bound: failing calls, lost pods, late pods, restarts

ASSUME ClientsAssumption == Aging \subseteq Clients /\ Ending \subseteq Clients
ASSUME LimitAssumption   == MaxFaults \in Nat /\ ManagesAccounts \in BOOLEAN
ASSUME NoneAssumption    == /\ NoSubnet \notin Subnets
                            /\ Nobody \notin Clients \X {"worker", "timer"}

VARIABLES
  phase,     \* the object: absent, present, deleting (finalizer held), gone
  state,     \* its persisted field "state"
  param,     \* providerParameter: the subnet asked for, or NoSubnet
  config,    \* whether providerConfig is set
  handled,   \* providerParameter as kopf last handled it
  todo,      \* the create (or resume) and delete causes kopf still owes
  account,   \* what there is of the service account
  bridged,   \* whether the client has a GefyraBridge
  peers,     \* PEERS of the config map
  allowed,   \* SERVER_ALLOWEDIPS_PEER_<client> of the config map
  fresh,     \* the processes whose copy of the map has its resourceVersion
  pod,       \* the pod of Stowaway: none, starting, ready
  loaded,    \* the peers it was started with
  lock, pc, mem,
  faults,
  failed     \* clients whose create handler has raised a PermanentError

object    == <<phase, state, param, config>>
kopf      == <<handled, todo>>
peerMap   == <<peers, allowed, fresh>>
stowaway  == <<pod, loaded>>
bounds    == <<faults, failed>>
vars      == <<phase, state, param, config, handled, todo, account, bridged,
               peers, allowed, fresh, pod, loaded, lock, pc, mem,
               faults, failed>>

Procs  == Clients \X {"worker", "timer"}
States == {"REQUESTED", "CREATING", "WAITING", "ENABLING", "ACTIVE", "DISABLING"}
Idle   == [task |-> "none", goal |-> "none", state |-> "REQUESTED",
           param |-> NoSubnet, snap |-> {}]

Init ==
  /\ phase = [c \in Clients |-> "absent"]
  /\ state = [c \in Clients |-> "REQUESTED"]
  /\ param = [c \in Clients |-> NoSubnet]
  /\ config = [c \in Clients |-> FALSE]
  /\ handled = [c \in Clients |-> NoSubnet]
  /\ todo = [c \in Clients |-> {}]
  /\ account = [c \in Clients |-> {}]
  /\ bridged = [c \in Clients |-> FALSE]
  /\ peers = {}
  /\ allowed = [c \in Clients |-> NoSubnet]
  /\ fresh = {}
  /\ pod = "ready" /\ loaded = {}
  /\ lock = Nobody
  /\ pc = [h \in Procs |-> "idle"]
  /\ mem = [h \in Procs |-> Idle]
  /\ faults = 0 /\ failed = {}

-----------------------------------------------------------------------------
(* The user, the cluster and the operator's process.                       *)

CreateObject(c) ==
  /\ phase[c] = "absent"
  /\ phase' = [phase EXCEPT ![c] = "present"]
  /\ todo' = [todo EXCEPT ![c] = {"create"}]
  /\ UNCHANGED <<state, param, config, handled, account, bridged, peerMap, stowaway, lock, pc, mem, bounds>>

(* The admission webhook: only a client that is WAITING may ask for a      *)
(* connection, and for no subnet that the config map says is taken.        *)
Admitted(c, s) ==
  s # param[c] => state[c] = "WAITING" /\ \A d \in Clients : allowed[d] # s

(* Someone bridges from the connected client. *)
AddBridge(c) ==
  /\ phase[c] = "present" /\ state[c] = "ACTIVE"
  /\ ~bridged[c]
  /\ bridged' = [bridged EXCEPT ![c] = TRUE]
  /\ UNCHANGED <<object, kopf, account, peerMap, stowaway, lock, pc, mem, bounds>>

MarkDeleted(c) ==
  /\ phase' = [phase EXCEPT ![c] = "deleting"]
  /\ todo' = [todo EXCEPT ![c] = {"delete"}]

DeleteObject(c) ==
  /\ phase[c] = "present"
  /\ MarkDeleted(c)
  /\ UNCHANGED <<state, param, config, handled, account, bridged, peerMap, stowaway, lock, pc, mem, bounds>>

RemoveFinalizer(c) ==
  /\ phase[c] = "deleting"
  /\ todo[c] = {}
  /\ pc[<<c, "worker">>] = "idle" /\ pc[<<c, "timer">>] = "idle"
  /\ phase' = [phase EXCEPT ![c] = "gone"]
  /\ UNCHANGED <<state, param, config, kopf, account, bridged, peerMap, stowaway, lock, pc, mem, bounds>>

(* The statefulset starts a new pod, which reads PEERS from its environment *)
(* when its container is created.                                           *)
PodStarts ==
  /\ pod = "none"
  /\ pod' = "starting"
  /\ loaded' = peers
  /\ UNCHANGED <<object, kopf, account, bridged, peerMap, lock, pc, mem, bounds>>

PodReady ==
  /\ pod = "starting"
  /\ pod' = "ready"
  /\ UNCHANGED <<object, kopf, account, bridged, peerMap, loaded, lock, pc, mem, bounds>>

Fault == faults < MaxFaults /\ faults' = faults + 1

PodLost ==
  /\ pod # "none"
  /\ Fault
  /\ pod' = "none" /\ loaded' = {}
  /\ UNCHANGED <<object, kopf, account, bridged, peerMap, lock, pc, mem, failed>>

Restart ==
  /\ Fault
  /\ pc' = [h \in Procs |-> "idle"]
  /\ mem' = [h \in Procs |-> Idle]
  /\ lock' = Nobody
  /\ fresh' = {}
  /\ todo' = [c \in Clients |-> CASE phase[c] = "present"  -> {"create"}
                                  [] phase[c] = "deleting" -> {"delete"}
                                  [] OTHER                 -> {}]
  /\ failed' = {}
  /\ UNCHANGED <<object, handled, account, bridged, peers, allowed, stowaway>>

-----------------------------------------------------------------------------
(* Starting and ending a handler.                                          *)

Of(h)       == h[1]
Goto(h, at) == pc' = [pc EXCEPT ![h] = at]

(* The states terminate() starts from: neither ENABLING nor DISABLING. *)
Terminable == {"REQUESTED", "CREATING", "WAITING", "ACTIVE"}

(* GefyraClient(obj, initial=obj.state): the state is read here, once. *)
Begin(h, task, goal, at) ==
  /\ pc[h] = "idle"
  /\ Goto(h, at)
  /\ mem' = [mem EXCEPT ![h] = [Idle EXCEPT !.task = task, !.goal = goal,
                                            !.state = state[Of(h)], !.param = param[Of(h)]]]
  /\ UNCHANGED <<object, kopf, account, bridged, peerMap, stowaway, lock, bounds>>

(* The first call of on_create, without accounts the state's own write. *)
Creation == IF ManagesAccounts THEN "account" ELSE "created"

(* Mutant of StartCreate: CREATING is left to the handler that began it. *)
StartCreateOnce(c) ==
  /\ "create" \in todo[c]
  /\ Begin(<<c, "worker">>, "create", "create",
           IF state[c] = "REQUESTED" THEN Creation ELSE "done")

StartCreate(c) ==
  /\ "create" \in todo[c]
  /\ Begin(<<c, "worker">>, "create", "create",
           IF state[c] \in {"REQUESTED", "CREATING"} THEN Creation ELSE "done")

StartChange(c) ==
  /\ phase[c] = "present"
  /\ todo[c] = {}
  /\ handled[c] # param[c]
  /\ Begin(<<c, "worker">>, "change", IF param[c] # NoSubnet THEN "enable" ELSE "disable", "lock")

StartDelete(c) ==
  /\ "delete" \in todo[c]
  /\ Begin(<<c, "worker">>, "delete", "terminate", "lock")

(* client_reconcile, when it has something to do.  It takes no lock. *)
StartTimer(c) ==
  /\ phase[c] = "present"
  /\ \/ c \in Ending /\ state[c] \in Terminable
        /\ Begin(<<c, "timer">>, "reconcile", "terminate", "peer?")
     \/ c \in Aging /\ state[c] = "ACTIVE"
        /\ Begin(<<c, "timer">>, "reconcile", "disable", "list")

(* What the handler does under the lock, from the state it has read before *)
(* it waited: a state it expects nothing of is passed over, except that    *)
(* terminate() raises TransitionNotAllowed.                                *)
Entry(h) ==
  CASE mem[h].goal = "terminate" /\ mem[h].state \in Terminable    -> "peer?"
    [] mem[h].goal = "terminate" /\ mem[h].state \notin Terminable -> "raised"
    [] mem[h].goal = "enable" /\ mem[h].state = "WAITING"    -> "peer?"
    [] mem[h].goal = "enable" /\ mem[h].state = "ENABLING"   -> "config?"
    [] mem[h].goal = "disable" /\ mem[h].state = "ACTIVE"    -> "list"
    [] mem[h].goal = "disable" /\ mem[h].state = "DISABLING" -> "peer?"
    [] OTHER -> "done"

(* Mutant of Enter: the change handlers do not wait for each other. *)
EnterUnlocked(h) ==
  /\ pc[h] = "lock"
  /\ Goto(h, Entry(h))
  /\ UNCHANGED <<object, kopf, account, bridged, peerMap, stowaway, lock, mem, bounds>>

Enter(h) ==
  /\ pc[h] = "lock"
  /\ lock = Nobody
  /\ lock' = h
  /\ Goto(h, Entry(h))
  /\ UNCHANGED <<object, kopf, account, bridged, peerMap, stowaway, mem, bounds>>

Leave(h) ==
  /\ lock' = IF lock = h THEN Nobody ELSE lock
  /\ mem' = [mem EXCEPT ![h] = Idle]
  /\ fresh' = fresh \ {h}
  /\ Goto(h, "idle")
  /\ UNCHANGED <<object, account, bridged, peers, allowed, stowaway, bounds>>

Finish(h) ==
  /\ pc[h] = "done"
  /\ todo' = [todo EXCEPT ![Of(h)] = @ \ {mem[h].task}]
  /\ handled' = IF mem[h].task = "change" THEN [handled EXCEPT ![Of(h)] = mem[h].param]
                                          ELSE handled
  /\ Leave(h)

(* The handler has raised: kopf calls it again, with the object as it is   *)
(* by then.                                                                *)
Raise(h) ==
  /\ pc[h] = "raised"
  /\ Leave(h)
  /\ UNCHANGED kopf

-----------------------------------------------------------------------------
(* The state machine's own writes: StateObject.state of base.py.           *)

(* Mutant of Machine: nothing is done after DISABLING is persisted. *)
MachineNoWait ==
  [created    |-> [to |-> "CREATING",  then |-> "waiting"],
   waiting    |-> [to |-> "WAITING",   then |-> "done"],
   enabling   |-> [to |-> "ENABLING",  then |-> "config?"],
   activate   |-> [to |-> "ACTIVE",    then |-> "done"],
   disabling  |-> [to |-> "DISABLING", then |-> "done"]]

Machine == [created    |-> [to |-> "CREATING",  then |-> "waiting"],
            waiting    |-> [to |-> "WAITING",   then |-> "done"],
            enabling   |-> [to |-> "ENABLING",  then |-> "config?"],
            activate   |-> [to |-> "ACTIVE",    then |-> "done"],
            disabling  |-> [to |-> "DISABLING", then |-> "peer?"]]

Persist(h) ==
  /\ pc[h] \in DOMAIN Machine
  /\ state' = [state EXCEPT ![Of(h)] = Machine[pc[h]].to]
  /\ Goto(h, Machine[pc[h]].then)
  /\ UNCHANGED <<phase, param, config, kopf, account, bridged, peerMap, stowaway, lock, mem, bounds>>

-----------------------------------------------------------------------------
(* on_create: the service account, its binding and its token.              *)

(* An account that exists already (409) ends the creation silently. *)
MakeAccount(h) ==
  /\ pc[h] = "account"
  /\ account' = [account EXCEPT ![Of(h)] = @ \cup {"account"}]
  /\ Goto(h, IF "account" \in account[Of(h)] THEN "token" ELSE "binding")
  /\ UNCHANGED <<object, kopf, bridged, peerMap, stowaway, lock, mem, bounds>>

MakeBinding(h) ==
  /\ pc[h] = "binding"
  /\ account' = [account EXCEPT ![Of(h)] = @ \cup {"binding"}]
  /\ Goto(h, "token")
  /\ UNCHANGED <<object, kopf, bridged, peerMap, stowaway, lock, mem, bounds>>

(* A token that has just been asked for is not generated yet, and never    *)
(* for an account that has gone.                                           *)
ReadToken(h) ==
  /\ pc[h] = "token"
  /\ account' = [account EXCEPT ![Of(h)] = IF "account" \in @ THEN @ \cup {"token"} ELSE @]
  /\ Goto(h, IF "token" \in account[Of(h)] THEN "publish token" ELSE "raised")
  /\ UNCHANGED <<object, kopf, bridged, peerMap, stowaway, lock, mem, bounds>>

PublishToken(h) ==
  /\ pc[h] = "publish token"
  /\ Goto(h, "created")
  /\ UNCHANGED <<object, kopf, account, bridged, peerMap, stowaway, lock, mem, bounds>>

-----------------------------------------------------------------------------
(* The peers: can_add_client, disable_connection and on_terminate.         *)

Done(h)       == IF mem[h].task = "reconcile" THEN "delete object" ELSE "done"
AfterPeer(h)  == CASE mem[h].goal = "enable"    -> "enabling"
                   [] mem[h].goal = "disable"   -> "clear config"
                   [] mem[h].goal = "terminate" -> "read account"
(* RuntimeError: no pod.  on_terminate passes over every exception. *)
NoPod(h) == IF mem[h].goal = "terminate" THEN Done(h) ELSE "raised"

(* Mutant of AskPeer: on_terminate leaves the peer to disable. *)
AskPeerLeft(h) ==
  /\ pc[h] = "peer?"
  /\ Goto(h, CASE mem[h].goal = "enable"    -> IF Of(h) \in peers THEN "enabling" ELSE "read"
                [] mem[h].goal = "disable"   -> IF Of(h) \in peers THEN "read" ELSE "waiting"
                [] mem[h].goal = "terminate" -> "read account")
  /\ UNCHANGED <<object, kopf, account, bridged, peerMap, stowaway, lock, mem, bounds>>

(* peer_exists.  Where there is nothing to disable the configuration stays. *)
AskPeer(h) ==
  /\ pc[h] = "peer?"
  /\ Goto(h, CASE mem[h].goal = "enable"    -> IF Of(h) \in peers THEN "enabling" ELSE "read"
                [] mem[h].goal = "disable"   -> IF Of(h) \in peers THEN "read" ELSE "waiting"
                [] mem[h].goal = "terminate" -> IF Of(h) \in peers THEN "read" ELSE "read account")
  /\ UNCHANGED <<object, kopf, account, bridged, peerMap, stowaway, lock, mem, bounds>>

ReadPeers(h) ==
  LET found == Of(h) \in peers
  IN  /\ pc[h] = "read"
      /\ mem' = [mem EXCEPT ![h].snap = peers]
      /\ fresh' = fresh \cup {h}
      /\ Goto(h, CASE mem[h].goal = "enable" -> IF found THEN "restart" ELSE "patch"
                   [] mem[h].goal # "enable" -> IF found THEN "replace" ELSE "rm")
      /\ UNCHANGED <<object, kopf, account, bridged, peers, allowed, stowaway, lock, bounds>>

(* The patch writes the whole of PEERS as it was read, with one more. *)
PatchPeers(h) ==
  /\ pc[h] = "patch"
  /\ peers' = mem[h].snap \cup {Of(h)}
  /\ allowed' = [allowed EXCEPT ![Of(h)] = mem[h].param]
  /\ fresh' = {}
  /\ Goto(h, "restart")
  /\ UNCHANGED <<object, kopf, account, bridged, stowaway, lock, mem, bounds>>

(* 409 when the map has changed since: remove_peer logs it and returns. *)
ReplacePeers(h) ==
  /\ pc[h] = "replace"
  /\ IF h \in fresh
     THEN /\ peers' = peers \ {Of(h)}
          /\ allowed' = [allowed EXCEPT ![Of(h)] = NoSubnet]
          /\ fresh' = {}
          /\ Goto(h, "rm")
     ELSE /\ UNCHANGED peerMap
          /\ Goto(h, AfterPeer(h))
  /\ UNCHANGED <<object, kopf, account, bridged, stowaway, lock, mem, bounds>>

RemoveFiles(h) ==
  /\ pc[h] = "rm"
  /\ Goto(h, IF pod = "none" THEN NoPod(h) ELSE "restart")
  /\ UNCHANGED <<object, kopf, account, bridged, peerMap, stowaway, lock, mem, bounds>>

(* _restart_stowaway.  A pod that goes between its listing and its         *)
(* deletion is an ApiException, which add_peer and remove_peer log.        *)
RestartPod(h) ==
  /\ pc[h] = "restart"
  /\ IF pod = "none"
     THEN /\ \E at \in {NoPod(h), AfterPeer(h)} : Goto(h, at)
          /\ UNCHANGED stowaway
     ELSE /\ pod' = "none" /\ loaded' = {}
          /\ Goto(h, "await pod")
  /\ UNCHANGED <<object, kopf, account, bridged, peerMap, lock, mem, bounds>>

AwaitPod(h) ==
  /\ pc[h] = "await pod"
  /\ pod = "ready"
  /\ Goto(h, AfterPeer(h))
  /\ UNCHANGED <<object, kopf, account, bridged, peerMap, stowaway, lock, mem, bounds>>

(* The wait for the pod ends by its timeout, which is only logged. *)
PodLate(h) ==
  /\ pc[h] = "await pod"
  /\ pod # "ready"
  /\ Fault
  /\ Goto(h, AfterPeer(h))
  /\ UNCHANGED <<object, kopf, account, bridged, peerMap, stowaway, lock, mem, failed>>

-----------------------------------------------------------------------------
(* enable_connection, and the end of disable_connection.                   *)

AskConfig(h) ==
  /\ pc[h] = "config?"
  /\ Goto(h, IF Of(h) \in peers THEN "copy" ELSE "raised")
  /\ UNCHANGED <<object, kopf, account, bridged, peerMap, stowaway, lock, mem, bounds>>

(* The files of the peer are there once a pod has loaded it. *)
CopyConfig(h) ==
  /\ pc[h] = "copy"
  /\ Goto(h, IF pod = "ready" /\ Of(h) \in loaded THEN "write config" ELSE "raised")
  /\ UNCHANGED <<object, kopf, account, bridged, peerMap, stowaway, lock, mem, bounds>>

WriteConfig(h) ==
  /\ pc[h] \in {"write config", "clear config"}
  /\ config' = [config EXCEPT ![Of(h)] = (pc[h] = "write config")]
  /\ Goto(h, IF pc[h] = "write config" THEN "activate" ELSE "waiting")
  /\ UNCHANGED <<phase, state, param, kopf, account, bridged, peerMap, stowaway, lock, mem, bounds>>

-----------------------------------------------------------------------------
(* What goes with a client: its bridges, its account, and the object.      *)

AfterBridges(h) == IF mem[h].goal = "disable" THEN "disabling" ELSE Done(h)
(* Any error: on_disable lets it through, on_terminate passes over it. *)
Broken(h) == IF mem[h].goal = "disable" THEN "raised" ELSE Done(h)

ListBridges(h) ==
  /\ pc[h] = "list"
  /\ Goto(h, IF bridged[Of(h)] THEN "delete bridge" ELSE AfterBridges(h))
  /\ UNCHANGED <<object, kopf, account, bridged, peerMap, stowaway, lock, mem, bounds>>

DeleteBridge(h) ==
  /\ pc[h] = "delete bridge"
  /\ Goto(h, IF bridged[Of(h)] THEN AfterBridges(h) ELSE Broken(h))
  /\ bridged' = [bridged EXCEPT ![Of(h)] = FALSE]
  /\ UNCHANGED <<object, kopf, account, peerMap, stowaway, lock, mem, bounds>>

ReadAccount(h) ==
  /\ pc[h] = "read account"
  /\ Goto(h, IF "account" \in account[Of(h)] THEN "delete binding" ELSE "list")
  /\ UNCHANGED <<object, kopf, account, bridged, peerMap, stowaway, lock, mem, bounds>>

(* A binding that is not there (404) ends the removal silently. *)
DeleteBinding(h) ==
  /\ pc[h] = "delete binding"
  /\ Goto(h, IF "binding" \in account[Of(h)] THEN "delete account" ELSE "list")
  /\ account' = [account EXCEPT ![Of(h)] = @ \ {"binding"}]
  /\ UNCHANGED <<object, kopf, bridged, peerMap, stowaway, lock, mem, bounds>>

(* The secret of the token goes with its account. *)
DeleteAccount(h) ==
  /\ pc[h] = "delete account"
  /\ account' = [account EXCEPT ![Of(h)] = @ \ {"account", "token"}]
  /\ Goto(h, "list")
  /\ UNCHANGED <<object, kopf, bridged, peerMap, stowaway, lock, mem, bounds>>

(* client_reconcile deletes the object it has terminated. *)
DeleteEnded(h) ==
  /\ pc[h] = "delete object"
  /\ Goto(h, "done")
  /\ IF phase[Of(h)] = "present" THEN MarkDeleted(Of(h)) ELSE UNCHANGED <<phase, todo>>
  /\ UNCHANGED <<state, param, config, handled, account, bridged, peerMap, stowaway, lock, mem, bounds>>

-----------------------------------------------------------------------------
(* A call that fails.                                                      *)

(* Where its exception leads: to the next call when somebody has caught it. *)
(* The change handler raises again what says 500 and is done otherwise; a   *)
(* token that cannot be read or asked for is a PermanentError, after which  *)
(* kopf does not call the create handler again.                             *)
RemovingPeer == {"read", "replace", "rm", "restart"}

CaughtAt(h) ==
  LET goal == mem[h].goal
      at   == pc[h]
  IN  CASE goal = "create" /\ at = "token"                        -> {"done"}
        [] goal = "enable" /\ at = "peer?"                        -> {"read"}
        [] goal = "enable" /\ at \in {"read", "patch", "restart"}  -> {"enabling"}
        [] goal = "enable" /\ at = "write config"                 -> {"raised", "activate"}
        [] goal = "enable" /\ at \in {"enabling", "activate"}      -> {"raised", "done"}
        [] goal = "disable" /\ at = "peer?"                       -> {"waiting"}
        [] goal = "disable" /\ at \in RemovingPeer                 -> {"clear config"}
        [] goal = "terminate" /\ at \in RemovingPeer \cup {"peer?"} -> {"read account"}
        [] goal = "terminate" /\ at = "delete object"             -> {"done"}
        [] goal = "terminate" /\ at \notin RemovingPeer \cup {"peer?", "delete object"} -> {Done(h)}
        [] OTHER                                                  -> {"raised"}

Settled == {"idle", "lock", "done", "raised", "await pod"}

CallFails(h) ==
  /\ pc[h] \notin Settled
  /\ Fault
  /\ \E at \in CaughtAt(h) : Goto(h, at)
  /\ failed' = IF pc[h] = "token" THEN failed \cup {Of(h)} ELSE failed
  /\ UNCHANGED <<object, kopf, account, bridged, peerMap, stowaway, lock, mem>>

-----------------------------------------------------------------------------
Step(h) ==
  \/ Finish(h) \/ Raise(h) \/ Persist(h)
  \/ MakeAccount(h) \/ MakeBinding(h) \/ ReadToken(h) \/ PublishToken(h)
  \/ AskPeer(h) \/ ReadPeers(h) \/ PatchPeers(h) \/ ReplacePeers(h)
  \/ RemoveFiles(h) \/ RestartPod(h) \/ AwaitPod(h)
  \/ AskConfig(h) \/ CopyConfig(h) \/ WriteConfig(h)
  \/ ListBridges(h) \/ DeleteBridge(h)
  \/ ReadAccount(h) \/ DeleteBinding(h) \/ DeleteAccount(h) \/ DeleteEnded(h)

Dispatch(c) == StartCreate(c) \/ StartChange(c) \/ StartDelete(c) \/ RemoveFinalizer(c)

Operator ==
  \/ \E c \in Clients : Dispatch(c) \/ StartTimer(c)
  \/ \E h \in Procs : Enter(h) \/ Step(h) \/ CallFails(h) \/ PodLate(h)
  \/ Restart

Cluster == PodStarts \/ PodReady \/ PodLost

-----------------------------------------------------------------------------
(* Properties.                                                             *)

Pcs == {"idle", "lock", "done", "raised", "created", "waiting", "enabling",
        "activate", "disabling", "account", "binding", "token", "publish token",
        "peer?", "read", "patch", "replace", "rm", "restart", "await pod",
        "config?", "copy", "write config", "clear config", "list",
        "delete bridge", "read account", "delete binding", "delete account",
        "delete object"}

(* Types, and what a handler under way has to work with: the subnet that   *)
(* enable writes is one, for the handler starts when there is a parameter. *)
TypeOK ==
  /\ phase \in [Clients -> {"absent", "present", "deleting", "gone"}]
  /\ state \in [Clients -> States]
  /\ param \in [Clients -> Subnets \cup {NoSubnet}]
  /\ config \in [Clients -> BOOLEAN]
  /\ handled \in [Clients -> Subnets \cup {NoSubnet}]
  /\ todo \in [Clients -> SUBSET {"create", "delete"}]
  /\ account \in [Clients -> SUBSET {"account", "binding", "token"}]
  /\ bridged \in [Clients -> BOOLEAN]
  /\ peers \subseteq Clients
  /\ allowed \in [Clients -> Subnets \cup {NoSubnet}]
  /\ fresh \subseteq Procs
  /\ pod \in {"none", "starting", "ready"} /\ loaded \subseteq Clients
  /\ lock \in Procs \cup {Nobody}
  /\ pc \in [Procs -> Pcs]
  /\ mem \in [Procs -> [task : {"none", "create", "change", "delete", "reconcile"},
                        goal : {"none", "create", "enable", "disable", "terminate"},
                        state : States, param : Subnets \cup {NoSubnet},
                        snap : SUBSET Clients]]
  /\ faults \in 0..MaxFaults /\ failed \subseteq Clients
  /\ \A h \in Procs : mem[h].goal = "enable" => mem[h].param \in Subnets

AtRest(c)   == pc[<<c, "worker">>] = "idle" /\ pc[<<c, "timer">>] = "idle"
Undisturbed == faults = 0

(* No client has an age or a sunset: the timer, which takes no lock, has   *)
(* nothing to do. *)
NoTimers == Aging \cup Ending = {}

(* A client that says ACTIVE, while no handler of its own is at work, is a *)
(* peer of the config map, with a subnet, and has its configuration.  One  *)
(* with an age has not: its timer may clear what enable has just written.  *)
ActiveHasPeer ==
  \A c \in Clients \ (Aging \cup Ending) :
     Undisturbed /\ phase[c] = "present" /\ state[c] = "ACTIVE" /\ AtRest(c)
     => c \in peers /\ allowed[c] # NoSubnet /\ config[c]

(* The peers' map is edited without a lock of its own; still nobody but    *)
(* the handlers of a client takes the client out of it.                    *)
NoPeerLost ==
  [][\A c \in peers \ peers' :
        \E h \in Procs : Of(h) = c /\ pc[h] = "replace" /\ pc'[h] # "replace"]_vars

(* A client that has gone has left no peer, no account and no bridge       *)
(* behind; unless a timer was at work beside the delete handler: that of   *)
(* the client takes its transitions away, that of any other one edits the  *)
(* map meanwhile, and remove_peer takes the conflict for success.          *)
GoneLeavesNothing ==
  \A c \in Clients :
     NoTimers /\ Undisturbed /\ phase[c] = "gone" => c \notin peers /\ account[c] = {} /\ ~bridged[c]

(* Creation gets through: after failing calls, restarts, and with a timer  *)
(* that ends the client meanwhile, a client that is still there gets its   *)
(* account and can be connected.  Only the call that reads or asks for the *)
(* token must not fail: nobody creates that client any further until the   *)
(* operator starts anew.                                                   *)
BecomesReady ==
  \A c \in Clients :
     phase[c] = "present" /\ state[c] \in {"REQUESTED", "CREATING"}
     ~> phase[c] # "present" \/ state[c] \notin {"REQUESTED", "CREATING"} \/ c \in failed

(* A deletion that nothing disturbs ends: whatever the change handler is   *)
(* at when the object is deleted, the client gets out of ENABLING and      *)
(* DISABLING.  With a timer it may not, which disables or terminates the   *)
(* client in the middle of enable.                                         *)
DeletionEnds ==
  \A c \in Clients : NoTimers /\ phase[c] = "deleting" ~> phase[c] = "gone" \/ ~Undisturbed
=============================================================================
