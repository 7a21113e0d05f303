---------------------------- MODULE GefyraBridge ----------------------------
(***************************************************************************)
(* The life of GefyraBridge objects in the operator: the state machine of  *)
(* bridgestate.py, the kopf handlers of handler/bridges.py that drive it,  *)
(* and what they write: the custom resource, the proxy routes of Stowaway  *)
(* and the bridge rules in the Carrier of the target.                      *)
(*                                                                         *)
(* Each bridge has two processes.  kopf runs the create, resume, update    *)
(* and delete handlers of one object one after the other ("worker"), with  *)
(* the object as it was when the handler started, but runs the reconcile   *)
(* timer beside them, with a live view of the object; both read the state  *)
(* once, before they wait for the lock of the target.  A step is one call  *)
(* to the Kubernetes API or to a provider; send() only queues an event of  *)
(* the machine, so what a callback sends happens after its own transition. *)
(*                                                                         *)
(* Abstractions: a bridge has one port mapping; a target runs one pod; the *)
(* edits of proxy routes are those of RouteTable, each one step, which     *)
(* StowawayRoutes implements; the sunset of a bridge is not acted upon by  *)
(* any handler; operator restarts find Stowaway installed.                 *)
(***************************************************************************)
EXTENDS Integers, FiniteSets

CONSTANTS
  Bridges, Targets, Clients, Dests, Ports,
  TargetOf,     \* the GefyraBridgeMount a bridge names as its target
  ClientOf,     \* the client a bridge leads to
  DestsOf,      \* the addresses of a bridge's client the user may ask for
  Nobody, NoDest, NoPort,
  MaxEdits,     \* bound: changes of destinationIP by the user
  MaxFaults,    \* bound: failing calls, carrier pods that go away, restarts
  MaxRestarts,  \* bound: those that are restarts of the operator
  MaxEvents     \* bound: edits and faults together

ASSUME BridgeAssumption == /\ TargetOf \in [Bridges -> Targets]
                           /\ ClientOf \in [Bridges -> Clients]
                           /\ DestsOf \in [Bridges -> SUBSET Dests]
ASSUME BoundAssumption  == {MaxEdits, MaxFaults, MaxRestarts, MaxEvents} \subseteq Nat
ASSUME AbsentAssumption == /\ NoDest \notin Dests /\ NoPort \notin Ports
                           /\ Nobody \notin Bridges \X {"worker", "timer"}

VARIABLES
  phase,      \* the object: absent, present, deleting (finalizer held), gone
  state,      \* its persisted field "state"
  wasActive,  \* whether its stateTransitions name ACTIVE
  dest,       \* its destinationIP
  endpoint,   \* its clusterEndpoint for the port, or NoPort
  handled,    \* destinationIP as kopf last handled it, NoDest before
  todo,       \* the create (or resume) and delete causes kopf still owes
  table,      \* the proxy routes
  rules,      \* the endpoint of each bridge in the Carrier of each target
  ready,      \* whether the target's GefyraBridgeMount and pod are ready
  lock,       \* the holder of the lock of each target
  pc, mem,    \* the next call of a process, and what its handler remembers
  edits, faults, restarts,
  crossed,    \* whether an edit has crossed the handling of a bridge (see
              \* EditDestination): remembered for the properties, never read
  unsaved     \* the bridges a write of whose state has failed: likewise

object  == <<phase, state, wasActive, dest, endpoint>>
kopf    == <<handled, todo>>
cluster == <<table, rules, ready>>
bounds  == <<edits, faults, restarts, crossed, unsaved>>
vars    == <<phase, state, wasActive, dest, endpoint, handled, todo, table,
             rules, ready, lock, pc, mem, edits, faults, restarts, crossed, unsaved>>

Table == INSTANCE RouteTable

States == {"REQUESTED", "INSTALLING", "INSTALLED", "CREATING", "ACTIVE",
           "RESTORING", "ERROR"}
Tasks  == {"create", "update", "delete", "reconcile"}
Goals  == {"probe", "setup", "teardown"}
Procs  == Bridges \X {"worker", "timer"}

NoRules == [b \in Bridges |-> NoPort]
Idle    == [task |-> "none", state |-> "REQUESTED", dest |-> NoDest,
            goal |-> "probe", port |-> NoPort, rules |-> NoRules]

Init ==
  /\ phase = [b \in Bridges |-> "absent"]
  /\ state = [b \in Bridges |-> "REQUESTED"]
  /\ wasActive = [b \in Bridges |-> FALSE]
  /\ dest = [b \in Bridges |-> NoDest]
  /\ endpoint = [b \in Bridges |-> NoPort]
  /\ handled = [b \in Bridges |-> NoDest]
  /\ todo = [b \in Bridges |-> {}]
  /\ Table!Init
  /\ rules = [t \in Targets |-> NoRules]
  /\ ready = [t \in Targets |-> TRUE]
  /\ lock = [t \in Targets |-> Nobody]
  /\ pc = [h \in Procs |-> "idle"]
  /\ mem = [h \in Procs |-> Idle]
  /\ edits = 0 /\ faults = 0 /\ restarts = 0 /\ crossed = FALSE /\ unsaved = {}

-----------------------------------------------------------------------------
(* The user, the cluster and the operator's process.                       *)

(* The bounds leave room for an edit, and for a failure. *)
MayEdit == edits < MaxEdits /\ edits + faults + restarts < MaxEvents
MayFail == faults + restarts < MaxFaults /\ edits + faults + restarts < MaxEvents

(* The admission webhook lets a bridge in only while its mount is ACTIVE. *)
CreateAt(b, d) ==
  /\ phase[b] = "absent"
  /\ ready[TargetOf[b]]
  /\ phase' = [phase EXCEPT ![b] = "present"]
  /\ dest' = [dest EXCEPT ![b] = d]
  /\ todo' = [todo EXCEPT ![b] = {"create"}]
  /\ UNCHANGED <<state, wasActive, endpoint, handled, cluster, lock, pc, mem, bounds>>

CreateObject(b) == \E d \in DestsOf[b] : CreateAt(b, d)

(* The timer sees the edit at once; if it is setting the bridge up, it     *)
(* looks up the route to one destination and the port of the other.  The   *)
(* worker undoes the destination that kopf handled last: an edit before    *)
(* the previous one was handled makes kopf forget the one in between.      *)
Crosses(b) == mem[<<b, "timer">>].goal = "setup" \/ handled[b] \notin {NoDest, dest[b]}

EditDestination(b) ==
  /\ phase[b] = "present"
  /\ MayEdit
  /\ edits' = edits + 1
  /\ \E d \in DestsOf[b] \ {dest[b]} : dest' = [dest EXCEPT ![b] = d]
  /\ crossed' = (crossed \/ Crosses(b))
  /\ UNCHANGED <<phase, state, wasActive, endpoint, kopf, cluster, lock, pc, mem, faults, restarts, unsaved>>

(* kopf has set a finalizer: the object stays until its handler has run.   *)
(* Timers of the object start no more; one that runs is left to finish.    *)
DeleteObject(b) ==
  /\ phase[b] = "present"
  /\ phase' = [phase EXCEPT ![b] = "deleting"]
  /\ todo' = [todo EXCEPT ![b] = {"delete"}]
  /\ UNCHANGED <<state, wasActive, dest, endpoint, handled, cluster, lock, pc, mem, bounds>>

RemoveFinalizer(b) ==
  /\ phase[b] = "deleting"
  /\ todo[b] = {}
  /\ pc[<<b, "worker">>] = "idle" /\ pc[<<b, "timer">>] = "idle"
  /\ phase' = [phase EXCEPT ![b] = "gone"]
  /\ UNCHANGED <<state, wasActive, dest, endpoint, kopf, cluster, lock, pc, mem, bounds>>

(* The pod of the target is replaced: its Carrier starts without bridges.  *)
PodGoes(t) ==
  /\ ready[t]
  /\ MayFail
  /\ faults' = faults + 1
  /\ ready' = [ready EXCEPT ![t] = FALSE]
  /\ rules' = [rules EXCEPT ![t] = NoRules]
  /\ UNCHANGED <<object, kopf, table, lock, pc, mem, edits, restarts, crossed, unsaved>>

PodReturns(t) ==
  /\ ~ready[t]
  /\ ready' = [ready EXCEPT ![t] = TRUE]
  /\ UNCHANGED <<object, kopf, table, rules, lock, pc, mem, bounds>>

(* Handlers and their locks are gone; kopf resumes every object, and runs  *)
(* the delete handler of those that are marked again.                      *)
Restart ==
  /\ restarts < MaxRestarts /\ MayFail
  /\ restarts' = restarts + 1
  /\ pc' = [h \in Procs |-> "idle"]
  /\ mem' = [h \in Procs |-> Idle]
  /\ lock' = [t \in Targets |-> Nobody]
  /\ todo' = [b \in Bridges |-> CASE phase[b] = "present"  -> {"create"}
                                  [] phase[b] = "deleting" -> {"delete"}
                                  [] OTHER                 -> {}]
  /\ UNCHANGED <<object, handled, cluster, edits, faults, crossed, unsaved>>

-----------------------------------------------------------------------------
(* Starting and ending a handler.                                          *)

Of(h)     == h[1]
Target(h) == TargetOf[h[1]]

(* Where the handler turns to for its destination: the timer to the live   *)
(* object; update_bridge_destination tears down the old one, which is what *)
(* kopf handled last.                                                      *)
Destination(h) ==
  IF mem[h].task = "reconcile" THEN dest[Of(h)]
  ELSE IF mem[h].task = "update" /\ mem[h].goal = "teardown" THEN handled[Of(h)]
  ELSE mem[h].dest

Goto(h, at) == pc' = [pc EXCEPT ![h] = at]
Turn(h, goal, at) ==
  /\ mem' = [mem EXCEPT ![h].goal = goal]
  /\ Goto(h, at)

(* GefyraBridge(obj, initial=obj.state): the state is read here, once. *)
Start(b, who, task) ==
  /\ pc[<<b, who>>] = "idle"
  /\ pc' = [pc EXCEPT ![<<b, who>>] = "lock"]
  /\ mem' = [mem EXCEPT ![<<b, who>>] =
                [Idle EXCEPT !.task = task, !.state = state[b], !.dest = dest[b]]]

StartCause(b) ==
  /\ \E task \in todo[b] : Start(b, "worker", task)
  /\ UNCHANGED <<object, kopf, cluster, lock, bounds>>

(* update_bridge_destination does nothing unless the bridge is ACTIVE, and *)
(* then the change counts as handled.                                      *)
StartUpdate(b) ==
  /\ phase[b] = "present"
  /\ todo[b] = {}
  /\ handled[b] # dest[b]
  /\ IF state[b] = "ACTIVE"
     THEN /\ Start(b, "worker", "update")
          /\ UNCHANGED handled
     ELSE /\ pc[<<b, "worker">>] = "idle"
          /\ handled' = [handled EXCEPT ![b] = dest[b]]
          /\ UNCHANGED <<pc, mem>>
  /\ UNCHANGED <<object, todo, cluster, lock, bounds>>

(* bridge_reconcile skips a bridge that has never been ACTIVE. *)
StartTimer(b) ==
  /\ phase[b] = "present"
  /\ wasActive[b]
  /\ Start(b, "timer", "reconcile")
  /\ UNCHANGED <<object, kopf, cluster, lock, bounds>>

(* Mutant of Entry: reconcile leaves a bridge in ERROR to itself. *)
EntryWithoutError(h) ==
  LET task == mem[h].task
      read == mem[h].state
  IN  IF task \in {"update", "delete"} THEN <<"teardown", "exists">> ELSE
      CASE read = "INSTALLED"                      -> <<"setup", "exists">>
        [] read = "INSTALLING"                     -> <<"setup", "install">>
        [] read = "REQUESTED" /\ task = "create"   -> <<"setup", "install">>
        [] read = "ACTIVE" /\ task = "reconcile"   -> <<"probe", "exists">>
        [] OTHER                                   -> <<"setup", "done">>

(* What the handler does first under the lock, from the state it has read. *)
Entry(h) ==
  LET task == mem[h].task
      read == mem[h].state
  IN  IF task \in {"update", "delete"} THEN <<"teardown", "exists">> ELSE
      CASE read = "INSTALLED"                        -> <<"setup", "exists">>
        [] read = "INSTALLING"                         -> <<"setup", "install">>
        [] read = "REQUESTED" /\ task = "create"       -> <<"setup", "install">>
        [] read = "ERROR" /\ task = "reconcile"        -> <<"setup", "restore">>
        [] read = "ACTIVE" /\ task = "reconcile"       -> <<"probe", "exists">>
        [] OTHER                                       -> <<"setup", "done">>

Enter(h) ==
  /\ pc[h] = "lock"
  /\ lock[Target(h)] = Nobody
  /\ lock' = [lock EXCEPT ![Target(h)] = h]
  /\ Turn(h, Entry(h)[1], Entry(h)[2])
  /\ UNCHANGED <<object, kopf, cluster, bounds>>

(* The handler has returned.  kopf takes note of what it has handled.      *)
Finish(h) ==
  /\ pc[h] = "done"
  /\ LET b == Of(h)
         first == mem[h].task = "create" /\ handled[b] = NoDest
     IN  /\ todo' = [todo EXCEPT ![b] = @ \ {mem[h].task}]
         /\ handled' = IF first \/ mem[h].task = "update"
                       THEN [handled EXCEPT ![b] = mem[h].dest]
                       ELSE handled
  /\ lock' = [lock EXCEPT ![Target(h)] = Nobody]
  /\ mem' = [mem EXCEPT ![h] = Idle]
  /\ Goto(h, "idle")
  /\ UNCHANGED <<object, cluster, bounds>>

(* Mutant of Raise: the error passes the release of the target's lock. *)
RaiseHolding(h) ==
  /\ pc[h] = "raised"
  /\ mem' = [mem EXCEPT ![h] = Idle]
  /\ Goto(h, "idle")
  /\ UNCHANGED <<object, kopf, cluster, lock, bounds>>

(* It has raised: kopf calls it again, with a new object.  The timer       *)
(* swallows the error, and is called again anyway.                         *)
Raise(h) ==
  /\ pc[h] = "raised"
  /\ lock' = [lock EXCEPT ![Target(h)] = Nobody]
  /\ mem' = [mem EXCEPT ![h] = Idle]
  /\ Goto(h, "idle")
  /\ UNCHANGED <<object, kopf, cluster, bounds>>

-----------------------------------------------------------------------------
(* The state machine's own writes: StateObject.state of base.py.           *)

Persist(h, s) ==
  /\ state' = [state EXCEPT ![Of(h)] = s]
  /\ wasActive' = [wasActive EXCEPT ![Of(h)] = @ \/ s = "ACTIVE"]
  /\ UNCHANGED <<phase, dest, endpoint, kopf, cluster, lock, bounds>>

(* install: with a provider that is not ready the machine stays put. *)
Install(h) ==
  /\ pc[h] = "install"
  /\ IF ready[Target(h)]
     THEN /\ Persist(h, "INSTALLING")
          /\ Goto(h, "set_installed")
     ELSE /\ Goto(h, "raised")
          /\ UNCHANGED <<object, kopf, cluster, lock, bounds>>
  /\ UNCHANGED mem

Restore(h) ==
  /\ pc[h] = "restore"
  /\ Persist(h, "RESTORING")
  /\ Goto(h, "set_installed")
  /\ UNCHANGED mem

(* Mutant of SetInstalled: the handler forgets to activate what it has     *)
(* restored.                                                               *)
SetInstalledOnly(h) ==
  /\ pc[h] = "set_installed"
  /\ Persist(h, "INSTALLED")
  /\ Turn(h, "setup", IF mem[h].task = "update" THEN "done" ELSE "exists")

(* set_installed, which every handler follows with activate. *)
SetInstalled(h) ==
  /\ pc[h] = "set_installed"
  /\ Persist(h, "INSTALLED")
  /\ Turn(h, "setup", "exists")

(* on_activate is over: the machine moves to CREATING, then on to what     *)
(* on_activate has sent.                                                   *)
Activated(h) ==
  /\ pc[h] \in {"set up", "not set up"}
  /\ Persist(h, "CREATING")
  /\ Goto(h, IF pc[h] = "set up" THEN "establish" ELSE "impair")
  /\ UNCHANGED mem

Establish(h) ==
  /\ pc[h] = "establish"
  /\ Persist(h, "ACTIVE")
  /\ Goto(h, "done")
  /\ UNCHANGED mem

Impair(h) ==
  /\ pc[h] = "impair"
  /\ Persist(h, "ERROR")
  /\ Goto(h, "done")
  /\ UNCHANGED mem

(* The state that the machine writes next. *)
Entered(h) ==
  CASE pc[h] = "install"                 -> "INSTALLING"
    [] pc[h] = "restore"                 -> "RESTORING"
    [] pc[h] = "set_installed"           -> "INSTALLED"
    [] pc[h] \in {"set up", "not set up"} -> "CREATING"
    [] pc[h] = "establish"               -> "ACTIVE"
    [] pc[h] = "impair"                  -> "ERROR"

(* The write fails, before or after it has taken effect.  The machine      *)
(* forgets the events it has queued; the handler raises, and what calls it *)
(* next finds the state that was written last.                             *)
PersistFails(h) ==
  /\ pc[h] \in {"install", "restore", "set_installed", "set up", "not set up",
               "establish", "impair"}
  /\ pc[h] = "install" => ready[Target(h)]
  /\ MayFail
  /\ faults' = faults + 1
  /\ unsaved' = unsaved \cup {Of(h)}
  /\ \/ UNCHANGED <<state, wasActive>>
     \/ /\ state' = [state EXCEPT ![Of(h)] = Entered(h)]
        /\ wasActive' = [wasActive EXCEPT ![Of(h)] = @ \/ Entered(h) = "ACTIVE"]
  /\ Goto(h, "raised")
  /\ UNCHANGED <<phase, dest, endpoint, kopf, cluster, lock, mem, edits, restarts, crossed>>

-----------------------------------------------------------------------------
(* is_intact ("probe"), handle_proxyroute_setup and _teardown: calls to    *)
(* the connection provider and to the Carrier of the target.               *)

OwnRoutes(h) ==
  {r \in table : r.peer = ClientOf[Of(h)] /\ r.dest = Destination(h)}

(* What follows when a teardown is over. *)
TornDown(h) == IF mem[h].task = "update" THEN "restore" ELSE "done"

(* What follows when the destination is said not to exist. *)
Missing(h) == CASE mem[h].goal = "probe"    -> "restore"
                [] mem[h].goal = "setup"    -> "add"
                [] mem[h].goal = "teardown" -> TornDown(h)

Exists(h) ==
  /\ pc[h] = "exists"
  /\ Goto(h, IF OwnRoutes(h) # {} THEN "get" ELSE Missing(h))
  /\ UNCHANGED <<object, kopf, cluster, lock, mem, bounds>>

(* get_destination raises when another bridge has removed the route. *)
Get(h) ==
  /\ pc[h] \in {"get", "get again"}
  /\ IF OwnRoutes(h) # {}
     THEN /\ \E r \in OwnRoutes(h) : mem' = [mem EXCEPT ![h].port = r.port]
          /\ Goto(h, IF mem[h].goal = "setup" /\ pc[h] = "get" THEN "endpoint" ELSE "route")
     ELSE /\ Goto(h, CASE mem[h].goal = "probe"    -> "restore"
                       [] mem[h].goal = "setup"    -> "not set up"
                       [] mem[h].goal = "teardown" -> "remove")
          /\ UNCHANGED mem
  /\ UNCHANGED <<object, kopf, cluster, lock, bounds>>

Add(h) ==
  /\ pc[h] = "add"
  /\ \E p \in Ports :
        /\ Table!AddAt(ClientOf[Of(h)], Destination(h), p)
        /\ mem' = [mem EXCEPT ![h].port = p]
  /\ Goto(h, "endpoint")
  /\ UNCHANGED <<object, kopf, rules, ready, lock, bounds>>

(* add_destination raises: no port is left, or a call fails before or      *)
(* after the route is written.                                             *)
AddFails(h) ==
  /\ pc[h] = "add"
  /\ \/ /\ Ports = Table!PortsIn(table)
        /\ UNCHANGED <<table, faults>>
     \/ /\ MayFail
        /\ faults' = faults + 1
        /\ \/ UNCHANGED table
           \/ \E p \in Ports : Table!AddAt(ClientOf[Of(h)], Destination(h), p)
  /\ Goto(h, "not set up")
  /\ UNCHANGED <<object, kopf, rules, ready, lock, mem, edits, restarts, crossed, unsaved>>

(* _patch_object writes the clusterEndpoint. *)
WriteEndpoint(h) ==
  /\ pc[h] = "endpoint"
  /\ endpoint' = [endpoint EXCEPT ![Of(h)] = mem[h].port]
  /\ Goto(h, "get again")
  /\ UNCHANGED <<phase, state, wasActive, dest, kopf, cluster, lock, mem, bounds>>

(* proxy_route_exists: the bridge has a rule, and some rule of the Carrier *)
(* leads to the endpoint.                                                  *)
RouteExists(h) ==
  LET current == rules[Target(h)]
  IN  current[Of(h)] # NoPort /\ \E b \in Bridges : current[b] = mem[h].port

CheckRoute(h) ==
  /\ pc[h] = "route"
  /\ Goto(h, CASE mem[h].goal = "probe"    -> IF RouteExists(h) THEN "done" ELSE "restore"
               [] mem[h].goal = "setup"    -> IF RouteExists(h) THEN "set up" ELSE "list"
               [] mem[h].goal = "teardown" -> IF RouteExists(h) THEN "list" ELSE "remove")
  /\ UNCHANGED <<object, kopf, cluster, lock, mem, bounds>>

(* Mutants of Listed: only the bridge at hand is put into the              *)
(* configuration; the bridge that is removed stays in it.                  *)
ListedAlone(h) == {b \in {Of(h)} : mem[h].goal # "teardown"}

ListedWithRemoved(h) ==
  {b \in Bridges : /\ phase[b] \in {"present", "deleting"}
                   /\ TargetOf[b] = Target(h)
                   /\ endpoint[b] # NoPort}

(* add_bridge_rules_for_mount lists the objects of the target: the whole   *)
(* configuration is made from them, without the bridge that is removed.    *)
Listed(h) ==
  {b \in Bridges : /\ phase[b] \in {"present", "deleting"}
                   /\ TargetOf[b] = Target(h)
                   /\ endpoint[b] # NoPort
                   /\ ~(mem[h].goal = "teardown" /\ b = Of(h))}

Unready(h) == Goto(h, IF mem[h].goal = "setup" THEN "not set up" ELSE "remove")

ListBridges(h) ==
  /\ pc[h] = "list"
  /\ IF ready[Target(h)]
     THEN /\ mem' = [mem EXCEPT ![h].rules =
                        [b \in Bridges |-> IF b \in Listed(h) THEN endpoint[b] ELSE NoPort]]
          /\ Goto(h, "commit")
     ELSE /\ Unready(h)
          /\ UNCHANGED mem
  /\ UNCHANGED <<object, kopf, cluster, lock, bounds>>

(* commit replaces the configuration of the Carrier and reloads it. *)
Commit(h) ==
  /\ pc[h] = "commit"
  /\ IF ready[Target(h)]
     THEN /\ rules' = [rules EXCEPT ![Target(h)] = mem[h].rules]
          /\ Goto(h, IF mem[h].goal = "setup" THEN "set up" ELSE "remove")
     ELSE /\ Unready(h)
          /\ UNCHANGED rules
  /\ UNCHANGED <<object, kopf, table, ready, lock, mem, bounds>>

(* Mutant of Remove: the last state of the machine is persisted as well. *)
RemovePersisting(h) ==
  LET hits == {r \in table : r.dest = Destination(h)}
  IN  /\ pc[h] = "remove"
      /\ \/ \E r \in hits : table' = table \ {r}
         \/ hits = {} /\ UNCHANGED table
      /\ state' = [state EXCEPT ![Of(h)] = IF mem[h].task = "delete" THEN "TERMINATING" ELSE @]
      /\ Goto(h, TornDown(h))
      /\ UNCHANGED <<phase, wasActive, dest, endpoint, kopf, rules, ready, lock, mem, bounds>>

(* remove_destination looks for the destination only; its errors are       *)
(* logged and nothing else.                                                *)
Remove(h) ==
  LET hits == {r \in table : r.dest = Destination(h)}
  IN  /\ pc[h] = "remove"
      /\ \/ /\ \E r \in hits : table' = table \ {r}
            /\ UNCHANGED faults
         \/ /\ hits = {}
            /\ UNCHANGED <<table, faults>>
         \/ /\ MayFail
            /\ faults' = faults + 1
            /\ UNCHANGED table
      /\ Goto(h, TornDown(h))
      /\ UNCHANGED <<object, kopf, rules, ready, lock, mem, edits, restarts, crossed, unsaved>>

(* What follows an error.  on_activate catches all of them, and so do      *)
(* probe and the teardown once it knows the route; before, the error ends  *)
(* the handler, and bridge_delete is content with that.                    *)
Failed(h) == CASE mem[h].goal = "setup" -> "not set up"
               [] mem[h].goal = "probe" -> "restore"
               [] mem[h].goal = "teardown" /\ pc[h] \notin {"exists", "get"} -> "remove"
               [] OTHER -> IF mem[h].task = "delete" THEN "done" ELSE "raised"

(* One of the other calls fails; a write, before or after it has taken     *)
(* effect.  destination_exists answers "no" to an error of the API.        *)
CallFails(h) ==
  /\ pc[h] \in {"exists", "get", "get again", "endpoint", "route", "list", "commit"}
  /\ MayFail
  /\ faults' = faults + 1
  /\ \/ Goto(h, Failed(h))
     \/ pc[h] = "exists" /\ Goto(h, Missing(h))
  /\ \/ UNCHANGED <<endpoint, rules>>
     \/ /\ pc[h] = "endpoint" /\ UNCHANGED rules
        /\ endpoint' = [endpoint EXCEPT ![Of(h)] = mem[h].port]
     \/ /\ pc[h] = "commit" /\ ready[Target(h)] /\ UNCHANGED endpoint
        /\ rules' = [rules EXCEPT ![Target(h)] = mem[h].rules]
  /\ UNCHANGED <<phase, state, wasActive, dest, kopf, table, ready, lock, mem, edits,
                 restarts, crossed, unsaved>>

-----------------------------------------------------------------------------
Step(h) ==
  \/ Finish(h) \/ Raise(h) \/ Install(h) \/ Restore(h) \/ SetInstalled(h)
  \/ Activated(h) \/ Establish(h) \/ Impair(h) \/ PersistFails(h) \/ CallFails(h)
  \/ Exists(h) \/ Get(h) \/ Add(h) \/ AddFails(h) \/ WriteEndpoint(h)
  \/ CheckRoute(h) \/ ListBridges(h) \/ Commit(h) \/ Remove(h)

Dispatch(b) == StartCause(b) \/ StartUpdate(b) \/ RemoveFinalizer(b)

Users(b) == CreateObject(b) \/ EditDestination(b) \/ DeleteObject(b)

Operator ==
  \/ \E b \in Bridges : Dispatch(b) \/ StartTimer(b)
  \/ \E h \in Procs : Enter(h) \/ Step(h)
  \/ \E t \in Targets : PodGoes(t) \/ PodReturns(t)
  \/ Restart

Next == Operator \/ \E b \in Bridges : Users(b)

Spec == Init /\ [][Next]_vars

(* Awaited calls return; kopf runs what it owes, and the timer every       *)
(* minute; asyncio.Lock serves its waiters in turn; pods come back.        *)
Fairness ==
  /\ \A h \in Procs : WF_vars(Step(h)) /\ SF_vars(Enter(h))
  /\ \A b \in Bridges : WF_vars(Dispatch(b)) /\ WF_vars(StartTimer(b))
  /\ \A t \in Targets : WF_vars(PodReturns(t))

FairSpec == Spec /\ Fairness

-----------------------------------------------------------------------------
(* Properties.                                                             *)

Pcs == {"idle", "lock", "done", "raised", "install", "restore", "set_installed",
        "set up", "not set up", "establish", "impair", "exists", "get",
        "get again", "add", "endpoint", "route", "list", "commit", "remove"}
MaybePort == Ports \cup {NoPort}

TypeOK ==
  /\ phase \in [Bridges -> {"absent", "present", "deleting", "gone"}]
  /\ state \in [Bridges -> States]
  /\ wasActive \in [Bridges -> BOOLEAN]
  /\ dest \in [Bridges -> Dests \cup {NoDest}]
  /\ endpoint \in [Bridges -> MaybePort]
  /\ handled \in [Bridges -> Dests \cup {NoDest}]
  /\ todo \in [Bridges -> SUBSET {"create", "delete"}]
  /\ table \in SUBSET Table!Route
  /\ rules \in [Targets -> [Bridges -> MaybePort]]
  /\ ready \in [Targets -> BOOLEAN]
  /\ lock \in [Targets -> Procs \cup {Nobody}]
  /\ pc \in [Procs -> Pcs]
  /\ mem \in [Procs -> [task : Tasks \cup {"none"}, state : States,
                        dest : Dests \cup {NoDest}, goal : Goals,
                        port : MaybePort, rules : [Bridges -> MaybePort]]]
  /\ edits \in 0..MaxEdits /\ faults \in 0..MaxFaults /\ restarts \in 0..MaxRestarts
  /\ crossed \in BOOLEAN /\ unsaved \in SUBSET Bridges

(* No call has failed, and no edit has crossed the handling of another: a  *)
(* disturbed bridge is put right only by a later round of its timer        *)
(* (BridgeRecovers), and what a crossing leaves in Stowaway stays there.   *)
Undisturbed == faults = 0 /\ restarts = 0 /\ ~crossed

(* The Carrier of a target has a rule of a bridge that is being deleted. *)
Leftover(t) == \E b \in Bridges : phase[b] \in {"deleting", "gone"} /\ rules[t][b] # NoPort

(* A handler that has the lock takes the bridge through INSTALLING,        *)
(* INSTALLED, RESTORING and CREATING to a state another handler goes on    *)
(* from: whatever else fails, it takes a restart of the operator, or the   *)
(* failing write of the bridge's own state, to leave one of these behind.  *)
NoTransitionalState ==
  \A b \in Bridges :
     lock[TargetOf[b]] = Nobody /\ restarts = 0 /\ b \notin unsaved
       => state[b] \in {"REQUESTED", "ACTIVE", "ERROR"}

(* The object's endpoint is what its rule in the Carrier leads to, and on  *)
(* from there a route goes to the destination asked for, or to the one     *)
(* that was until an edit that is still to be handled.                     *)
Served(b) ==
  /\ rules[TargetOf[b]][b] = endpoint[b]
  /\ \E r \in table : /\ r.port = endpoint[b]
                      /\ r.peer = ClientOf[b]
                      /\ r.dest \in {dest[b], handled[b]}

(* While no handler works on its target, a bridge that says ACTIVE is      *)
(* served.  Siblings that come, go and are edited, and a timer acting on a *)
(* state of long ago, do not break it.                                     *)
ActiveIsServed ==
  \A b \in Bridges :
     /\ Undisturbed
     /\ phase[b] = "present" /\ state[b] = "ACTIVE"
     /\ lock[TargetOf[b]] = Nobody
     /\ ~Leftover(TargetOf[b])
     => Served(b)

(* When the delete handler returns, neither the Carrier nor Stowaway has   *)
(* anything of the bridge, provided its last edit had been handled.        *)
DeleteTearsDown ==
  \A b \in Bridges :
     LET h == <<b, "worker">>
     IN  /\ Undisturbed
         /\ pc[h] = "done" /\ mem[h].task = "delete" /\ handled[b] = mem[h].dest
         => rules[TargetOf[b]][b] = NoPort /\ OwnRoutes(h) = {}

(* Two bridges never keep one endpoint between them by accident: the rules *)
(* of different clients lead to different ports.                           *)
RulesApart ==
  \A t \in Targets, a, b \in Bridges :
     /\ Undisturbed
     /\ phase[a] = "present" /\ phase[b] = "present"
     /\ ClientOf[a] # ClientOf[b] /\ rules[t][a] # NoPort
     /\ ~Leftover(t)
     => rules[t][a] # rules[t][b]

(* The rule of b leads to d and nowhere else.  A second route to d, which  *)
(* handlers with different views of the bridge may add, does as well.      *)
LeadsTo(b, d) ==
  /\ phase[b] = "present" /\ state[b] = "ACTIVE" /\ dest[b] = d
  /\ [port |-> rules[TargetOf[b]][b], peer |-> ClientOf[b], dest |-> d] \in table

(* The bridge was left in a state that no handler goes on from: by a       *)
(* restart, or by the failing write of a state (NoTransitionalState).      *)
Stranded(b) == lock[TargetOf[b]] = Nobody /\ state[b] \in {"CREATING", "RESTORING"}

(* A bridge that has been ACTIVE once comes to be ACTIVE, and to lead to   *)
(* the destination it asks for, whenever its pod was replaced, a call      *)
(* failed, the operator restarted or its destination was edited; unless it *)
(* is deleted, edited again, or left in CREATING or RESTORING.             *)
BridgeRecovers ==
  \A b \in Bridges, d \in Dests :
     wasActive[b] /\ phase[b] = "present" /\ dest[b] = d
       ~> LeadsTo(b, d) \/ phase[b] # "present" \/ dest[b] # d \/ Stranded(b)

(* A deleted bridge goes: its handler gets the lock and returns, and the   *)
(* timer that kept the finalizer ends.                                     *)
DeletedGoes == \A b \in Bridges : phase[b] = "deleting" ~> phase[b] = "gone"

(* bridgestate.py:284 "if there is another bridge using this connetion     *)
(* path, we don't want to remove the route from the connection provider".  *)
SharedRouteIsKept ==
  [][\A h \in Procs : pc[h] = "remove" /\ pc'[h] # "remove" =>
        \A r \in table \ table', b \in Bridges \ {Of(h)} :
           phase[b] = "present" /\ state[b] = "ACTIVE" => endpoint[b] # r.port]_vars
=============================================================================
