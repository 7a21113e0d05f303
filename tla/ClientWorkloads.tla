-------------------------- MODULE ClientWorkloads --------------------------
(***************************************************************************)
(* The containers of one client and the commands that bridge them: gefyra  *)
(* run, bridge create, bridge delete, rm and rm --all (api/run.py,         *)
(* api/bridge.py, api/rm.py, local/bridge.py), and what takes everything   *)
(* down before a disconnect (cli/connections.py), beside the operator of   *)
(* GefyraBridge, which acts on the GefyraBridge objects they write.        *)
(*                                                                         *)
(* A bridge names its container by a label and by the address that the     *)
(* container had; Docker gives a new container any free address of the     *)
(* client's network.  A step is one call to Docker or to the Kubernetes    *)
(* API.  Each shell runs one command at a time.                            *)
(*                                                                         *)
(* Abstractions: image, environment and limits of a container; a container *)
(* that has ended is gone with its name (--rm); rm --all asks once for the *)
(* bridges of all its containers; that a deletion is awaited changes       *)
(* nothing but the time at which the containers are removed.               *)
(***************************************************************************)
EXTENDS GefyraBridge, Functions

CONSTANTS
  Names,       \* of containers
  LocalOf,     \* the container a bridge names in its label
  Shells,
  CommandsOf,  \* the commands that are run in a shell
  MaxCommands  \* bound

Addresses == UNION {DestsOf[b] : b \in Bridges}

ASSUME WorkloadsAssumption == LocalOf \in [Bridges -> Names] /\ MaxCommands \in Nat
ASSUME OneClient           == \A a, b \in Bridges : ClientOf[a] = ClientOf[b]

VARIABLES
  box,       \* the address of the running container of a name, or NoDest
  cmd, at,   \* the command of a shell, and its next call
  commands

libVars == <<box, cmd, at, commands>>
allVars == <<libVars, vars>>

(* of: the names of the containers, or the bridge, that the command is     *)
(* about; ip: the addresses it has read; list: bridges it still has to see *)
(* to.                                                                     *)
NoCommand == [name |-> "none", of |-> {}, ip |-> {}, list |-> {}]

(* Containers may run already. *)
InitAll ==
  /\ Init
  /\ box \in {f \in [Names -> Addresses \cup {NoDest}] :
                \A m, n \in Names : m # n /\ f[m] = f[n] => f[m] = NoDest}
  /\ cmd = [s \in Shells |-> NoCommand] /\ at = [s \in Shells |-> "idle"]
  /\ commands = 0

Running == {n \in Names : box[n] # NoDest}
Objects == {b \in Bridges : phase[b] \in {"present", "deleting"}}

Go(s, where) == at' = [at EXCEPT ![s] = where]
End(s)       == Go(s, "idle") /\ UNCHANGED cmd
Fault        == MayFail /\ faults' = faults + 1
Calm         == UNCHANGED faults

(* The operator's variables, but for those a command writes.  Whether its  *)
(* edits cross a handler is not remembered: no property here asks for it.  *)
OperatorWaits == UNCHANGED <<state, wasActive, endpoint, handled, cluster, lock, pc, mem,
                             edits, restarts, crossed, unsaved>>
ObjectsStay   == UNCHANGED <<phase, dest, todo>>

-----------------------------------------------------------------------------
(* A container ends, or is removed behind Gefyra's back.                   *)
BoxGoes(n) ==
  /\ n \in Running
  /\ box' = [box EXCEPT ![n] = NoDest]
  /\ UNCHANGED <<cmd, at, commands, vars>>

(* What each command is about. *)
Arguments(name) ==
  CASE name \in {"run", "rm"}        -> {{n} : n \in Names}
    [] name \in {"bridge", "delete"} -> {{b} : b \in Bridges}
    [] OTHER                         -> {{}}

FirstCall(name) ==
  CASE name = "run"                   -> "deploy"
    [] name = "delete"                -> "delete"
    [] name \in {"unbridge", "leave"} -> "list"
    [] OTHER                          -> "inspect"

Begin(s, name) ==
  /\ at[s] = "idle" /\ commands < MaxCommands
  /\ \E of \in Arguments(name) :
        cmd' = [cmd EXCEPT ![s] = [name |-> name, of |-> of, ip |-> {},
                                   list |-> IF name = "delete" THEN of ELSE {}]]
  /\ Go(s, FirstCall(name))
  /\ commands' = commands + 1
  /\ UNCHANGED <<box, vars>>

-----------------------------------------------------------------------------
(* run: deploy_app_container.  A name in use ends the command, with        *)
(* success.  It also ends when the tunnel does not answer, when the        *)
(* container does not start, and when its gateway cannot be set, although  *)
(* the container runs by then.                                             *)
Deploy(s) ==
  /\ at[s] = "deploy"
  /\ \E n \in cmd[s].of :
       \/ n \in Running /\ End(s) /\ Calm /\ UNCHANGED box
       \/ /\ n \notin Running
          /\ \E d \in Addresses \ Range(box) :
               /\ box' = [box EXCEPT ![n] = d]
               /\ \/ /\ cmd' = [cmd EXCEPT ![s].ip = {d}]
                     /\ Go(s, "query")
                     /\ Calm
                  \/ Fault /\ End(s)
       \/ n \notin Running /\ Fault /\ End(s) /\ UNCHANGED box
  /\ ObjectsStay /\ OperatorWaits /\ UNCHANGED commands

(* Mutant of Query: the bridges are looked for by the new address. *)
QueryByAddress(s) ==
  /\ at[s] = "query"
  /\ \/ /\ cmd' = [cmd EXCEPT ![s].list = {b \in Objects : dest[b] \in cmd[s].ip}]
        /\ Go(s, "patch")
        /\ Calm
     \/ Fault /\ End(s)
  /\ ObjectsStay /\ OperatorWaits /\ UNCHANGED <<box, commands>>

(* _restore_bridges_for_container: the bridges with the container's label, *)
(* if they name another address.  An error is logged.                      *)
Query(s) ==
  /\ at[s] = "query"
  /\ \/ /\ cmd' = [cmd EXCEPT ![s].list =
                      {b \in Objects : LocalOf[b] \in cmd[s].of /\ dest[b] \notin cmd[s].ip}]
        /\ Go(s, "patch")
        /\ Calm
     \/ Fault /\ End(s)
  /\ ObjectsStay /\ OperatorWaits /\ UNCHANGED <<box, commands>>

(* A bridge that has gone, or an error, is logged. *)
Patch(s) ==
  /\ at[s] = "patch"
  /\ \/ \E b \in cmd[s].list :
          /\ cmd' = [cmd EXCEPT ![s].list = @ \ {b}]
          /\ \/ /\ b \in Objects
                /\ \E d \in cmd[s].ip : dest' = [dest EXCEPT ![b] = d]
                /\ Calm
             \/ b \notin Objects /\ UNCHANGED dest /\ Calm
             \/ Fault /\ UNCHANGED dest
          /\ UNCHANGED at
     \/ cmd[s].list = {} /\ End(s) /\ Calm /\ UNCHANGED dest
  /\ UNCHANGED <<phase, todo>> /\ OperatorWaits /\ UNCHANGED <<box, commands>>

-----------------------------------------------------------------------------
(* What the other commands read of Docker: bridge and rm the address of a  *)
(* container, without which they end; rm --all those of all of them, which *)
(* it removes in the end.                                                  *)
About(s) ==
  CASE cmd[s].name = "bridge" -> {LocalOf[b] : b \in cmd[s].of}
    [] cmd[s].name = "rm"     -> cmd[s].of
    [] OTHER                  -> Running

Inspect(s) ==
  /\ at[s] = "inspect"
  /\ IF About(s) \subseteq Running
       THEN /\ cmd' = [cmd EXCEPT ![s].ip = {box[n] : n \in About(s)},
                                  ![s].of = IF cmd[s].name = "rm all" THEN Running ELSE @]
            /\ Go(s, CASE cmd[s].name = "bridge"                 -> "create"
                       [] cmd[s].name = "rm all" /\ Running = {} -> "clean up"
                       [] OTHER                                  -> "list")
       ELSE End(s)
  /\ UNCHANGED <<box, commands, vars>>

(* create_bridge: 409 if there is a bridge of that name, 500 from the      *)
(* webhook if its mount is not ACTIVE.                                     *)
Create(s) ==
  /\ at[s] = "create"
  /\ \E b \in cmd[s].of, d \in cmd[s].ip :
       \/ CreateAt(b, d)
       \/ /\ \/ (phase[b] # "absent" \/ ~ready[TargetOf[b]]) /\ Calm
             \/ Fault
          /\ ObjectsStay /\ OperatorWaits
  /\ End(s)
  /\ UNCHANGED <<box, commands>>

(* cleanup_stale_bridges, when there is no container, has its own look. *)
CleanUp(s) ==
  /\ at[s] = "clean up"
  /\ cmd' = [cmd EXCEPT ![s].ip = Range(box) \ {NoDest}]
  /\ Go(s, "list stale")
  /\ UNCHANGED <<box, commands, vars>>

(* The bridges of the client that lead to the containers at hand, those    *)
(* that lead to no container, or all of them.                              *)
Chosen(s) ==
  CASE cmd[s].name \in {"unbridge", "leave"} -> Objects
    [] at[s] = "list stale"                  -> {b \in Objects : dest[b] \notin cmd[s].ip}
    [] OTHER                                 -> {b \in Objects : dest[b] \in cmd[s].ip}

List(s) ==
  /\ at[s] \in {"list", "list stale"}
  /\ \/ cmd' = [cmd EXCEPT ![s].list = Chosen(s)] /\ Go(s, "delete") /\ Calm
     \/ Fault /\ End(s)
  /\ ObjectsStay /\ OperatorWaits /\ UNCHANGED <<box, commands>>

(* handle_delete_gefyrabridge: an error counts like success. *)
Delete(s) ==
  /\ at[s] = "delete"
  /\ \E b \in cmd[s].list :
       /\ cmd' = [cmd EXCEPT ![s].list = @ \ {b}]
       /\ \/ DeleteObject(b)
          \/ /\ (phase[b] # "present" /\ Calm) \/ Fault
             /\ ObjectsStay /\ OperatorWaits
  /\ UNCHANGED <<box, at, commands>>

Deleted(s) ==
  /\ at[s] = "delete" /\ cmd[s].list = {}
  /\ IF cmd[s].name \in {"delete", "unbridge"} THEN End(s)
     ELSE Go(s, "remove") /\ UNCHANGED cmd
  /\ UNCHANGED <<box, commands, vars>>

(* rm has the container in its hands, rm --all gets it by name once more.  *)
(* Without force Docker refuses to remove a container that runs.           *)
Doomed(s) ==
  CASE cmd[s].name = "rm"     -> {n \in cmd[s].of : box[n] \in cmd[s].ip}
    [] cmd[s].name = "rm all" -> cmd[s].of
    [] OTHER                  -> Running

RemoveBoxes(s) ==
  /\ at[s] = "remove"
  /\ \E gone \in SUBSET Doomed(s) :
       /\ cmd[s].name = "leave" => gone = Doomed(s)
       /\ box' = [n \in Names |-> IF n \in gone THEN NoDest ELSE box[n]]
  /\ End(s)
  /\ UNCHANGED <<commands, vars>>

-----------------------------------------------------------------------------
Run(s) ==
  \/ Deploy(s) \/ Query(s) \/ Patch(s)
  \/ Inspect(s) \/ Create(s) \/ CleanUp(s)
  \/ List(s) \/ Delete(s) \/ Deleted(s) \/ RemoveBoxes(s)

Library ==
  \/ \E n \in Names : BoxGoes(n)
  \/ \E s \in Shells : Run(s) \/ \E name \in CommandsOf : Begin(s, name)

NextAll == Library \/ (Operator /\ UNCHANGED libVars)

WorkloadsSpec == InitAll /\ [][NextAll]_allVars

FairWorkloadsSpec == WorkloadsSpec /\ Fairness /\ \A s \in Shells : WF_allVars(Run(s))

-----------------------------------------------------------------------------
(* Properties.                                                             *)

(* A container that is run again gets the bridges that carry its name      *)
(* back, whatever address Docker gives it, and whatever the operator is at *)
(* with them; as long as no call fails and nobody deletes them.            *)
RunRestores ==
  \A s \in Shells, b \in Bridges, d \in Addresses :
     /\ at[s] = "query" /\ LocalOf[b] \in cmd[s].of /\ cmd[s].ip = {d}
     /\ phase[b] = "present" /\ wasActive[b]
     ~> LeadsTo(b, d) \/ phase[b] # "present" \/ box[LocalOf[b]] # d \/ faults > 0 \/ restarts > 0
=============================================================================
