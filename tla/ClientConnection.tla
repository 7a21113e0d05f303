-------------------------- MODULE ClientConnection --------------------------
(***************************************************************************)
(* A user's machine and the operator: the commands `connection connect`,   *)
(* `disconnect` and `remove` of the client library (api/connect.py,        *)
(* types/client.py) run against GefyraClient, which they know only by      *)
(* polling the object.  A machine keeps a Docker network, whose subnet the *)
(* client asks for, and Cargo, the container with the client's end of the  *)
(* tunnel.                                                                 *)
(*                                                                         *)
(* The user runs one command at a time.  A wait that ends by its timeout   *)
(* counts as a fault.  Keys are told apart only by whether the operator    *)
(* has removed the peer's key files since they were read.                  *)
(***************************************************************************)
EXTENDS GefyraClient

CONSTANTS
  CommandsOf,   \* bound: the commands each user runs
  MaxCommands   \* bound: how many

(* "reconnect" is connect with force: it disconnects an active client, and *)
(* goes on as connect.                                                     *)
Commands == {"connect", "reconnect", "disconnect", "remove"}

ASSUME CommandsAssumption ==
  CommandsOf \in [Clients -> SUBSET Commands] /\ MaxCommands \in [Clients -> Nat]

VARIABLES
  cmd,      \* the command that runs, or has run
  at,       \* where it is
  net,      \* the subnet of the local network, or NoSubnet
  banned,   \* rejected_subnets
  cargo,    \* none, stopped, running
  joined,   \* whether the local network is the one Cargo was attached to
  keys,     \* who holds the peer's present keys: object, conf, cargo
  commands

local   == <<net, cargo, joined>>
libVars == <<cmd, at, net, banned, cargo, joined, keys, commands>>
allVars == <<vars, libVars>>

InitLib ==
  /\ cmd = [c \in Clients |-> "none"]
  /\ at = [c \in Clients |-> "idle"]
  /\ net = [c \in Clients |-> NoSubnet]
  /\ banned = [c \in Clients |-> {}]
  /\ cargo = [c \in Clients |-> "none"]
  /\ joined = [c \in Clients |-> FALSE]
  /\ keys = [c \in Clients |-> {}]
  /\ commands = [c \in Clients |-> 0]

Go(c, next) == at' = [at EXCEPT ![c] = next]

(* An exception ends a command; remove_connection passes over it. *)
Fails(c) == Go(c, IF cmd[c] = "remove" THEN "rm cargo" ELSE "failed")

Found(c) == phase[c] \in {"present", "deleting"}

(* The state that the command waits for, and the one it asks a change in. *)
Wanted(c) == IF cmd[c] = "connect" THEN "ACTIVE" ELSE "WAITING"
Other(c)  == IF cmd[c] = "connect" THEN "WAITING" ELSE "ACTIVE"

-----------------------------------------------------------------------------
Start(c, command) ==
  /\ at[c] \in {"idle", "ok", "failed"}
  /\ commands[c] < MaxCommands[c]
  /\ commands' = [commands EXCEPT ![c] = @ + 1]
  /\ cmd' = [cmd EXCEPT ![c] = command]
  /\ banned' = [banned EXCEPT ![c] = {}]
  /\ Go(c, "client")
  /\ UNCHANGED <<local, keys, vars>>

(* A connection is known by its container; an unknown one whose client is  *)
(* ACTIVE is refused, unless connect is forced.  disconnect and remove     *)
(* take the client's name from the container, too.                         *)
GetClient(c) ==
  LET active == Found(c) /\ state[c] = "ACTIVE"
      known  == cargo[c] # "none"
  IN  /\ at[c] = "client"
      /\ CASE ~Found(c)                                     -> Fails(c)
           [] cmd[c] \in {"disconnect", "remove"} /\ ~known  -> Fails(c)
           [] cmd[c] = "connect" /\ active /\ ~known         -> Fails(c)
           [] cmd[c] = "remove" /\ Found(c) /\ known         -> Go(c, "state?")
           [] OTHER                                         -> Go(c, "network")
      /\ cmd' = [cmd EXCEPT ![c] = IF @ = "reconnect" /\ ~active THEN "connect" ELSE @]
      /\ UNCHANGED <<banned, local, keys, commands, vars>>

(* get_or_create_gefyra_network: Docker proposes subnets, and those of the *)
(* active clients and the rejected ones are passed over.                   *)
Occupied(c) == {param[d] : d \in {d \in Clients : Found(d) /\ state[d] = "ACTIVE"}} \cup banned[c]

AfterNetwork(c) == IF cmd[c] = "connect" THEN "state?" ELSE "stop cargo"

Network(c) ==
  /\ at[c] = "network"
  /\ IF net[c] # NoSubnet
     THEN UNCHANGED <<net, joined>>
     ELSE /\ \E s \in Subnets \ Occupied(c) : net' = [net EXCEPT ![c] = s]
          /\ joined' = [joined EXCEPT ![c] = FALSE]
  /\ Go(c, AfterNetwork(c))
  /\ UNCHANGED <<cmd, banned, cargo, keys, commands, vars>>

(* Mutant of NoNetwork: the command goes on without one. *)
NoNetworkGoesOn(c) ==
  /\ at[c] = "network"
  /\ net[c] = NoSubnet /\ Subnets \subseteq Occupied(c)
  /\ Go(c, AfterNetwork(c))
  /\ UNCHANGED <<cmd, banned, local, keys, commands, vars>>

NoNetwork(c) ==
  /\ at[c] = "network"
  /\ net[c] = NoSubnet /\ Subnets \subseteq Occupied(c)
  /\ Fails(c)
  /\ UNCHANGED <<cmd, banned, local, keys, commands, vars>>

StopCargo(c) ==
  /\ at[c] = "stop cargo"
  /\ cargo' = [cargo EXCEPT ![c] = IF @ = "none" THEN @ ELSE "stopped"]
  /\ Go(c, "state?")
  /\ UNCHANGED <<cmd, banned, net, joined, keys, commands, vars>>

(* activate_connection and deactivate_connection read the state, and ask   *)
(* for a change by a second call.                                          *)
AskState(c) ==
  /\ at[c] = "state?"
  /\ CASE Found(c) /\ state[c] = Wanted(c) -> Go(c, "await")
       [] Found(c) /\ state[c] = Other(c)  -> Go(c, IF cmd[c] = "connect" THEN "activate" ELSE "deactivate")
       [] OTHER                            -> Fails(c)
  /\ UNCHANGED <<cmd, banned, local, keys, commands, vars>>

Activate(c) ==
  /\ at[c] = "activate"
  /\ Found(c) /\ Admitted(c, net[c])
  /\ param' = [param EXCEPT ![c] = net[c]]
  /\ Go(c, "await")
  /\ UNCHANGED <<cmd, banned, local, keys, commands>>
  /\ UNCHANGED <<phase, state, config, kopf, account, bridged, peerMap, stowaway, lock, pc, mem, bounds>>

(* The webhook says no (500): the network goes, and the next one is to     *)
(* have another subnet.  Docker keeps a network that a container uses.     *)
Rejected(c) ==
  /\ at[c] = "activate"
  /\ Found(c) /\ ~Admitted(c, net[c])
  /\ banned' = [banned EXCEPT ![c] = @ \cup {net[c]}]
  /\ IF joined[c] /\ cargo[c] = "running"
     THEN Fails(c) /\ UNCHANGED net
     ELSE Go(c, "network") /\ net' = [net EXCEPT ![c] = NoSubnet]
  /\ UNCHANGED <<cmd, cargo, joined, keys, commands, vars>>

(* Mutant of Deactivate: the command does not wait for the operator. *)
DeactivateNoWait(c) ==
  /\ at[c] = "deactivate"
  /\ Found(c)
  /\ param' = [param EXCEPT ![c] = NoSubnet]
  /\ cmd' = [cmd EXCEPT ![c] = IF @ = "reconnect" THEN "connect" ELSE @]
  /\ Go(c, CASE cmd[c] = "reconnect"  -> "network"
             [] cmd[c] = "disconnect" -> "ok"
             [] cmd[c] = "remove"     -> "rm cargo")
  /\ UNCHANGED <<banned, local, keys, commands>>
  /\ UNCHANGED <<phase, state, config, kopf, account, bridged, peerMap, stowaway, lock, pc, mem, bounds>>

Deactivate(c) ==
  /\ at[c] = "deactivate"
  /\ Found(c)
  /\ param' = [param EXCEPT ![c] = NoSubnet]
  /\ Go(c, "await")
  /\ UNCHANGED <<cmd, banned, local, keys, commands>>
  /\ UNCHANGED <<phase, state, config, kopf, account, bridged, peerMap, stowaway, lock, pc, mem, bounds>>

Gone(c) ==
  /\ at[c] \in {"activate", "deactivate"}
  /\ ~Found(c)
  /\ Fails(c)
  /\ UNCHANGED <<cmd, banned, local, keys, commands, vars>>

Awaited(c) ==
  /\ at[c] = "await"
  /\ Found(c) /\ state[c] = Wanted(c)
  /\ cmd' = [cmd EXCEPT ![c] = IF @ = "reconnect" THEN "connect" ELSE @]
  /\ Go(c, CASE cmd[c] = "connect"    -> "save"
             [] cmd[c] = "reconnect"  -> "network"
             [] cmd[c] = "disconnect" -> "ok"
             [] cmd[c] = "remove"     -> "rm cargo")
  /\ UNCHANGED <<banned, local, keys, commands, vars>>

(* The object is gone; or the timeout has passed. *)
NotFound(c) ==
  /\ at[c] = "await"
  /\ ~Found(c)
  /\ Fails(c)
  /\ UNCHANGED <<cmd, banned, local, keys, commands, vars>>

TimesOut(c) ==
  /\ at[c] = "await"
  /\ Found(c) /\ state[c] # Wanted(c)
  /\ Fault
  /\ Fails(c)
  /\ UNCHANGED <<cmd, banned, local, keys, commands>>
  /\ UNCHANGED <<object, kopf, account, bridged, peerMap, stowaway, lock, pc, mem, failed>>

-----------------------------------------------------------------------------
(* The end of connect: the configuration of the tunnel, Cargo, a ping.     *)

SaveConfig(c) ==
  /\ at[c] = "save"
  /\ IF Found(c) /\ config[c]
     THEN /\ keys' = [keys EXCEPT ![c] = IF "object" \in @ THEN @ \cup {"conf"} ELSE @ \ {"conf"}]
          /\ Go(c, "start cargo")
     ELSE Fails(c) /\ UNCHANGED keys
  /\ UNCHANGED <<cmd, banned, local, commands, vars>>

(* Cargo reads the configuration when it starts: a container that runs     *)
(* already keeps the one it has.                                           *)
Reads(c) == keys' = [keys EXCEPT ![c] = IF "conf" \in @ THEN @ \cup {"cargo"} ELSE @ \ {"cargo"}]

StartCargo(c) ==
  /\ at[c] = "start cargo"
  /\ cargo[c] # "none" => joined[c]
  /\ cargo' = [cargo EXCEPT ![c] = "running"]
  /\ joined' = [joined EXCEPT ![c] = TRUE]
  /\ IF cargo[c] = "running" THEN UNCHANGED keys ELSE Reads(c)
  /\ Go(c, "probe")
  /\ UNCHANGED <<cmd, banned, net, commands, vars>>

(* Docker does not start a container whose network is gone: it is removed. *)
StartFails(c) ==
  /\ at[c] = "start cargo"
  /\ cargo[c] = "stopped" /\ ~joined[c]
  /\ cargo' = [cargo EXCEPT ![c] = "none"]
  /\ Fails(c)
  /\ UNCHANGED <<cmd, banned, net, joined, keys, commands, vars>>

(* probe_wireguard_connection: a ping through the tunnel. *)
Tunnel(c) == cargo[c] = "running" /\ "cargo" \in keys[c] /\ pod = "ready" /\ c \in loaded

Probe(c) ==
  /\ at[c] = "probe"
  /\ IF Tunnel(c) THEN Go(c, "ok") ELSE Fails(c)
  /\ UNCHANGED <<cmd, banned, local, keys, commands, vars>>

(* remove_connection: the container, the network and the files go whatever *)
(* has become of the client.                                               *)
RemoveLocal(c) ==
  /\ at[c] = "rm cargo"
  /\ cargo' = [cargo EXCEPT ![c] = "none"]
  /\ net' = [net EXCEPT ![c] = NoSubnet]
  /\ joined' = [joined EXCEPT ![c] = FALSE]
  /\ keys' = [keys EXCEPT ![c] = @ \ {"conf", "cargo"}]
  /\ Go(c, "ok")
  /\ UNCHANGED <<cmd, banned, commands, vars>>

-----------------------------------------------------------------------------
(* The operator's steps, with what they do to the keys: a configuration is *)
(* written to the object, or the key files of the peer are removed.        *)
KeysAfter(c) ==
  IF \E h \in Procs : Of(h) = c /\ pc[h] = "rm" /\ pc'[h] = "restart" THEN {}
  ELSE IF \E h \in Procs : Of(h) = c /\ WriteConfig(h)
  THEN IF config'[c] THEN keys[c] \cup {"object"} ELSE keys[c] \ {"object"}
  ELSE keys[c]

Followed ==
  /\ keys' = [c \in Clients |-> KeysAfter(c)]
  /\ UNCHANGED <<cmd, at, local, banned, commands>>

Operates == (Operator \/ Cluster) /\ Followed

Others == \E c \in Clients : (CreateObject(c) \/ DeleteObject(c) \/ AddBridge(c)) /\ UNCHANGED libVars

Run(c) ==
  \/ GetClient(c) \/ Network(c) \/ NoNetwork(c) \/ StopCargo(c) \/ AskState(c)
  \/ Activate(c) \/ Rejected(c) \/ Deactivate(c) \/ Gone(c) \/ Awaited(c) \/ NotFound(c)
  \/ SaveConfig(c) \/ StartCargo(c) \/ StartFails(c) \/ Probe(c) \/ RemoveLocal(c)

Library == \E c \in Clients : Run(c) \/ TimesOut(c) \/ \E command \in CommandsOf[c] : Start(c, command)

NextAll == Operates \/ Others \/ Library

InitAll == Init /\ InitLib

ConnectionSpec == InitAll /\ [][NextAll]_allVars

(* The commands' own calls return. *)
FairConnectionSpec ==
  /\ ConnectionSpec
  /\ \A h \in Procs : WF_allVars(Step(h) /\ Followed) /\ SF_allVars(Enter(h) /\ Followed)
  /\ \A c \in Clients : WF_allVars(Dispatch(c) /\ Followed) /\ WF_allVars(Run(c))
  /\ WF_allVars(PodStarts /\ Followed) /\ WF_allVars(PodReady /\ Followed)

-----------------------------------------------------------------------------
(* Properties.                                                             *)

(* Types, and that connect asks for, awaits and sets up a connection only  *)
(* with the subnet of a network it has got.                                *)
ConnectionTypeOK ==
  /\ TypeOK
  /\ cmd \in [Clients -> Commands \cup {"none"}]
  /\ at \in [Clients -> {"idle", "client", "network", "stop cargo", "state?", "activate",
                         "deactivate", "await", "save", "start cargo", "probe", "rm cargo",
                         "ok", "failed"}]
  /\ net \in [Clients -> Subnets \cup {NoSubnet}]
  /\ banned \in [Clients -> SUBSET Subnets]
  /\ cargo \in [Clients -> {"none", "stopped", "running"}]
  /\ joined \in [Clients -> BOOLEAN]
  /\ keys \in [Clients -> SUBSET {"object", "conf", "cargo"}]
  /\ \A c \in Clients :
        /\ commands[c] \in 0..MaxCommands[c]
        /\ cmd[c] = "connect" /\ at[c] \in {"state?", "activate", "await", "save"} => net[c] \in Subnets

(* A connection without an age at which the operator takes it down. *)
Connected(c) ==
  cmd[c] = "connect" /\ at[c] = "ok" /\ phase[c] = "present" /\ c \notin Aging \cup Ending

Disconnected(c) == cmd[c] = "disconnect" /\ at[c] = "ok"

(* When connect has returned, and while no handler is at work on the       *)
(* client, Stowaway routes the very subnet of the machine's network to it. *)
(* A timer's edit beside a removal would leave the peer with its old one.  *)
ConnectedSubnet ==
  \A c \in Clients :
     NoTimers /\ Connected(c) /\ Undisturbed /\ AtRest(c) => allowed[c] = net[c]

(* ... and the tunnel works: Cargo has the peer's present keys, and        *)
(* Stowaway, when it runs, has loaded the peer.                            *)
ConnectedTunnel ==
  \A c \in Clients :
     Connected(c) /\ Undisturbed /\ AtRest(c) /\ pod = "ready" => Tunnel(c)

(* When disconnect has returned the client is no peer any more: the        *)
(* command has waited for the operator, whose removal meets no conflict.   *)
DisconnectedHasNoPeer ==
  \A c \in Clients : NoTimers /\ Disconnected(c) /\ Undisturbed => c \notin peers

(* No command needs its timeout when no call fails: what it waits for, the *)
(* operator brings about.  A timer that disables the client in between     *)
(* leaves the command waiting.                                             *)
CommandsEnd ==
  \A c \in Clients : NoTimers /\ at[c] = "await" ~> at[c] # "await" \/ ~Undisturbed
=============================================================================
