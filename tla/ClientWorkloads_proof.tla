------------------------ MODULE ClientWorkloads_proof ------------------------
(***************************************************************************)
(* Proofs about ClientWorkloads, for any number of containers, shells and  *)
(* commands: what GefyraBridge promises of the operator stays true while   *)
(* the users' commands write its objects, at any moment and more often     *)
(* than the edits that GefyraBridge bounds.                                *)
(***************************************************************************)
EXTENDS ClientWorkloads, GefyraBridge_proof

(* The addresses a command holds are addresses of containers, and what it  *)
(* takes for bridges are bridges.                                          *)
Command == [name : {"none"} \cup CommandsOf, of : SUBSET (Names \cup Bridges),
            ip : SUBSET Addresses, list : SUBSET Bridges]

Places == {"idle", "deploy", "query", "patch", "inspect", "create", "clean up", "list",
           "list stale", "delete", "remove"}

LibraryTyped ==
  /\ box \in [Names -> Addresses \cup {NoDest}]
  /\ cmd \in [Shells -> Command]
  /\ at \in [Shells -> Places]

Directed ==
  \A s \in Shells : /\ at[s] = "create" => cmd[s].of \subseteq Bridges
                    /\ at[s] = "inspect" /\ cmd[s].name = "bridge" => cmd[s].of \subseteq Bridges

WorkloadsInv == BridgeInv /\ LibraryTyped /\ Directed

-----------------------------------------------------------------------------
(* What the commands write.                                                *)
LEMMA AddressesAreDests == Addresses \subseteq Dests
  BY BridgeAssumption DEF Addresses

(* A call that reads or writes none of the operator's objects, or fails. *)
LEMMA FaultKeepsInv ==
  ASSUME BridgeInv, ObjectsStay, OperatorWaits, Fault \/ Calm
  PROVE  BridgeInv'
<1> USE TypesSplit DEF BridgeInv, ObjectsStay, OperatorWaits
<1>1. BoundsTyped'
  BY FaultIsCounted DEF Fault, Calm
<1>2. ObjectTyped' /\ KopfTyped' /\ ClusterTyped' /\ LockTyped' /\ ProcsTyped'
  BY DEF cluster, ObjectTyped, KopfTyped, ClusterTyped, LockTyped, ProcsTyped
<1>3. Named'
  BY DEF Named
<1> QED
  BY <1>1, <1>2, <1>3, TypesJoin, OutsideStepKeepsInv

LEMMA UntouchedKeepsInv ==
  ASSUME BridgeInv, UNCHANGED vars
  PROVE  BridgeInv'
  BY NextKeepsInv

LEMMA PatchKeepsInv ==
  ASSUME BridgeInv, NEW b \in Objects, NEW d \in Dests, dest' = [dest EXCEPT ![b] = d],
         UNCHANGED <<phase, todo, faults>>, OperatorWaits
  PROVE  BridgeInv'
<1> USE TypesSplit DEF BridgeInv, OperatorWaits, Objects
<1>1. ObjectTyped'
  BY DEF ObjectTyped
<1>2. KopfTyped' /\ ClusterTyped' /\ LockTyped' /\ ProcsTyped' /\ BoundsTyped'
  BY DEF cluster, KopfTyped, ClusterTyped, LockTyped, ProcsTyped, BoundsTyped
<1>3. Named'
  BY DEF Named, ObjectTyped
<1> QED
  BY <1>1, <1>2, <1>3, TypesJoin, OutsideStepKeepsInv

-----------------------------------------------------------------------------
(* Every call of a command keeps the invariant.                            *)
LEMMA CallKeepsOperator ==
  ASSUME WorkloadsInv, NEW s \in Shells, Run(s)
  PROVE  BridgeInv'
<1> USE AddressesAreDests DEF WorkloadsInv
<1>1. cmd[s] \in Command
  BY DEF LibraryTyped
<1>2. CASE Deploy(s) \/ Query(s) \/ List(s)
  BY <1>2, FaultKeepsInv DEF Deploy, Query, List
<1>3. CASE Inspect(s) \/ CleanUp(s) \/ Deleted(s) \/ RemoveBoxes(s)
  BY <1>3, UntouchedKeepsInv DEF Inspect, CleanUp, Deleted, RemoveBoxes
<1>4. CASE Patch(s)
  <2>1. CASE UNCHANGED dest /\ (Calm \/ Fault)
    BY <1>4, <2>1, FaultKeepsInv DEF Patch, ObjectsStay
  <2>2. CASE ~(UNCHANGED dest /\ (Calm \/ Fault))
    <3>1. PICK b \in Objects, d \in cmd[s].ip : dest' = [dest EXCEPT ![b] = d] /\ Calm
      BY <1>4, <2>2 DEF Patch
    <3>2. d \in Dests
      BY <1>1, <3>1 DEF Command
    <3> QED
      BY <1>4, <3>1, <3>2, PatchKeepsInv DEF Patch, Calm
  <2> QED
    BY <2>1, <2>2
<1>5. CASE Create(s)
  <2>1. PICK b \in cmd[s].of, d \in cmd[s].ip :
          CreateAt(b, d) \/ ((Calm \/ Fault) /\ ObjectsStay /\ OperatorWaits)
    BY <1>5 DEF Create
  <2>2. b \in Bridges /\ d \in Dests
    BY <1>1, <1>5, <2>1 DEF Create, Directed, Command
  <2> QED
    BY <2>1, <2>2, CreateKeepsInv, FaultKeepsInv
<1>6. CASE Delete(s)
  <2>1. PICK b \in cmd[s].list :
          DeleteObject(b) \/ ((Calm \/ Fault) /\ ObjectsStay /\ OperatorWaits)
    BY <1>6 DEF Delete
  <2>2. b \in Bridges
    BY <1>1, <2>1 DEF Command
  <2> QED
    BY <2>1, <2>2, UserStep, FaultKeepsInv DEF Users
<1> QED
  BY <1>2, <1>3, <1>4, <1>5, <1>6 DEF Run

(* What a call leaves in the memory of its shell. *)
Remembers ==
  /\ cmd' \in [Shells -> Command]
  /\ \A s \in Shells : cmd'[s].of = cmd[s].of /\ cmd'[s].name = cmd[s].name

LEMMA AddressLearnt ==
  ASSUME LibraryTyped, NEW s \in Shells, NEW ip \in SUBSET Addresses,
         cmd' = [cmd EXCEPT ![s].ip = ip]
  PROVE  Remembers
  BY DEF LibraryTyped, Command, Remembers

LEMMA BridgesListed ==
  ASSUME LibraryTyped, NEW s \in Shells, NEW list \in SUBSET Bridges,
         cmd' = [cmd EXCEPT ![s].list = list]
  PROVE  Remembers
  BY DEF LibraryTyped, Command, Remembers

LEMMA NothingLearnt ==
  ASSUME LibraryTyped, UNCHANGED cmd
  PROVE  Remembers
  BY DEF LibraryTyped, Remembers

(* The containers and the place of the command, when it goes on to a call  *)
(* that expects nothing of it.                                             *)
Moves(s) ==
  /\ box' \in [Names -> Addresses \cup {NoDest}]
  /\ \/ UNCHANGED at
     \/ \E where \in Places \ {"create", "inspect"} : Go(s, where)

LEMMA MovesKeepsLibrary ==
  ASSUME WorkloadsInv, NEW s \in Shells, Remembers, Moves(s)
  PROVE  LibraryTyped' /\ Directed'
<1> USE DEF WorkloadsInv, Remembers, Moves, Go
<1>1. LibraryTyped'
  BY DEF LibraryTyped
<1>2. Directed'
  BY DEF LibraryTyped, Directed
<1> QED
  BY <1>1, <1>2

LEMMA CallKeepsLibrary ==
  ASSUME WorkloadsInv, NEW s \in Shells, Run(s)
  PROVE  LibraryTyped' /\ Directed'
<1>0. LibraryTyped
  BY DEF WorkloadsInv
<1>1. /\ cmd[s] \in Command /\ cmd[s].ip \subseteq Addresses /\ cmd[s].list \subseteq Bridges
      /\ box \in [Names -> Addresses \cup {NoDest}]
  BY <1>0 DEF LibraryTyped, Command
<1>2. Objects \subseteq Bridges /\ Running \subseteq Names
  BY DEF Objects, Running
<1>3. \A n \in Running : box[n] \in Addresses
  BY <1>1 DEF Running
<1>4. CASE Deploy(s)
  <2>1. PICK n \in cmd[s].of : \/ n \in Running /\ End(s) /\ UNCHANGED box
                               \/ \E d \in Addresses \ Range(box) :
                                     /\ box' = [box EXCEPT ![n] = d]
                                     /\ \/ cmd' = [cmd EXCEPT ![s].ip = {d}] /\ Go(s, "query")
                                        \/ End(s)
                               \/ End(s) /\ UNCHANGED box
    BY <1>4 DEF Deploy
  <2>2. Remembers
    BY <1>0, <2>1, AddressLearnt, NothingLearnt DEF End
  <2>3. Moves(s)
    BY <1>1, <2>1 DEF Moves, End, Places
  <2> QED
    BY <2>2, <2>3, MovesKeepsLibrary
<1>5. CASE Query(s)
  <2>1. Remembers
    BY <1>0, <1>2, <1>5, BridgesListed, NothingLearnt DEF Query, End
  <2>2. Moves(s)
    BY <1>1, <1>5 DEF Query, End, Moves, Places
  <2> QED
    BY <2>1, <2>2, MovesKeepsLibrary
<1>6. CASE Patch(s)
  <2>1. Remembers
    BY <1>0, <1>1, <1>6, BridgesListed, NothingLearnt DEF Patch, End
  <2>2. Moves(s)
    BY <1>1, <1>6 DEF Patch, End, Moves, Places
  <2> QED
    BY <2>1, <2>2, MovesKeepsLibrary
<1>7. CASE Inspect(s)
  <2>1. CASE ~(About(s) \subseteq Running)
    BY <1>0, <1>1, <1>7, <2>1, NothingLearnt, MovesKeepsLibrary DEF Inspect, End, Moves, Places
  <2>2. CASE About(s) \subseteq Running
    <3> DEFINE ip == {box[n] : n \in About(s)}
               of == IF cmd[s].name = "rm all" THEN Running ELSE cmd[s].of
               c  == [cmd[s] EXCEPT !.ip = ip, !.of = of]
               where == CASE cmd[s].name = "bridge"                 -> "create"
                          [] cmd[s].name = "rm all" /\ Running = {} -> "clean up"
                          [] OTHER                                  -> "list"
    <3>1. /\ cmd' = [cmd EXCEPT ![s] = c] /\ at' = [at EXCEPT ![s] = where]
          /\ UNCHANGED box /\ at[s] = "inspect"
      BY <1>0, <1>7, <2>2 DEF Inspect, Go, LibraryTyped
    <3>2. c \in Command /\ c.name = cmd[s].name
      <4>1. ip \in SUBSET Addresses
        BY <1>3, <2>2
      <4>2. of \in SUBSET (Names \cup Bridges)
        BY <1>1, <1>2 DEF Command
      <4> HIDE DEF ip, of
      <4> QED
        BY <1>1, <4>1, <4>2 DEF Command
    <3>3. where = "create" => c.of \subseteq Bridges
      BY <1>1, <3>1 DEF WorkloadsInv, Directed, Command
    <3>4. where \in Places \ {"inspect"}
      BY DEF Places
    <3> HIDE DEF c, where
    <3>5. LibraryTyped'
      BY <1>0, <3>1, <3>2, <3>4 DEF LibraryTyped
    <3>6. Directed'
      BY <1>0, <3>1, <3>2, <3>3, <3>4 DEF WorkloadsInv, Directed, LibraryTyped
    <3> QED
      BY <3>5, <3>6
  <2> QED
    BY <2>1, <2>2
<1>8. CASE Create(s) \/ Deleted(s)
  <2>1. UNCHANGED <<cmd, box>>
    BY <1>8 DEF Create, Deleted, End
  <2>2. Moves(s)
    BY <1>1, <1>8, <2>1 DEF Create, Deleted, End, Moves, Places
  <2> QED
    BY <1>0, <2>1, <2>2, NothingLearnt, MovesKeepsLibrary
<1>9. CASE RemoveBoxes(s)
  <2>1. box' \in [Names -> Addresses \cup {NoDest}]
    BY <1>1, <1>9 DEF RemoveBoxes
  <2>2. UNCHANGED cmd /\ Moves(s)
    BY <1>9, <2>1 DEF RemoveBoxes, End, Moves, Places
  <2> QED
    BY <1>0, <2>2, NothingLearnt, MovesKeepsLibrary
<1>10. CASE CleanUp(s)
  <2>1. Range(box) \ {NoDest} \subseteq Addresses
    BY <1>1 DEF Range
  <2>2. Remembers /\ Moves(s)
    BY <1>0, <1>1, <1>10, <2>1, AddressLearnt DEF CleanUp, Moves, Places
  <2> QED
    BY <2>2, MovesKeepsLibrary
<1>11. CASE List(s)
  <2>1. Chosen(s) \subseteq Bridges
    BY <1>2 DEF Chosen
  <2>2. Remembers
    BY <1>0, <1>11, <2>1, BridgesListed, NothingLearnt DEF List, End
  <2>3. Moves(s)
    BY <1>1, <1>11 DEF List, End, Moves, Places
  <2> QED
    BY <2>2, <2>3, MovesKeepsLibrary
<1>12. CASE Delete(s)
  <2>1. PICK b \in cmd[s].list : cmd' = [cmd EXCEPT ![s].list = cmd[s].list \ {b}]
    BY <1>0, <1>12 DEF Delete, LibraryTyped
  <2>3. Remembers
    BY <1>0, <1>1, <2>1, BridgesListed
  <2>2. Moves(s)
    BY <1>1, <1>12 DEF Delete, Moves
  <2> QED
    BY <2>2, <2>3, MovesKeepsLibrary
<1> QED
  BY <1>4, <1>5, <1>6, <1>7, <1>8, <1>9, <1>10, <1>11, <1>12 DEF Run

LEMMA BeginKeepsInv ==
  ASSUME WorkloadsInv, NEW s \in Shells, NEW name \in CommandsOf, Begin(s, name)
  PROVE  WorkloadsInv'
<1> USE DEF WorkloadsInv
<1>1. BridgeInv'
  BY UntouchedKeepsInv DEF Begin
<1>2. PICK of \in Arguments(name) :
        cmd' = [cmd EXCEPT ![s] = [name |-> name, of |-> of, ip |-> {},
                                   list |-> IF name = "delete" THEN of ELSE {}]]
  BY DEF Begin
<1>3. /\ of \subseteq Names \cup Bridges
      /\ name \in {"bridge", "delete"} => of \subseteq Bridges
  BY DEF Arguments
<1>4. LibraryTyped'
  BY <1>2, <1>3 DEF Begin, LibraryTyped, Go, FirstCall, Command, Places
<1>5. Directed'
  BY <1>2, <1>3 DEF Begin, Directed, LibraryTyped, Go, FirstCall
<1> QED
  BY <1>1, <1>4, <1>5

LEMMA InitIsWorkloads == InitAll => WorkloadsInv
<1> SUFFICES ASSUME InitAll PROVE WorkloadsInv
  OBVIOUS
<1>1. BridgeInv
  BY InitIsInvariant DEF InitAll
<1>2. LibraryTyped /\ Directed
  BY DEF InitAll, LibraryTyped, Directed, NoCommand, Command, Places
<1> QED
  BY <1>1, <1>2 DEF WorkloadsInv

LEMMA NextKeepsWorkloads == WorkloadsInv /\ [NextAll]_allVars => WorkloadsInv'
<1> SUFFICES ASSUME WorkloadsInv, [NextAll]_allVars PROVE WorkloadsInv'
  OBVIOUS
<1>1. CASE Operator /\ UNCHANGED libVars
  <2>1. BridgeInv'
    BY <1>1, NextKeepsInv DEF WorkloadsInv, Next
  <2> QED
    BY <1>1, <2>1 DEF WorkloadsInv, libVars, LibraryTyped, Directed
<1>2. ASSUME NEW n \in Names, BoxGoes(n) PROVE WorkloadsInv'
  <2>1. BridgeInv'
    BY <1>2, UntouchedKeepsInv DEF WorkloadsInv, BoxGoes
  <2> QED
    BY <1>2, <2>1 DEF WorkloadsInv, BoxGoes, LibraryTyped, Directed
<1>3. ASSUME NEW s \in Shells, Run(s) PROVE WorkloadsInv'
  BY <1>3, CallKeepsOperator, CallKeepsLibrary DEF WorkloadsInv
<1>4. CASE UNCHANGED allVars
  <2>1. BridgeInv'
    BY <1>4, UntouchedKeepsInv DEF WorkloadsInv, allVars
  <2> QED
    BY <1>4, <2>1 DEF WorkloadsInv, allVars, libVars, LibraryTyped, Directed
<1> QED
  BY <1>1, <1>2, <1>3, <1>4, BeginKeepsInv DEF NextAll, Library

-----------------------------------------------------------------------------
(* The invariant holds in every reachable state. *)
THEOREM WorkloadsInvariant == WorkloadsSpec => []WorkloadsInv
  BY InitIsWorkloads, NextKeepsWorkloads, PTL DEF WorkloadsSpec

(* Whatever commands the users run beside one another, and however often   *)
(* they edit a bridge while handlers work on it: without a restart and a   *)
(* failing write of its own state no bridge is left in a state that no     *)
(* handler goes on from.                                                   *)
THEOREM CommandsLeaveNothingMidway == WorkloadsSpec => []NoTransitionalState
<1>1. WorkloadsInv => NoTransitionalState
  BY SettledAtRest DEF WorkloadsInv
<1> QED
  BY <1>1, WorkloadsInvariant, PTL

(* ... and the handlers of one target still exclude one another. *)
THEOREM CommandsKeepHandlersApart == WorkloadsSpec => []OneAtATime
<1>1. WorkloadsInv => OneAtATime
  BY OneWorks DEF WorkloadsInv, BridgeInv, OneAtATime
<1> QED
  BY <1>1, WorkloadsInvariant, PTL

(* The operator's side of the system is GefyraBridge's: no command touches *)
(* Stowaway, and the handlers that see its edits still take the routes     *)
(* through the table that connection/abstract.py promises.                 *)
THEOREM CommandsKeepTheTable == WorkloadsSpec => Table!Spec
<1>1. InitAll => Table!Init
  BY DEF InitAll, Init
<1>2. WorkloadsInv /\ [NextAll]_allVars => [Table!Next]_table
  <2> SUFFICES ASSUME WorkloadsInv, [NextAll]_allVars PROVE [Table!Next]_table
    OBVIOUS
  <2>1. CASE Operator \/ UNCHANGED vars
    BY <2>1, NextEditsTable DEF WorkloadsInv, Next
  <2>2. CASE Library
    <3>1. ASSUME NEW s \in Shells, Run(s) PROVE UNCHANGED table
      BY <3>1 DEF Run, Deploy, Query, Patch, Inspect, Create, CleanUp, List, Delete, Deleted,
                  RemoveBoxes, OperatorWaits, CreateAt, DeleteObject, cluster, vars
    <3> QED
      BY <2>2, <3>1 DEF Library, BoxGoes, Begin, vars
  <2> QED
    BY <2>1, <2>2 DEF NextAll, allVars
<1> QED
  BY <1>1, <1>2, WorkloadsInvariant, PTL DEF WorkloadsSpec, Table!Spec

=============================================================================
