------------------------ MODULE GefyraInstall_proof ------------------------
(***************************************************************************)
(* Proofs about GefyraInstall, for any number of operators, versions,      *)
(* commands and faults: its types, that the entries of Stowaway's config   *)
(* maps survive updates and deaths of the operator (InstallInv), and that  *)
(* a first installation that reports success works (FirstInv).             *)
(***************************************************************************)
EXTENDS GefyraInstall, TLAPS

(* A template; what each startup handler remembers; a command. *)
Template == [1..3 -> Versions]

PodPcs == {"none", "round", "crds", "check", "delete", "recreate", "install", "ready", "event",
           "serving"}
Pod == [pc : PodPcs, conf : Template \cup {<<>>}, owe : SUBSET {"crds", "providers"},
        retry : 0..StartupTimeout + 1, n : 1..5, again : BOOLEAN, missing : BOOLEAN]

Names   == {"none", "install", "update", "uninstall"}
Places  == {"idle", "create", "events", "webhook", "patch", "delete", "wait", "namespace", "crds",
            "rbac"}
Reports == {"none", "ok", "failed"}
Cmd == [name : Names, at : Places, n : 1..6, wait : BOOLEAN, fresh : BOOLEAN, version : Versions,
        report : Reports]

(* The calls of check_connection_providers. *)
Providing == {"check", "delete", "recreate", "install", "ready", "event"}

(* An operator has the template it was made from, and a handler is at its  *)
(* calls while it has not succeeded.                                       *)
OnCourse(o) ==
  /\ Live(o) => op[o].conf \in Template
  /\ op[o].pc = "serving" => op[o].owe = {}
  /\ op[o].pc \in Providing => "providers" \in op[o].owe
  /\ op[o].pc \in {"ready", "event"} => op[o].again
  /\ op[o].again => op[o].pc \in Providing

Objects == [Crds -> {"none", "held", "bare", "going"}]

Clustered ==
  /\ ns \in {"absent", "active", "terminating"}
  /\ have \subseteq Range(Manifests)
  /\ deployed \in Template \/ deployed = <<>>
  /\ doomed \subseteq crds /\ crds \subseteq Crds
  /\ objects \in Objects
  /\ parts \subseteq Parts /\ entries \subseteq parts \cap {"proxyroutes", "config"}
  /\ image \in Versions /\ running \in Versions
  /\ stowaway \in {"none", "starting", "ready"}
  /\ webhook \in BOOLEAN /\ events \subseteq {"Gefyra-Ready", "Gefyra-Webhook-Ready"}
  /\ commands \in 0..MaxCommands /\ faults \in 0..MaxFaults
  /\ lost \in BOOLEAN /\ broken \in BOOLEAN /\ overlapped \in BOOLEAN

Typed ==
  /\ Clustered
  /\ op \in [Operators -> Pod] /\ cmd \in Cmd
  /\ \A o \in Operators : OnCourse(o)

(* A namespace begins empty, and its operators do not outlive their        *)
(* deployment in it.                                                       *)
Namespaced ==
  /\ "operator" \in have => deployed \in Template
  /\ ns = "absent" => parts = {} /\ "operator" \notin have
  /\ ns # "terminating" /\ "operator" \notin have => \A o \in Operators : ~Live(o)

(* Nothing is gone from under the operators, and one starts at a time. *)
Orderly == ~lost /\ ~broken /\ ~overlapped /\ ns = "active"

(* All of Stowaway is there, but for a statefulset that is being made anew. *)
Whole ==
  /\ Parts \ {"statefulset"} \subseteq parts
  /\ "statefulset" \in parts \/ \E o \in Operators : op[o].pc = "recreate" /\ ~op[o].missing

(* The operator has found or made all of it; it has found something to be  *)
(* missing, and will replace the config maps.                              *)
Past(o)    == Live(o) /\ ("providers" \notin op[o].owe \/ op[o].again)
Lacking(o) == op[o].pc = "install" \/ (op[o].pc \in {"delete", "recreate"} /\ op[o].missing)

InOrder ==
  /\ \A o, p \in Operators : Starting(o) /\ Starting(p) => o = p
  /\ entries # {} => Whole
  /\ \A o \in Operators :
       /\ Past(o) => Whole
       /\ op[o].pc \in {"delete", "recreate"} /\ ~op[o].missing => Whole
       /\ Lacking(o) => entries = {} /\ \A p \in Operators : ~Past(p)
       /\ op[o].pc = "install" => \A i \in 1..(op[o].n - 1) : PartList[i] \in parts

Kept == Orderly => InOrder

(* An operator has its role while it may meet an active namespace. *)
Granted ==
  faults = 0 =>
    /\ "operator" \in have /\ ns = "active" => "rbac" \in have
    /\ At("install", "create") /\ cmd.n > 2 => "rbac" \in have
    /\ At("uninstall", "crds") \/ At("uninstall", "rbac") => ns # "active"

InstallInv == Typed /\ Namespaced /\ Granted /\ Kept

-----------------------------------------------------------------------------
(* Types.                                                                  *)

LEMMA Constants ==
  /\ Crds = {"mount", "bridge", "client"}
  /\ Parts = {"serviceaccount", "proxyroutes", "config", "statefulset", "service"}
  /\ Range(Manifests) = {"namespace", "rbac", "admission", "operator", "webhook", "service"}
  /\ Len(PartList) = 5 /\ Len(Manifests) = 6 /\ Len(Kinds) = 3
  /\ \A i \in 1..5 : PartList[i] \in Parts
  /\ \A i \in 1..6 : Manifests[i] \in Range(Manifests)
  /\ \A i \in 1..3 : Kinds[i] \in Crds
<1>1. DOMAIN PartList = 1..5 /\ DOMAIN Manifests = 1..6 /\ DOMAIN Kinds = 1..3
  BY DEF PartList, Manifests, Kinds
<1>2. \A i \in 1..5 : i \in {1, 2, 3, 4, 5}
  OBVIOUS
<1>3. \A i \in 1..6 : i \in {1, 2, 3, 4, 5, 6}
  OBVIOUS
<1>4. \A i \in 1..3 : i \in {1, 2, 3}
  OBVIOUS
<1>5. Crds = {"mount", "bridge", "client"}
  BY <1>1, <1>4 DEF Kinds, Crds, Range
<1>6. Parts = {"serviceaccount", "proxyroutes", "config", "statefulset", "service"}
  BY <1>1, <1>2 DEF PartList, Parts, Range
<1>7. Range(Manifests) = {"namespace", "rbac", "admission", "operator", "webhook", "service"}
  BY <1>1, <1>3 DEF Manifests, Range
<1>8. Len(PartList) = 5 /\ Len(Manifests) = 6 /\ Len(Kinds) = 3
  BY DEF PartList, Manifests, Kinds
<1> QED
  BY <1>1, <1>5, <1>6, <1>7, <1>8 DEF Range, Crds, Parts

LEMMA Limits == StartupTimeout \in Nat /\ MaxCommands \in Nat /\ MaxFaults \in Nat
BY LimitsAssumption

LEMMA TypedIsTyped == Typed => InstallTypeOK
<1> SUFFICES ASSUME Typed PROVE InstallTypeOK
  OBVIOUS
<1>1. \A o \in Operators :
        /\ op[o].pc \in {"none", "round", "crds", "check", "delete", "recreate", "install",
                        "ready", "event", "serving"}
        /\ op[o].owe \subseteq {"crds", "providers"} /\ op[o].retry \in 0..StartupTimeout + 1
        /\ op[o].pc = "serving" => op[o].owe = {}
  BY DEF Typed, OnCourse, Pod, PodPcs
<1>2. cmd.n \in 1..Len(Manifests) /\ cmd.report \in {"none", "ok", "failed"}
  BY Constants DEF Typed, Cmd, Reports
<1> QED
  BY <1>1, <1>2 DEF Typed, Clustered, Objects, Template, InstallTypeOK

LEMMA InitTyped == Init => Typed /\ Namespaced
<1> SUFFICES ASSUME Init PROVE Typed /\ Namespaced
  OBVIOUS
<1> USE Constants, Limits DEF Init
<1>1. NoPod \in Pod
  BY DEF NoPod, Pod, PodPcs, Versions
<1>2. NoCommand \in Cmd
  BY DEF NoCommand, Cmd, Names, Places, Reports, Versions
<1>3. Clustered
  <2>1. objects \in Objects
    BY DEF Objects
  <2>2. Version \in Versions
    BY DEF Versions
  <2>3. /\ entries \subseteq parts \cap {"proxyroutes", "config"} /\ parts \subseteq Parts
        /\ doomed \subseteq crds /\ crds \subseteq Crds
    OBVIOUS
  <2>4. commands \in 0..MaxCommands /\ faults \in 0..MaxFaults
    OBVIOUS
  <2>5. /\ ns \in {"absent", "active", "terminating"} /\ have \subseteq Range(Manifests)
        /\ stowaway \in {"none", "starting", "ready"}
        /\ events \subseteq {"Gefyra-Ready", "Gefyra-Webhook-Ready"}
        /\ webhook \in BOOLEAN /\ lost \in BOOLEAN /\ broken \in BOOLEAN /\ overlapped \in BOOLEAN
    OBVIOUS
  <2>6. deployed = <<>> /\ image \in Versions /\ running \in Versions
    BY <2>2
  <2> QED
    BY ONLY <2>1, <2>3, <2>4, <2>5, <2>6 DEF Clustered
<1> QED
  BY <1>1, <1>2, <1>3 DEF Typed, OnCourse, Namespaced, Live, Providing, NoPod

(* A handler's record may be replaced by any that is on its course. *)
LEMMA Replaced ==
  ASSUME op \in [Operators -> Pod], NEW o \in Operators, NEW r \in Pod, op' = [op EXCEPT ![o] = r]
  PROVE  /\ op' \in [Operators -> Pod] /\ op'[o] = r
         /\ \A p \in Operators \ {o} : op'[p] = op[p]
OBVIOUS

LEMMA FreshPod ==
  ASSUME NEW conf \in Template
  PROVE  /\ Fresh(conf) \in Pod /\ NoPod \in Pod
         /\ \A owe \in SUBSET {"crds", "providers"}, retry \in 0..StartupTimeout + 1 :
              [Fresh(conf) EXCEPT !.pc = "round", !.owe = owe, !.retry = retry] \in Pod
<1>1. NoPod \in Pod
  BY Limits DEF NoPod, Pod, PodPcs
<1>2. Fresh(conf) \in Pod
  BY <1>1 DEF Fresh, Pod, PodPcs
<1> QED
  BY <1>1, <1>2 DEF Pod, PodPcs

LEMMA CheckedPod ==
  ASSUME op \in [Operators -> Pod], NEW o \in Operators, NEW a \in PodPcs, NEW b \in BOOLEAN,
         NEW c \in BOOLEAN, NEW n \in 1..5
  PROVE  [op EXCEPT ![o].pc = a, ![o].again = b, ![o].n = n, ![o].missing = c] \in [Operators -> Pod]
<1>1. [op[o] EXCEPT !.pc = a, !.again = b, !.n = n, !.missing = c] \in Pod
  BY DEF Pod
<1>2. [op EXCEPT ![o].pc = a, ![o].again = b, ![o].n = n, ![o].missing = c]
        = [op EXCEPT ![o] = [op[o] EXCEPT !.pc = a, !.again = b, !.n = n, !.missing = c]]
  OBVIOUS
<1> QED
  BY <1>1, <1>2

LEMMA UsersKeepTyped ==
  ASSUME Typed, Namespaced, Users PROVE Typed' /\ Namespaced'
<1> USE Constants, Limits DEF history, Typed, Clustered, Objects, Namespaced, OnCourse, Live, cluster, provider
<1>1. ASSUME NEW k \in Crds, Use(k) PROVE Typed' /\ Namespaced'
  BY <1>1 DEF Use, EntryOf
<1>2. ASSUME NEW p \in Deletable, LosePart(p) PROVE Typed' /\ Namespaced'
  BY <1>2 DEF LosePart, Fault
<1>3. ASSUME NEW name \in Names, NEW at \in Places, NEW wait \in BOOLEAN, NEW v \in Versions,
             Begin(name, at, wait, v)
      PROVE  Typed' /\ Namespaced'
  <2>1. cmd' \in Cmd
    BY <1>3 DEF Begin, Cmd, Names, Places, Reports
  <2>2. commands' \in 0..MaxCommands
    BY <1>3 DEF Begin
  <2>3. UNCHANGED <<ns, have, deployed, crds, doomed, objects, parts, image, stowaway, running,
                    entries, op, webhook, events, faults, lost, broken, overlapped>>
    BY <1>3 DEF Begin
  <2> HIDE DEF Objects
  <2> QED
    BY <2>1, <2>2, <2>3
<1> HIDE DEF Typed, Namespaced
<1>4. Up => \E wait \in BOOLEAN : Install(wait)
  BY DEF Up
<1>5. /\ {"install", "update", "uninstall"} \subseteq Names /\ {"create", "patch"} \subseteq Places
      /\ Version \in Versions /\ Updates \subseteq Versions
  BY DEF Names, Places, Versions
<1>6. ASSUME NEW wait \in BOOLEAN, Install(wait) PROVE Typed' /\ Namespaced'
  BY ONLY <1>3, <1>5, <1>6 DEF Install
<1>7. ASSUME NEW v \in Updates, Begin("update", "patch", FALSE, v) PROVE Typed' /\ Namespaced'
  BY ONLY <1>3, <1>5, <1>7
<1>8. ASSUME Begin("uninstall", "patch", FALSE, Version) PROVE Typed' /\ Namespaced'
  BY ONLY <1>3, <1>5, <1>8
<1> QED
  BY ONLY Users, <1>1, <1>2, <1>4, <1>6, <1>7, <1>8, Zenon DEF Users

LEMMA CommandUpdated ==
  ASSUME cmd \in Cmd
  PROVE  /\ \A a \in Places, r \in Reports, n \in 1..6, v \in Versions :
              [cmd EXCEPT !.at = a, !.report = r, !.n = n, !.version = v] \in Cmd
         /\ \A a \in Places, n \in 1..6, r \in Reports :
              [cmd EXCEPT !.at = a, !.n = n, !.report = r] \in Cmd
         /\ \A n \in 1..6, w \in BOOLEAN : [cmd EXCEPT !.n = n, !.wait = w] \in Cmd
         /\ \A a \in Places, n \in 1..6 : [cmd EXCEPT !.at = a, !.n = n] \in Cmd
         /\ \A a \in Places, n \in 1..6 : [cmd EXCEPT !.n = n, !.at = a] \in Cmd
         /\ \A a \in Places : [cmd EXCEPT !.at = a] \in Cmd
         /\ \A n \in 1..6 : [cmd EXCEPT !.n = n] \in Cmd
BY DEF Cmd

LEMMA CommandTyped == ASSUME Typed, Command PROVE cmd' \in Cmd
<1>0. cmd \in Cmd /\ cmd.n \in 1..6 /\ cmd.wait \in BOOLEAN /\ Version \in Versions
  BY DEF Typed, Cmd, Versions
<1>n. 1 \in 1..6 /\ (cmd.n < 6 => cmd.n + 1 \in 1..6)
  BY <1>0
<1>p. {"idle", "events", "webhook", "patch", "delete", "wait", "namespace", "crds", "rbac"}
        \subseteq Places
  BY DEF Places
<1>q. "idle" \in Places /\ "webhook" \in Places /\ "patch" \in Places
      /\ "events" \in Places /\ "namespace" \in Places /\ "ok" \in Reports /\ "failed" \in Reports
  BY DEF Places, Reports
<1>a. \A r \in {"ok", "failed"} : Report(r) => cmd' \in Cmd
  <2>1. \A r \in Reports :
          [cmd EXCEPT !.at = "idle", !.report = r, !.n = 1, !.version = Version] \in Cmd
    BY <1>0, <1>n, <1>q, CommandUpdated, Zenon
  <2> QED
    BY <1>q, <2>1, Zenon DEF Report
<1>b. NextKind => cmd' \in Cmd
  <2>1. cmd.n < Len(Kinds) => [cmd EXCEPT !.n = cmd.n + 1, !.at = "patch"] \in Cmd
    <3>1. cmd.n < Len(Kinds) => cmd.n + 1 \in 1..6
      BY <1>0, Constants
    <3> QED
      BY <1>0, <3>1, <1>q, CommandUpdated, Zenon
  <2>2. [cmd EXCEPT !.at = "namespace"] \in Cmd
    BY <1>0, <1>q, CommandUpdated, Zenon
  <2> QED
    BY <2>1, <2>2, Zenon DEF NextKind
<1>c. \A m : Proceed(m) => cmd' \in Cmd
  <2>1. [cmd EXCEPT !.at = "idle", !.n = 1, !.report = "ok"] \in Cmd
    BY <1>0, <1>n, <1>q, CommandUpdated, Zenon
  <2>2. \A m : Waits(m) \in BOOLEAN
    BY <1>0 DEF Waits, OperatorRunning
  <2>3. \A m : cmd.n < Len(Manifests) => [cmd EXCEPT !.n = cmd.n + 1, !.wait = Waits(m)] \in Cmd
    <3>1. cmd.n < Len(Manifests) => cmd.n + 1 \in 1..6
      BY <1>0, Constants
    <3> QED
      BY <1>0, <3>1, <2>2, CommandUpdated, Zenon
  <2>4. [cmd EXCEPT !.at = "events"] \in Cmd
    BY <1>0, <1>q, CommandUpdated, Zenon
  <2> QED
    BY <2>1, <2>3, <2>4, Zenon DEF Proceed
<1>1. CreateManifest => cmd' \in Cmd
  BY <1>a, <1>c DEF CreateManifest
<1>2. SeeEvents \/ SeeWebhook => cmd' \in Cmd
  <2>1. [cmd EXCEPT !.at = "webhook", !.n = 1] \in Cmd
    BY <1>0, <1>n, <1>q, CommandUpdated, Zenon
  <2> QED
    BY <2>1, <1>a DEF SeeEvents, SeeWebhook
<1>3. PatchDeployment => cmd' \in Cmd
  <2>1. cmd.n < 6 => [cmd EXCEPT !.n = cmd.n + 1] \in Cmd
    BY <1>0, <1>n, CommandUpdated, Zenon
  <2> QED
    BY <1>0, <2>1, <1>a DEF PatchDeployment
<1>4. TakeFinalizers \/ DeleteObject \/ AwaitClient => cmd' \in Cmd
  BY <1>0, <1>b, <1>p, CommandUpdated, ZenonT(40) DEF TakeFinalizers, DeleteObject, AwaitClient
<1>5. DeleteNamespace \/ DeleteCrds \/ DeleteRbac => cmd' \in Cmd
  BY <1>0, <1>a, <1>p, CommandUpdated DEF DeleteNamespace, DeleteCrds, DeleteRbac
<1> QED
  BY <1>1, <1>2, <1>3, <1>4, <1>5 DEF Command

LEMMA CommandClustered == ASSUME Typed, Namespaced, Command PROVE Clustered' /\ UNCHANGED op
<1>0. Clustered /\ cmd.n \in 1..6 /\ cmd.version \in Versions
      /\ ("operator" \in have => deployed \in Template)
  BY DEF Typed, Cmd, Namespaced
<1>1. ASSUME CreateManifest PROVE Clustered' /\ UNCHANGED op
  <2>1. Manifests[cmd.n] \in Range(Manifests)
    BY <1>0, Constants
  <2>2. [field \in 1..3 |-> cmd.version] \in Template
    BY <1>0 DEF Template
  <2> DEFINE m == Manifests[cmd.n]
  <2>3. /\ ns' \in {ns, "active"} /\ have' \in {have, have \cup ({m} \ {"namespace", "service"})}
        /\ parts' \in {parts, parts \cup ({m} \cap Parts)}
        /\ deployed' \in {deployed, [field \in 1..3 |-> cmd.version]}
        /\ \/ faults' = faults
           \/ faults < MaxFaults /\ faults' = faults + 1
        /\ UNCHANGED StepsOfInstall
    BY <1>1 DEF CreateManifest, Fails, Fault, Calm
  <2> HIDE DEF m
  <2>4. m \in Range(Manifests)
    BY <2>1 DEF m
  <2> QED
    BY <1>0, <2>2, <2>3, <2>4, Limits DEF StepsOfInstall, Clustered
<1>2. ASSUME SeeEvents \/ SeeWebhook PROVE Clustered' /\ UNCHANGED op
  BY <1>0, <1>2, Limits DEF SeeEvents, SeeWebhook, StepsOfInstall, Fails, Fault, Calm, Clustered
<1>3. ASSUME PatchDeployment PROVE Clustered' /\ UNCHANGED op
  BY <1>0, <1>3, Limits DEF PatchDeployment, StepsOfInstall, Fails, Fault, Calm, Clustered, Template
<1>4. ASSUME TakeFinalizers \/ DeleteObject \/ AwaitClient PROVE Clustered' /\ UNCHANGED op
  BY <1>0, <1>4, Constants, Limits
     DEF TakeFinalizers, DeleteObject, AwaitClient, StepsOfUninstall, Fails, Fault, Calm, Clustered,
         Objects, Deleted, provider
<1>5. ASSUME DeleteNamespace \/ DeleteCrds \/ DeleteRbac PROVE Clustered' /\ UNCHANGED op
  BY <1>0, <1>5, Constants, Limits
     DEF DeleteNamespace, DeleteCrds, DeleteRbac, StepsOfUninstall, Fault, Calm, Clustered, provider
<1> QED
  BY <1>1, <1>2, <1>3, <1>4, <1>5 DEF Command

LEMMA CommandKeepsTyped == ASSUME Typed, Namespaced, Command PROVE Typed' /\ Namespaced'
<1>1. Clustered' /\ UNCHANGED op /\ cmd' \in Cmd
  BY CommandClustered, CommandTyped
<1>2. Namespaced'
  <2> USE Constants DEF Namespaced, Live
  <2>1. CASE CreateManifest
    <3>1. \/ /\ ns = "active" \/ (Manifests[cmd.n] = "namespace" /\ ns' # "absent")
             /\ have' = have \cup ({Manifests[cmd.n]} \ {"namespace", "service"})
             /\ parts' = parts \cup ({Manifests[cmd.n]} \cap Parts)
             /\ deployed' = IF Manifests[cmd.n] = "operator" /\ Manifests[cmd.n] \notin have
                            THEN [field \in 1..3 |-> cmd.version] ELSE deployed
             /\ ns' = IF ns = "absent" THEN "active" ELSE ns
          \/ UNCHANGED <<ns, have, parts, deployed>>
      BY <2>1 DEF CreateManifest
    <3>2. [field \in 1..3 |-> cmd.version] \in Template
      BY DEF Typed, Cmd, Template
    <3> QED
      BY <1>1, <3>1, <3>2
  <2>2. CASE SeeEvents \/ SeeWebhook
    BY <1>1, <2>2 DEF SeeEvents, SeeWebhook, StepsOfInstall
  <2>3. CASE PatchDeployment
    BY <1>1, <2>3 DEF PatchDeployment, StepsOfInstall, Clustered, Typed, Template
  <2>4. CASE TakeFinalizers \/ DeleteObject \/ AwaitClient
    BY <1>1, <2>4 DEF TakeFinalizers, DeleteObject, AwaitClient, StepsOfUninstall, provider
  <2>5. CASE DeleteNamespace \/ DeleteCrds \/ DeleteRbac
    BY <1>1, <2>5 DEF DeleteNamespace, DeleteCrds, DeleteRbac, StepsOfUninstall, provider
  <2> QED
    BY <2>1, <2>2, <2>3, <2>4, <2>5 DEF Command
<1> QED
  BY <1>1, <1>2 DEF Typed, OnCourse, Live

LEMMA StartTyped ==
  ASSUME Typed, Namespaced, NEW o \in Operators, Start(o)
  PROVE  /\ op' \in [Operators -> Pod] /\ OnCourse(o)' /\ Live(o) /\ Live(o)'
         /\ \A p \in Operators \ {o} : op'[p] = op[p]
<1> DEFINE Moved == /\ op' \in [Operators -> Pod] /\ OnCourse(o)' /\ Live(o) /\ Live(o)'
                    /\ \A p \in Operators \ {o} : op'[p] = op[p]
<1> USE Limits
<1>0. op \in [Operators -> Pod] /\ op[o] \in Pod /\ OnCourse(o)
  BY DEF Typed
<1>1. ASSUME Live(o), NEW owe \in SUBSET {"crds", "providers"}, NEW retry \in 0..StartupTimeout + 1,
             Back(o, owe, retry)
      PROVE  Moved
  <2>1. op[o].conf \in Template
    BY <1>0, <1>1 DEF OnCourse
  <2>2. [Fresh(op[o].conf) EXCEPT !.pc = "round", !.owe = owe, !.retry = retry] \in Pod
    BY <2>1, FreshPod
  <2> QED
    BY <1>0, <1>1, <2>1, <2>2 DEF Back, OnCourse, Live, Fresh, Pod, NoPod, Providing
<1>2. ASSUME Live(o), TryAgain(o) PROVE Moved
  <2>1. op[o].owe \in SUBSET {"crds", "providers"} /\ Later(op[o].retry) \in 0..StartupTimeout + 1
    BY <1>0 DEF Later, Pod
  <2> QED
    BY <1>1, <1>2, <2>1 DEF TryAgain
<1>3. ASSUME Live(o), NEW missing \in BOOLEAN, Checked(o, missing), "providers" \in op[o].owe PROVE Moved
  <2> DEFINE next  == AfterCheck(op[o].again, missing)
             again == op[o].again \/ ~missing
  <2>1. /\ next \in PodPcs /\ again \in BOOLEAN /\ next \in Providing
        /\ next \in {"ready", "event"} => again
    BY <1>0 DEF AfterCheck, Providing, Pod, PodPcs
  <2>2. op' = [op EXCEPT ![o].pc = next, ![o].again = again, ![o].n = 1, ![o].missing = FALSE]
    BY <1>3 DEF Checked
  <2> HIDE DEF next, again
  <2>3. op' \in [Operators -> Pod]
    <3>1. 1 \in 1..5 /\ FALSE \in BOOLEAN
      OBVIOUS
    <3> QED
      BY <1>0, <2>1, <2>2, <3>1, CheckedPod, Zenon
  <2>4. op'[o].pc = next /\ op'[o].again = again /\ op'[o].owe = op[o].owe /\ op'[o].conf = op[o].conf
    BY <1>0, <2>2 DEF Pod
  <2>5. \A p \in Operators \ {o} : op'[p] = op[p]
    BY <1>0, <2>2
  <2> QED
    BY <1>0, <1>3, <2>1, <2>3, <2>4, <2>5 DEF OnCourse, Live, Providing
<1>4. Round(o) => Moved
  <2>1. ASSUME op[o].pc = "round", "providers" \in op[o].owe,
               op' = [op EXCEPT ![o].pc = "check", ![o].again = FALSE]
        PROVE  Moved
    <3>1. op' \in [Operators -> Pod]
      BY <1>0, <2>1 DEF Pod, PodPcs
    <3> QED
      BY <1>0, <2>1, <3>1 DEF OnCourse, Live, Providing, Pod
  <2>2. ASSUME op[o].pc = "round", NEW next \in {"crds", "serving"}, Goto(o, next),
               next = "serving" => op[o].owe = {}
        PROVE  Moved
    BY <1>0, <2>2 DEF Goto, OnCourse, Live, Providing, Pod, PodPcs
  <2> QED
    BY <2>1, <2>2 DEF Round, InStart
<1>5. HandleCrds(o) => Moved
  <2>1. ASSUME Back(o, op[o].owe \ {"crds"}, op[o].retry), Live(o) PROVE Moved
    BY <1>0, <1>1, <2>1 DEF Pod
  <2> QED
    BY <1>0, <2>1 DEF HandleCrds, Goto, InStart, OnCourse, Live, Providing, Pod, PodPcs
<1>6. Check(o) => Moved
  <2>1. ASSUME op[o].pc = "check", op' = [op EXCEPT ![o].pc = "delete", ![o].missing = parts # Parts]
        PROVE  Moved
    <3>1. op' \in [Operators -> Pod]
      BY <1>0, <2>1 DEF Pod, PodPcs
    <3> QED
      BY <1>0, <2>1, <3>1 DEF OnCourse, Live, Providing, Pod
  <2> QED
    BY <1>0, <1>2, <1>3, <2>1 DEF Check, InStart, OnCourse, Live, Providing
<1>7. DeleteStatefulset(o) => Moved
  <2>1. ASSUME op[o].pc = "delete", Goto(o, "recreate") PROVE Moved
    BY <1>0, <2>1 DEF Goto, OnCourse, Live, Providing, Pod, PodPcs
  <2> HIDE DEF Moved
  <2> QED
    BY <1>0, <1>2, <1>3, <2>1 DEF DeleteStatefulset, InStart, OnCourse, Live, Providing
<1>8. Recreate(o) => Moved
  BY <1>0, <1>2, <1>3 DEF Recreate, InStart, OnCourse, Live, Providing, Pod
<1>9. InstallPart(o) => Moved
  <2>1. ASSUME op[o].pc = "install", op' = [op EXCEPT ![o].pc = "check", ![o].again = TRUE]
        PROVE  Moved
    <3>1. op' \in [Operators -> Pod]
      BY <1>0, <2>1 DEF Pod, PodPcs
    <3> QED
      BY <1>0, <2>1, <3>1 DEF OnCourse, Live, Providing, Pod
  <2>2. ASSUME op[o].pc = "install", op[o].n # 5, op' = [op EXCEPT ![o].n = @ + 1]
        PROVE  Moved
    <3>1. op' \in [Operators -> Pod]
      BY <1>0, <2>2 DEF Pod
    <3> QED
      BY <1>0, <2>2, <3>1 DEF OnCourse, Live, Providing, Pod
  <2> QED
    BY <1>0, <1>2, <2>1, <2>2, Constants DEF InstallPart, InStart, OnCourse, Live, Providing
<1>10. AskReady(o) => Moved
  <2>1. ASSUME Live(o), op' = [op EXCEPT ![o] = Fresh(@.conf)] PROVE Moved
    <3>1. op[o].conf \in Template
      BY <1>0, <2>1 DEF OnCourse
    <3>2. Fresh(op[o].conf) \in Pod
      BY <3>1, FreshPod
    <3> QED
      BY <1>0, <2>1, <3>1, <3>2 DEF OnCourse, Live, Fresh, Pod, NoPod, Providing
  <2>2. ASSUME op[o].pc = "ready", Goto(o, "event") PROVE Moved
    BY <1>0, <2>2 DEF Goto, OnCourse, Live, Providing, Pod, PodPcs
  <2> HIDE DEF Moved
  <2> QED
    BY <1>2, <2>1, <2>2 DEF AskReady, InStart, Live
<1>11. WriteEvent(o) => Moved
  <2>1. op[o].owe \ {"providers"} \in SUBSET {"crds", "providers"} /\ 0 \in 0..StartupTimeout + 1
    BY <1>0 DEF Pod
  <2> QED
    BY <1>0, <1>1, <2>1 DEF WriteEvent, InStart, Live
<1> QED
  BY <1>4, <1>5, <1>6, <1>7, <1>8, <1>9, <1>10, <1>11 DEF Start

LEMMA StartKeepsTyped ==
  ASSUME Typed, Namespaced, NEW o \in Operators, Start(o) PROVE Typed' /\ Namespaced'
<1>0. Clustered /\ op[o].n \in 1..5 /\ (Live(o) => op[o].conf[2] \in Versions)
  BY DEF Typed, OnCourse, Pod, Template
<1>1. /\ op' \in [Operators -> Pod] /\ OnCourse(o)' /\ Live(o) /\ Live(o)'
      /\ \A p \in Operators \ {o} : op'[p] = op[p]
  BY StartTyped
<1>2. /\ UNCHANGED AroundStart /\ (parts' \subseteq parts \/ ns = "active")
      /\ broken' \in {broken, TRUE}
  BY DEF Start, Round, HandleCrds, Check, DeleteStatefulset, Recreate, InstallPart, AskReady, WriteEvent,
         CanWrite, StepsOfStart
<1>3. Clustered'
  <2> USE <1>0, <1>1, <1>2, Limits DEF Clustered, StepsOfStart, AroundStart, Calm, Fault, Fails
  <2>1. CASE Round(o)
    BY <2>1 DEF Round
  <2>2. CASE HandleCrds(o)
    <3>1. crds \subseteq crds' /\ crds' \subseteq Crds
      BY <2>2, Constants DEF HandleCrds
    <3>2. faults' \in 0..MaxFaults /\ UNCHANGED <<parts, image, entries, events>>
      BY <2>2 DEF HandleCrds
    <3> QED
      BY <3>1, <3>2
  <2>3. CASE Check(o) \/ AskReady(o)
    BY <2>3 DEF Check, AskReady
  <2>4. CASE DeleteStatefulset(o)
    <3>1. parts' \in {parts, parts \ {"statefulset"}} /\ UNCHANGED <<crds, image, entries, events, broken>>
      BY <2>4 DEF DeleteStatefulset
    <3>2. faults' = faults \/ (faults < MaxFaults /\ faults' = faults + 1)
      BY ONLY <2>4 DEF DeleteStatefulset, Fails, Fault, Calm
    <3> QED
      BY <3>1, <3>2
  <2>5. CASE Recreate(o)
    <3>1. image' \in Versions /\ parts' \in {parts, parts \cup {"statefulset"}}
      BY <2>5 DEF Recreate, InStart, Live
    <3>2. faults' \in 0..MaxFaults /\ UNCHANGED <<crds, entries, events>>
      BY <2>5 DEF Recreate
    <3> QED
      BY <3>1, <3>2, Constants
  <2>6. CASE InstallPart(o)
    <3>1. PartList[op[o].n] \in Parts
      BY Constants
    <3> QED
      BY <2>6, <3>1 DEF InstallPart
  <2>7. CASE WriteEvent(o)
    <3>1. faults' \in 0..MaxFaults /\ UNCHANGED <<parts, image, entries, crds>>
      BY <2>7 DEF WriteEvent
    <3>2. events' \in {events, events \cup {"Gefyra-Ready"}}
      BY <2>7 DEF WriteEvent
    <3> QED
      BY <3>1, <3>2
  <2> QED
    BY <2>1, <2>2, <2>3, <2>4, <2>5, <2>6, <2>7 DEF Start
<1>4. Namespaced'
  BY <1>1, <1>2 DEF Namespaced, AroundStart, Live
<1>5. \A p \in Operators : OnCourse(p)'
  BY <1>1 DEF Typed, OnCourse, Live
<1> QED
  BY <1>1, <1>2, <1>3, <1>4, <1>5 DEF Typed, AroundStart

LEMMA KubernetesKeepsTyped ==
  ASSUME Typed, Namespaced, Kubernetes PROVE Typed' /\ Namespaced'
<1> USE Limits DEF cluster, provider, history
<1>0. Clustered /\ cmd \in Cmd /\ op \in [Operators -> Pod] /\ \A o \in Operators : OnCourse(o)
  BY DEF Typed
<1>1. ASSUME Clustered', UNCHANGED <<op, cmd>> PROVE Typed'
  BY <1>0, <1>1 DEF Typed, OnCourse, Live
<1>2. CASE NamespaceEmptied
  BY <1>0, <1>1, <1>2 DEF NamespaceEmptied, Clustered, Namespaced, Live
<1>3. CASE NamespaceGone
  BY <1>0, <1>1, <1>3 DEF NamespaceGone, Clustered, Namespaced, Live
<1>4. ASSUME NEW k \in Crds, Cleanup(k) PROVE Typed' /\ Namespaced'
  BY <1>0, <1>1, <1>4, Constants DEF Cleanup, Collect, CrdGone, Clustered, Objects, Deleted, Namespaced, Live
<1>5. ASSUME NEW o \in Operators, OperatorDies(o) PROVE Typed' /\ Namespaced'
  <2>1. op[o].conf \in Template
    BY <1>0, <1>5 DEF OnCourse, OperatorDies
  <2>2. Fresh(op[o].conf) \in Pod
    BY <2>1, FreshPod
  <2>3. op' \in [Operators -> Pod] /\ OnCourse(o)' /\ Live(o) /\ \A p \in Operators \ {o} : op'[p] = op[p]
    BY <1>0, <1>5, <2>1, <2>2 DEF OperatorDies, OnCourse, Live, Fresh, NoPod, Pod, Providing
  <2>4. Clustered'
    BY <1>0, <1>5 DEF OperatorDies, Clustered, Fault
  <2>5. Namespaced'
    BY <1>5, <2>3 DEF OperatorDies, Namespaced, Live
  <2>6. \A p \in Operators : OnCourse(p)'
    BY <1>0, <2>3 DEF OnCourse, Live
  <2> QED
    BY <1>0, <1>5, <2>3, <2>4, <2>5, <2>6 DEF Typed, OperatorDies
<1>6. CASE WebhookUp \/ WebhookDown \/ Healthcheck
  <2>1. /\ UNCHANGED <<cluster, objects, provider, op, cmd, commands, lost, broken, overlapped>>
        /\ webhook' \in BOOLEAN /\ faults' \in 0..MaxFaults
        /\ events' \in {events, events \cup {"Gefyra-Webhook-Ready"}}
    <3>0. webhook \in BOOLEAN /\ faults \in 0..MaxFaults
      BY <1>0 DEF Clustered
    <3>1. faults' \in 0..MaxFaults /\ UNCHANGED <<objects, provider, op, cmd>>
      BY <1>6, <3>0 DEF WebhookUp, WebhookDown, Healthcheck, Fault, Calm
    <3>4. webhook' \in BOOLEAN
      BY <1>6, <3>0, Zenon DEF WebhookUp, WebhookDown, Healthcheck
    <3>2. events' \in {events, events \cup {"Gefyra-Webhook-Ready"}}
      BY <1>6 DEF WebhookUp, WebhookDown, Healthcheck
    <3>3. UNCHANGED <<commands, lost, broken, overlapped>> /\ UNCHANGED cluster
      BY <1>6 DEF WebhookUp, WebhookDown, Healthcheck
    <3> QED
      BY <3>1, <3>2, <3>3, <3>4
  <2> QED
    BY <1>0, <1>1, <2>1 DEF Clustered, Namespaced, Live
<1>7. CASE StowawayPod
  BY <1>0, <1>1, <1>7 DEF StowawayPod, Clustered, Namespaced, Live
<1> HIDE DEF cluster, provider, history
<1> QED
  BY <1>2, <1>3, <1>4, <1>5, <1>6, <1>7 DEF Kubernetes

LEMMA OperatesKeepsTyped ==
  ASSUME Typed, Namespaced, NEW o \in Operators, Operates(o) PROVE Typed' /\ Namespaced'
<1>0. Clustered /\ cmd \in Cmd /\ op \in [Operators -> Pod] /\ \A p \in Operators : OnCourse(p)
  BY DEF Typed
<1>1. ASSUME NEW r \in Pod, op' = [op EXCEPT ![o] = r],
             r = NoPod \/ (r = Fresh(deployed) /\ "operator" \in have),
             UNCHANGED <<cluster, objects, provider, webhook, events, cmd, commands, faults, lost, broken>>,
             overlapped' \in BOOLEAN
      PROVE  Typed' /\ Namespaced'
  <2>1. op' \in [Operators -> Pod] /\ \A p \in Operators \ {o} : op'[p] = op[p]
    BY <1>0, <1>1
  <2>2. OnCourse(o)'
    <3>1. op'[o] = r
      BY <1>0, <1>1
    <3>2. CASE r = NoPod
      BY <3>1, <3>2 DEF OnCourse, Live, NoPod, Providing
    <3>3. CASE r = Fresh(deployed) /\ "operator" \in have
      <4>1. r.pc = "crds" /\ r.conf = deployed /\ ~r.again /\ deployed \in Template
        BY <3>3 DEF Fresh, NoPod, Namespaced
      <4> QED
        BY <3>1, <4>1 DEF OnCourse, Live, Providing
    <3> QED
      BY <1>1, <3>2, <3>3
  <2>3. Clustered'
    BY <1>0, <1>1 DEF Clustered, cluster, provider
  <2>4. Namespaced'
    BY <1>0, <1>1, <2>1 DEF Namespaced, Live, cluster, provider, NoPod
  <2>5. \A p \in Operators : OnCourse(p)'
    BY <1>0, <2>1, <2>2 DEF OnCourse, Live
  <2> QED
    BY <1>0, <1>1, <2>1, <2>3, <2>4, <2>5 DEF Typed
<1>2. CASE OperatorStarts(o)
  <2>1. Fresh(deployed) \in Pod
    BY <1>2, FreshPod DEF OperatorStarts, Namespaced
  <2> QED
    BY <1>0, <1>1, <1>2, <2>1 DEF OperatorStarts, Clustered
<1>3. CASE OperatorStops(o)
  <2>1. NoPod \in Pod
    BY Limits DEF NoPod, Pod, PodPcs
  <2> QED
    <3>1. overlapped' \in BOOLEAN
      BY <1>3 DEF OperatorStops
    <3>2. /\ op' = [op EXCEPT ![o] = NoPod]
          /\ UNCHANGED <<cluster, objects, provider, webhook, events, cmd, commands, faults, lost, broken>>
      BY <1>3 DEF OperatorStops
    <3> QED
      BY ONLY <1>1, <2>1, <3>1, <3>2
<1> QED
  BY <1>2, <1>3, StartKeepsTyped DEF Operates

LEMMA HandlersKeepTyped ==
  ASSUME Typed, Namespaced, NEW k \in Crds, Handlers(k) PROVE Typed' /\ Namespaced'
BY DEF Handlers, Hold, Finish, EntryOf, Typed, Clustered, Objects, Namespaced, OnCourse, Live, cluster,
       provider, history

LEMMA NextKeepsTyped ==
  ASSUME Typed, Namespaced, [Next]_vars PROVE Typed' /\ Namespaced'
<1>1. CASE UNCHANGED vars
  BY <1>1 DEF vars, Typed, Clustered, Namespaced, OnCourse, Live, cluster, provider, history
<1> QED
  BY <1>1, UsersKeepTyped, CommandKeepsTyped, KubernetesKeepsTyped, OperatesKeepsTyped, HandlersKeepTyped
     DEF Next

-----------------------------------------------------------------------------
(* The operator's role.                                                    *)

LEMMA FaultsCount == ASSUME Typed, Next PROVE faults' \in {faults, faults + 1} /\ faults \in Nat
<1> USE DEF history
<1>0. faults \in Nat
  BY Limits DEF Typed, Clustered
<1>1. Users => faults' \in {faults, faults + 1}
  BY DEF Users, Use, LosePart, Fault, Install, Up, Begin
<1>2. Command => faults' \in {faults, faults + 1}
  BY DEF Command, CreateManifest, SeeEvents, SeeWebhook, PatchDeployment, TakeFinalizers, DeleteObject,
         AwaitClient, DeleteNamespace, DeleteCrds, DeleteRbac, Fails, Fault, Calm
<1>3. Kubernetes => faults' \in {faults, faults + 1}
  BY DEF Kubernetes, NamespaceEmptied, NamespaceGone, Cleanup, Collect, CrdGone, OperatorDies, WebhookUp,
         WebhookDown, Healthcheck, StowawayPod, Fault, Calm
<1>4. \A o \in Operators : Operates(o) => faults' \in {faults, faults + 1}
  BY DEF Operates, Start, Round, HandleCrds, Check, DeleteStatefulset, Recreate, InstallPart, AskReady,
         WriteEvent, OperatorStarts, OperatorStops, Fails, Fault, Calm
<1>5. \A k \in Crds : Handlers(k) => faults' \in {faults, faults + 1}
  BY DEF Handlers, Hold, Finish
<1> QED
  BY <1>0, <1>1, <1>2, <1>3, <1>4, <1>5 DEF Next

LEMMA CommandKeepsGranted ==
  ASSUME Typed, Namespaced, Granted, Command PROVE Granted'
<1> USE DEF At
<1>0. cmd.n \in 1..6 /\ cmd \in Cmd /\ (faults' = 0 => faults = 0)
  BY FaultsCount DEF Typed, Cmd, Next
<1>1. CASE CreateManifest
  <2>1. ASSUME Report("failed"), UNCHANGED <<ns, have>> PROVE Granted'
    BY <1>0, <2>1 DEF Report, Granted, Cmd
  <2>2. ASSUME faults = 0, Proceed(Manifests[cmd.n]),
               Manifests[cmd.n] = "namespace" \/ ns = "active",
               ns' = IF ns = "absent" THEN "active" ELSE ns,
               have' = have \cup ({Manifests[cmd.n]} \ {"namespace", "service"})
        PROVE  Granted'
    <3>1. /\ Manifests[1] = "namespace" /\ Manifests[2] = "rbac" /\ Manifests[4] = "operator"
          /\ \A n \in 1..6 : (Manifests[n] = "namespace" => n = 1) /\ (Manifests[n] = "operator" => n = 4)
      BY <1>0 DEF Manifests
    <3>2. cmd'.name = "install" /\ (cmd'.at = "create" => cmd'.n = cmd.n + 1)
      BY <1>0, <1>1, <2>2, Constants DEF CreateManifest, Proceed, Cmd
    <3>3. cmd.n = 2 => "rbac" \in have'
      BY <2>2, <3>1
    <3>4. cmd.n > 2 => "rbac" \in have
      BY <1>1, <2>2 DEF Granted, CreateManifest
    <3>5. "operator" \in have' /\ ns' = "active" => "rbac" \in have'
      BY <1>0, <2>2, <3>1, <3>4 DEF Granted, Namespaced
    <3> QED
      BY <1>0, <2>2, <3>1, <3>2, <3>3, <3>4, <3>5 DEF Granted
  <2> QED
    BY <1>0, <1>1, <2>1, <2>2 DEF CreateManifest, Granted
<1>2. CASE SeeEvents \/ SeeWebhook
  BY <1>0, <1>2 DEF SeeEvents, SeeWebhook, Report, Granted, Cmd
<1>3. CASE PatchDeployment
  BY <1>0, <1>3 DEF PatchDeployment, Report, Granted, Cmd
<1>4. CASE TakeFinalizers \/ DeleteObject \/ AwaitClient
  BY <1>0, <1>4 DEF TakeFinalizers, DeleteObject, AwaitClient, NextKind, Granted, Cmd
<1>5. CASE DeleteNamespace \/ DeleteCrds
  BY <1>0, <1>5 DEF DeleteNamespace, DeleteCrds, Calm, Fault, Granted, Cmd
<1>6. CASE DeleteRbac
  BY <1>0, <1>6 DEF DeleteRbac, Report, Granted, Cmd
<1> QED
  BY <1>1, <1>2, <1>3, <1>4, <1>5, <1>6 DEF Command

LEMMA NextKeepsGranted ==
  ASSUME Typed, Namespaced, Granted, [Next]_vars PROVE Granted'
<1> USE DEF cluster, history, At
<1>1. CASE UNCHANGED vars
  BY <1>1 DEF vars, Granted
<1>2. CASE Users
  <2>1. Next /\ (faults' = 0 => faults = 0) /\ Version \in Versions
    BY <1>2, FaultsCount DEF Next, Versions
  <2> QED
    BY <1>2, <2>1 DEF Users, Use, LosePart, Fault, Install, Up, Begin, Granted
<1>3. ASSUME Next, UNCHANGED cmd, have' \subseteq have, "rbac" \in have => "rbac" \in have',
             ns' = "active" => ns = "active"
      PROVE  Granted'
  BY <1>3, FaultsCount DEF Granted
<1>4. CASE Kubernetes
  BY <1>3, <1>4 DEF Next, Kubernetes, NamespaceEmptied, NamespaceGone, Cleanup, Collect, CrdGone, OperatorDies,
                  WebhookUp, WebhookDown, Healthcheck, StowawayPod
<1>5. ASSUME NEW o \in Operators, Operates(o) PROVE Granted'
  <2>1. UNCHANGED <<cmd, have, ns>>
    BY <1>5 DEF Operates, Start, Round, HandleCrds, Check, DeleteStatefulset, Recreate, InstallPart, AskReady,
                WriteEvent, OperatorStarts, OperatorStops, StepsOfStart, AroundStart
  <2> QED
    BY <1>3, <1>5, <2>1 DEF Next
<1>6. ASSUME NEW k \in Crds, Handlers(k) PROVE Granted'
  BY <1>3, <1>6 DEF Next, Handlers, Hold, Finish
<1> QED
  BY <1>1, <1>2, <1>4, <1>5, <1>6, CommandKeepsGranted DEF Next

-----------------------------------------------------------------------------
(* Stowaway's config maps.                                                 *)

(* What InOrder says when o is the only operator that may be starting. *)
Furnished(o) ==
  /\ Parts \ {"statefulset"} \subseteq parts
  /\ "statefulset" \in parts \/ (op[o].pc = "recreate" /\ ~op[o].missing)

Relied(o) == entries # {} \/ Past(o) \/ \E p \in Operators \ {o} : Past(p)

OwnKept(o) ==
  /\ Relied(o) => Furnished(o)
  /\ op[o].pc \in {"delete", "recreate"} /\ ~op[o].missing => Furnished(o)
  /\ Lacking(o) => ~Relied(o)
  /\ op[o].pc = "install" => \A i \in 1..(op[o].n - 1) : PartList[i] \in parts

Resting(o) == \A p \in Operators \ {o} : op[p].pc \in {"none", "serving"}

LEMMA OwnFromOrder ==
  ASSUME InOrder, NEW o \in Operators, Starting(o) PROVE Resting(o) /\ OwnKept(o)
<1>1. Resting(o)
  BY DEF InOrder, Resting, Starting
<1>2. Whole => Furnished(o)
  BY <1>1 DEF Whole, Furnished, Resting
<1> QED
  BY <1>1, <1>2 DEF InOrder, OwnKept, Relied

LEMMA OrderFromOwn ==
  ASSUME NEW o \in Operators, Resting(o)', OwnKept(o)' PROVE InOrder'
<1>1. \A p, q \in Operators : Starting(p)' /\ Starting(q)' => p = q
  BY DEF Resting, Starting
<1>2. Furnished(o)' => Whole'
  BY DEF Furnished, Whole
<1>3. entries' # {} \/ (\E p \in Operators : Past(p)') => Whole' /\ ~Lacking(o)'
  BY <1>2 DEF OwnKept, Relied
<1>4. \A p \in Operators \ {o} : op'[p].pc \notin {"delete", "recreate", "install"}
  BY DEF Resting
<1>5. op'[o].pc \in {"delete", "recreate"} /\ ~op'[o].missing => Whole'
  BY <1>2 DEF OwnKept
<1>6. op'[o].pc = "install" => \A i \in 1..(op'[o].n - 1) : PartList[i] \in parts'
  BY DEF OwnKept
<1>7. \A p \in Operators \ {o} : ~Lacking(p)'
  BY <1>4 DEF Lacking
<1> QED
  BY <1>1, <1>3, <1>4, <1>5, <1>6, <1>7 DEF InOrder

LEMMA StartKeepsOrder ==
  ASSUME Typed, Namespaced, Orderly, InOrder, NEW o \in Operators, Start(o), ~broken'
  PROVE  InOrder'
<1>0. /\ op' \in [Operators -> Pod] /\ OnCourse(o)' /\ Live(o) /\ Live(o)' /\ OnCourse(o)
      /\ \A p \in Operators \ {o} : op'[p] = op[p]
      /\ op \in [Operators -> Pod] /\ op[o] \in Pod /\ parts \subseteq Parts
  BY StartTyped DEF Typed, Clustered
<1>1. Starting(o)
  BY DEF Start, Round, HandleCrds, Check, DeleteStatefulset, Recreate, InstallPart, AskReady, WriteEvent,
         InStart, Starting
<1>2. Resting(o) /\ OwnKept(o)
  BY <1>1, OwnFromOrder
<1>3. Resting(o)'
  BY <1>0, <1>2 DEF Resting
<1>6. ASSUME UNCHANGED <<parts, entries>>, op[o].pc # "recreate",
             op'[o].pc \notin {"delete", "recreate", "install"},
             Past(o)' => Past(o) \/ Furnished(o)
      PROVE  OwnKept(o)'
  <2>1. Furnished(o) => Furnished(o)'
    BY <1>6 DEF Furnished
  <2>2. Relied(o)' => Furnished(o)
    BY <1>0, <1>2, <1>6 DEF OwnKept, Relied, Past, Live
  <2> QED
    BY <1>6, <2>1, <2>2 DEF OwnKept, Lacking
<1>7. ASSUME NEW owe, NEW retry, Back(o, owe, retry), UNCHANGED <<parts, entries>>, op[o].pc # "recreate",
             "providers" \in owe \/ op[o].again \/ "providers" \notin op[o].owe
      PROVE  OwnKept(o)'
  <2>1. op'[o].pc = "round" /\ op'[o].owe = owe /\ ~op'[o].again
    BY <1>0, <1>7 DEF Back, Fresh, NoPod, Pod
  <2> QED
    BY <1>0, <1>6, <1>7, <2>1 DEF Past
<1>8. ASSUME TryAgain(o), UNCHANGED <<parts, entries>>, op[o].pc # "recreate" PROVE OwnKept(o)'
  BY <1>0, <1>7, <1>8 DEF TryAgain, OnCourse, Providing
<1>9. ASSUME Round(o) PROVE OwnKept(o)'
  <2>1. /\ op'[o].pc \in {"crds", "check", "serving"} /\ op'[o].owe = op[o].owe
        /\ op[o].pc = "round" /\ ~op[o].again /\ ~op'[o].again
    BY <1>0, <1>9 DEF Round, Goto, InStart, OnCourse, Providing, Pod
  <2> QED
    BY <1>6, <1>9, <2>1 DEF Round, Past, Live
<1>10. ASSUME HandleCrds(o) PROVE OwnKept(o)'
  <2>1. Goto(o, "round") => op'[o].pc = "round" /\ op'[o].owe = op[o].owe /\ op'[o].again = op[o].again
    BY <1>0 DEF Goto, Pod
  <2> QED
    BY <1>0, <1>6, <1>7, <1>10, <2>1 DEF HandleCrds, InStart, Past, Live
<1>11. ASSUME NEW missing \in BOOLEAN, Checked(o, missing)
       PROVE  /\ op'[o].pc = AfterCheck(op[o].again, missing) /\ op'[o].owe = op[o].owe
              /\ op'[o].again = (op[o].again \/ ~missing) /\ op'[o].n = 1
  BY <1>0, <1>11 DEF Checked, Pod
<1>12. ASSUME Check(o) PROVE OwnKept(o)'
  <2>1. op[o].pc = "check" /\ UNCHANGED <<parts, entries>> /\ (Furnished(o) => parts = Parts)
    BY <1>0, <1>12 DEF Check, InStart, Furnished
  <2>2. ASSUME op' = [op EXCEPT ![o].pc = "delete", ![o].missing = parts # Parts] PROVE OwnKept(o)'
    <3>1. /\ op'[o].pc = "delete" /\ op'[o].missing = (parts # Parts) /\ op'[o].owe = op[o].owe
          /\ op'[o].again = op[o].again
      BY <1>0, <2>2 DEF Pod
    <3>2. Relied(o)' => Relied(o)
      BY <1>0, <2>1, <3>1 DEF Relied, Past, Live
    <3>3. parts = Parts => Furnished(o)'
      BY <2>1, Constants DEF Furnished
    <3> QED
      BY <1>2, <2>1, <3>1, <3>2, <3>3 DEF OwnKept, Lacking
  <2>3. ASSUME NEW missing \in BOOLEAN, missing = (parts # Parts), Checked(o, missing)
        PROVE  OwnKept(o)'
    <3>1. Past(o)' => Past(o) \/ ~missing
      BY <1>0, <1>11, <2>3 DEF Past, Live
    <3>2. ~missing => Furnished(o) /\ Furnished(o)'
      BY <2>1, <2>3, Constants DEF Furnished
    <3>3. ASSUME missing PROVE ~Relied(o) /\ ~Relied(o)'
      BY <1>0, <1>2, <2>1, <2>3, <3>1, <3>3 DEF OwnKept, Relied, Past, Live
    <3>4. /\ op'[o].pc \notin {"delete", "recreate"} /\ (op'[o].pc = "install" => missing /\ op'[o].n = 1)
      BY <1>11, <2>3 DEF AfterCheck
    <3> QED
      BY <3>2, <3>3, <3>4 DEF OwnKept, Lacking
  <2> QED
    BY <1>8, <1>12, <2>1, <2>2, <2>3 DEF Check
<1>13. ASSUME DeleteStatefulset(o) PROVE OwnKept(o)'
  <2>1. op[o].pc = "delete" /\ UNCHANGED entries
    BY <1>13 DEF DeleteStatefulset, InStart
  <2>2. ASSUME parts' = parts \ {"statefulset"}, Goto(o, "recreate") PROVE OwnKept(o)'
    <3>1. /\ op'[o].pc = "recreate" /\ op'[o].missing = op[o].missing /\ op'[o].owe = op[o].owe
          /\ op'[o].again = op[o].again
      BY <1>0, <2>2 DEF Goto, Pod
    <3>2. Relied(o)' => Relied(o)
      BY <1>0, <2>1, <3>1 DEF Relied, Past, Live
    <3>3. Furnished(o) /\ ~op[o].missing => Furnished(o)'
      BY <2>2, <3>1 DEF Furnished
    <3> QED
      BY <1>2, <2>1, <3>1, <3>2, <3>3 DEF OwnKept, Lacking
  <2>3. ASSUME "statefulset" \notin parts, UNCHANGED parts, Checked(o, TRUE) PROVE OwnKept(o)'
    <3>1. ~Furnished(o)
      BY <2>1, <2>3 DEF Furnished
    <3>2. ~Relied(o)
      BY <1>2, <3>1 DEF OwnKept
    <3>3. ~op[o].again
      BY <1>0, <3>2 DEF Relied, Past
    <3>4. /\ op'[o].pc = "install" /\ op'[o].owe = op[o].owe /\ ~op'[o].again /\ op'[o].n = 1
      BY <1>11, <2>3, <3>3 DEF AfterCheck
    <3>5. ~Relied(o)'
      BY <1>0, <2>1, <3>2, <3>4 DEF Relied, Past, Live
    <3> QED
      BY <3>4, <3>5 DEF OwnKept, Lacking
  <2> QED
    BY <1>8, <1>13, <2>1, <2>2, <2>3 DEF DeleteStatefulset
<1>14. ASSUME Recreate(o) PROVE OwnKept(o)'
  <2>1. /\ op[o].pc = "recreate" /\ parts' = parts \cup {"statefulset"} /\ UNCHANGED entries
        /\ Checked(o, op[o].missing) /\ op[o].missing \in BOOLEAN
    BY <1>0, <1>14 DEF Recreate, InStart, Pod
  <2>2. ~op[o].missing => Furnished(o)'
    BY <1>2, <2>1 DEF OwnKept, Furnished
  <2>3. ASSUME op[o].missing PROVE ~Relied(o)'
    BY <1>0, <1>2, <1>11, <2>1, <2>3 DEF OwnKept, Lacking, Relied, Past, Live
  <2>4. /\ op'[o].pc \notin {"delete", "recreate"}
        /\ op'[o].pc = "install" => op[o].missing /\ op'[o].n = 1
    BY <1>11, <2>1 DEF AfterCheck
  <2> QED
    BY <2>2, <2>3, <2>4 DEF OwnKept, Lacking
<1>15. ASSUME InstallPart(o) PROVE OwnKept(o)'
  <2> SUFFICES ASSUME ~(TryAgain(o) /\ UNCHANGED <<parts, entries>>) PROVE OwnKept(o)'
    BY <1>8, <1>15 DEF InstallPart, InStart
  <2>1. /\ op[o].pc = "install" /\ parts' = parts \cup {PartList[op[o].n]}
        /\ entries' = entries \ {PartList[op[o].n]} /\ op[o].n \in 1..5
        /\ op' = IF op[o].n = Len(PartList) THEN [op EXCEPT ![o].pc = "check", ![o].again = TRUE]
                 ELSE [op EXCEPT ![o].n = @ + 1]
    BY <1>0, <1>15 DEF InstallPart, InStart, Pod
  <2>2. ~Relied(o) /\ \A i \in 1..op[o].n : PartList[i] \in parts'
    BY <1>2, <2>1 DEF OwnKept, Lacking
  <2>3. CASE op[o].n = 5
    <3>1. op'[o].pc = "check"
      BY <1>0, <2>1, <2>3, Constants DEF Pod
    <3>2. Parts \subseteq parts'
      <4>1. \A p \in Parts : \E i \in 1..5 : p = PartList[i]
        BY DEF Parts, Range, PartList
      <4> QED
        BY <2>2, <2>3, <4>1
    <3>3. Furnished(o)'
      BY <3>2, Constants DEF Furnished
    <3> QED
      BY <3>1, <3>3 DEF OwnKept, Lacking
  <2>4. CASE op[o].n # 5
    <3>1. /\ op'[o].pc = "install" /\ op'[o].n = op[o].n + 1 /\ op'[o].owe = op[o].owe
          /\ op'[o].again = op[o].again
      BY <1>0, <2>1, <2>4, Constants DEF Pod
    <3>2. ~Relied(o)'
      BY <1>0, <2>1, <2>2, <3>1 DEF Relied, Past, Live
    <3>3. \A i \in 1..(op'[o].n - 1) : PartList[i] \in parts'
      BY <2>1, <2>2, <3>1
    <3> QED
      BY <3>1, <3>2, <3>3, Zenon DEF OwnKept
  <2> QED
    BY <2>3, <2>4
<1>16. ASSUME AskReady(o) PROVE OwnKept(o)'
  <2>1. ASSUME op' = [op EXCEPT ![o] = Fresh(@.conf)] PROVE op'[o].pc = "crds" /\ ~op'[o].again
                                                            /\ op'[o].owe = {"crds", "providers"}
    BY <1>0, <2>1 DEF Fresh, NoPod
  <2>2. Goto(o, "event") => op'[o].pc = "event" /\ op'[o].again = op[o].again /\ op'[o].owe = op[o].owe
    BY <1>0 DEF Goto, Pod
  <2>3. /\ op[o].pc = "ready" /\ UNCHANGED <<parts, entries>>
        /\ Goto(o, "event") \/ TryAgain(o) \/ op' = [op EXCEPT ![o] = Fresh(@.conf)]
    BY <1>16 DEF AskReady, InStart
  <2> QED
    BY <1>0, <1>6, <1>8, <2>1, <2>2, <2>3 DEF Past, Live
<1>17. ASSUME WriteEvent(o) PROVE OwnKept(o)'
  BY <1>0, <1>7, <1>17 DEF WriteEvent, InStart, OnCourse
<1> QED
  <2>1. OwnKept(o)'
    BY <1>9, <1>10, <1>12, <1>13, <1>14, <1>15, <1>16, <1>17 DEF Start
  <2> QED
    BY <1>3, <2>1, OrderFromOwn

(* What is lost has been lost. *)
LEMMA LostStays == ASSUME Typed, Next PROVE lost => lost'
<1> USE DEF history, AroundStart, StepsOfStart, StepsOfInstall, StepsOfUninstall
<1>1. Users => (lost => lost')
  BY DEF Users, Use, LosePart, Install, Up, Begin
<1>2. Command => lost' = lost
  BY DEF Command, CreateManifest, SeeEvents, SeeWebhook, PatchDeployment, TakeFinalizers, DeleteObject,
         AwaitClient, DeleteNamespace, DeleteCrds, DeleteRbac
<1>3. Kubernetes => lost' = lost
  BY DEF Kubernetes, NamespaceEmptied, NamespaceGone, Cleanup, Collect, CrdGone, OperatorDies, WebhookUp,
         WebhookDown, Healthcheck, StowawayPod
<1>4. \A o \in Operators : Operates(o) => lost' = lost
  BY DEF Operates, Start, Round, HandleCrds, Check, DeleteStatefulset, Recreate, InstallPart, AskReady,
         WriteEvent, OperatorStarts, OperatorStops
<1>5. \A k \in Crds : Handlers(k) => lost' = lost
  BY DEF Handlers, Hold, Finish
<1> QED
  BY <1>1, <1>2, <1>3, <1>4, <1>5 DEF Next

(* Nobody loses anything, and nobody moves. *)
LEMMA QuietKeepsOrder ==
  ASSUME InOrder, UNCHANGED op, parts \subseteq parts', entries' \subseteq entries PROVE InOrder'
<1>1. Whole => Whole'
  BY DEF Whole
<1> QED
  BY <1>1 DEF InOrder, Starting, Past, Lacking, Live

LEMMA UsersKeepOrder ==
  ASSUME Typed, InOrder, Users, Orderly' PROVE InOrder'
<1> USE DEF provider
<1>1. ASSUME NEW k \in Crds, Use(k) PROVE InOrder'
  <2>1. /\ UNCHANGED <<op, parts>> /\ parts = Parts /\ Serving
    BY <1>1 DEF Use
  <2>2. Whole /\ Whole'
    BY <2>1, Constants DEF Whole
  <2>3. \A o \in Operators : ~Lacking(o)
    BY <2>1 DEF InOrder, Serving, Past, Live, Typed, OnCourse
  <2> QED
    BY <2>1, <2>2, <2>3 DEF InOrder, Starting, Past, Lacking, Live
<1>2. ASSUME NEW p \in Deletable, LosePart(p) PROVE InOrder'
  BY <1>2 DEF LosePart, Orderly
<1>3. ASSUME NEW name, NEW at, NEW wait, NEW v, Begin(name, at, wait, v) PROVE InOrder'
  BY <1>3, QuietKeepsOrder DEF Begin
<1> QED
  BY ONLY Users, <1>1, <1>2, <1>3 DEF Users, Install, Up

LEMMA CommandKeepsOrder ==
  ASSUME Typed, Namespaced, Kept, Command, Orderly' PROVE InOrder'
<1>0. UNCHANGED <<op, lost, broken, overlapped>> /\ parts \subseteq parts' /\ entries' \subseteq entries
  BY CommandClustered DEF Command, CreateManifest, SeeEvents, SeeWebhook, PatchDeployment, TakeFinalizers,
     DeleteObject, AwaitClient, DeleteNamespace, DeleteCrds, DeleteRbac, StepsOfInstall,
     StepsOfUninstall, provider
<1>1. CASE ns = "active"
  BY <1>0, <1>1, QuietKeepsOrder DEF Kept, Orderly
<1>2. CASE ns # "active"
  <2>1. ns = "absent" /\ entries' = {}
    BY <1>0, <1>2 DEF Orderly, Command, CreateManifest, SeeEvents, SeeWebhook, PatchDeployment, TakeFinalizers,
       DeleteObject, AwaitClient, DeleteNamespace, DeleteCrds, DeleteRbac, StepsOfUninstall,
       Typed, Clustered, Namespaced
  <2>2. \A o \in Operators : op'[o].pc = "none"
    BY <1>0, <2>1 DEF Namespaced, Live
  <2> QED
    BY <2>1, <2>2 DEF InOrder, Starting, Past, Lacking, Live
<1> QED
  BY <1>1, <1>2

LEMMA KubernetesKeepsOrder ==
  ASSUME Typed, Kept, Kubernetes, Orderly' PROVE InOrder'
<1> USE DEF provider, cluster, history
<1>0. ~NamespaceEmptied /\ ~NamespaceGone
  BY DEF NamespaceEmptied, NamespaceGone, Orderly
<1>1. ASSUME NEW o \in Operators, OperatorDies(o) PROVE InOrder'
  <2>1. /\ InOrder /\ op[o].pc # "recreate" /\ \A p \in Operators \ {o} : ~Starting(p)
        /\ UNCHANGED <<parts, entries>> /\ op' = [op EXCEPT ![o] = Fresh(@.conf)]
    BY <1>1 DEF OperatorDies, Kept, Orderly, Typed, Clustered
  <2>2. /\ op'[o].pc = "crds" /\ op'[o].owe = {"crds", "providers"} /\ ~op'[o].again
        /\ \A p \in Operators \ {o} : op'[p] = op[p]
    BY <2>1 DEF Fresh, NoPod, Typed
  <2>3. Whole => Whole'
    BY <2>1, <2>2 DEF Whole, Starting
  <2> QED
    BY <2>1, <2>2, <2>3 DEF InOrder, Starting, Past, Lacking, Live
<1>2. CASE ~\E o \in Operators : OperatorDies(o)
  <2>1. UNCHANGED <<op, parts, entries, ns, lost, broken, overlapped>>
    BY <1>0, <1>2 DEF Kubernetes, Cleanup, Collect, CrdGone, WebhookUp, WebhookDown, Healthcheck, StowawayPod
  <2> QED
    BY <2>1, QuietKeepsOrder DEF Kept, Orderly
<1> QED
  BY <1>1, <1>2

LEMMA OperatesKeepsOrder ==
  ASSUME Typed, Namespaced, Kept, NEW o \in Operators, Operates(o), Orderly' PROVE InOrder'
<1> USE DEF cluster, provider
<1>0. op \in [Operators -> Pod] /\ broken \in BOOLEAN /\ overlapped \in BOOLEAN
  BY DEF Typed, Clustered
<1>1. CASE Start(o)
  <2>1. UNCHANGED AroundStart /\ broken' \in {broken, TRUE}
    BY <1>1 DEF Start, Round, HandleCrds, Check, DeleteStatefulset, Recreate, InstallPart, AskReady, WriteEvent,
       StepsOfStart
  <2>2. Orderly /\ ~broken'
    BY <1>0, <2>1 DEF Orderly, AroundStart
  <2> QED
    BY <1>1, <2>2, StartKeepsOrder DEF Kept
<1>2. CASE OperatorStarts(o)
  <2>1. /\ InOrder /\ ~Live(o) /\ \A p \in Operators : ~Starting(p)
        /\ UNCHANGED <<parts, entries>> /\ op' = [op EXCEPT ![o] = Fresh(deployed)]
    BY <1>0, <1>2 DEF OperatorStarts, Kept, Orderly
  <2>2. /\ op'[o].pc = "crds" /\ op'[o].owe = {"crds", "providers"} /\ ~op'[o].again
        /\ \A p \in Operators \ {o} : op'[p] = op[p]
    BY <1>0, <2>1 DEF Fresh, NoPod
  <2>3. Whole => Whole'
    BY <2>1, <2>2 DEF Whole, Starting
  <2> QED
    BY <2>1, <2>2, <2>3 DEF InOrder, Starting, Past, Lacking, Live
<1>3. CASE OperatorStops(o)
  <2>1. /\ InOrder /\ Live(o) /\ ("operator" \in have => ~Starting(o)) /\ ns = "active"
        /\ UNCHANGED <<parts, entries>> /\ op' = [op EXCEPT ![o] = NoPod]
    BY <1>0, <1>3 DEF OperatorStops, Kept, Orderly
  <2>2. op[o].pc = "serving"
    BY <2>1 DEF Namespaced, Starting, Live
  <2>3. op'[o].pc = "none" /\ \A p \in Operators \ {o} : op'[p] = op[p]
    BY <1>0, <2>1 DEF NoPod
  <2>4. Whole => Whole'
    BY <2>1, <2>2, <2>3 DEF Whole
  <2> QED
    BY <2>1, <2>3, <2>4 DEF InOrder, Starting, Past, Lacking, Live
<1> QED
  BY <1>1, <1>2, <1>3 DEF Operates

LEMMA HandlersKeepOrder ==
  ASSUME Typed, Kept, NEW k \in Crds, Handlers(k), Orderly' PROVE InOrder'
<1>1. UNCHANGED <<op, parts, ns, lost, broken, overlapped>> /\ entries' \subseteq entries
  BY DEF Handlers, Hold, Finish, cluster, provider, history
<1> QED
  BY <1>1, QuietKeepsOrder DEF Kept, Orderly

LEMMA NextKeepsInv == InstallInv /\ [Next]_vars => InstallInv'
<1> SUFFICES ASSUME InstallInv, [Next]_vars PROVE InstallInv'
  OBVIOUS
<1>1. Typed' /\ Namespaced' /\ Granted'
  BY NextKeepsTyped, NextKeepsGranted DEF InstallInv
<1>2. ASSUME Orderly' PROVE InOrder'
  <2>1. CASE UNCHANGED vars
    <3>1. UNCHANGED <<op, parts, entries, ns, lost, broken, overlapped>>
      BY <2>1 DEF vars, cluster, provider, history
    <3> QED
      BY <1>2, <3>1, QuietKeepsOrder DEF InstallInv, Kept, Orderly
  <2>2. CASE Users
    <3>1. UNCHANGED <<ns, broken, overlapped>> /\ lost' \in {lost, TRUE}
      BY <2>2 DEF Users, Use, LosePart, Install, Up, Begin, cluster, history
    <3>2. lost \in BOOLEAN
      BY DEF InstallInv, Typed, Clustered
    <3> QED
      BY <1>2, <2>2, <3>1, <3>2, UsersKeepOrder DEF InstallInv, Kept, Orderly
  <2> QED
    BY <1>2, <2>1, <2>2, CommandKeepsOrder, KubernetesKeepsOrder, OperatesKeepsOrder, HandlersKeepOrder
       DEF Next, InstallInv
<1> QED
  BY <1>1, <1>2 DEF InstallInv, Kept

LEMMA InitInv == Init => InstallInv
<1> SUFFICES ASSUME Init PROVE InstallInv
  OBVIOUS
<1>1. Typed /\ Namespaced
  BY InitTyped
<1>2. Granted /\ Kept
  BY DEF Init, Granted, Kept, Orderly, At, NoCommand
<1> QED
  BY <1>1, <1>2 DEF InstallInv

(* The inductive invariant. *)
THEOREM InstallInvariant == Spec => []InstallInv
BY InitInv, NextKeepsInv, PTL DEF Spec

(* The variables keep their types, for any number of operators' pods, of   *)
(* versions, of commands and of faults.                                    *)
THEOREM InstallTypes == Spec => []InstallTypeOK
<1>1. InstallInv => InstallTypeOK
  BY TypedIsTyped DEF InstallInv
<1> QED
  BY <1>1, InstallInvariant, PTL

(* Operators that start, at an update or after the death of any of them,   *)
(* keep what users have put into Stowaway's config maps (components.py:49, *)
(* 84-102 recreate the maps; installed() decides when), whichever of their *)
(* calls fail and are repeated; unless a part was deleted by hand, two     *)
(* operators were starting at a time, or one of them deleted the           *)
(* statefulset of the old version and died or failed before it had made it *)
(* anew (192-198): then the maps are emptied.                              *)
THEOREM EntriesAreKept == Spec => EntriesKept
<1> DEFINE Keeps == \A k \in Crds : EntryOf(k) \subseteq entries /\ objects[k] # "none" =>
                      \/ EntryOf(k) \subseteq entries'
                      \/ objects'[k] = "none" \/ ns # "active"
                      \/ lost' \/ broken \/ overlapped
<1>1. InstallInv /\ [Next]_vars => [Keeps]_vars
  <2> SUFFICES ASSUME InstallInv, Next, NEW k \in Crds, EntryOf(k) \subseteq entries, objects[k] # "none",
                      ns = "active", ~lost', ~broken, ~overlapped
               PROVE  EntryOf(k) \subseteq entries' \/ objects'[k] = "none"
    OBVIOUS
  <2>1. InOrder
    <3>1. ~lost
      BY LostStays DEF InstallInv
    <3> QED
      BY <3>1 DEF InstallInv, Kept, Orderly
  <2>2. CASE Users
    BY <2>2 DEF Users, Use, LosePart, Install, Up, Begin, provider
  <2>3. CASE Command
    BY <2>3 DEF Command, CreateManifest, SeeEvents, SeeWebhook, PatchDeployment, TakeFinalizers, DeleteObject,
       AwaitClient, DeleteNamespace, DeleteCrds, DeleteRbac, StepsOfInstall, StepsOfUninstall, provider
  <2>4. CASE Kubernetes
    BY <2>4 DEF Kubernetes, NamespaceEmptied, NamespaceGone, Cleanup, Collect, CrdGone, OperatorDies, WebhookUp,
       WebhookDown, Healthcheck, StowawayPod, provider
  <2>5. ASSUME NEW o \in Operators, Operates(o) PROVE EntryOf(k) \subseteq entries'
    <3>1. CASE InstallPart(o)
      <4>1. entries = {}
        BY <2>1, <3>1 DEF InOrder, Lacking, InstallPart, InStart
      <4> QED
        BY <3>1, <4>1 DEF InstallPart
    <3>2. CASE ~InstallPart(o)
      BY <2>5, <3>2 DEF Operates, Start, Round, HandleCrds, Check, DeleteStatefulset, Recreate, AskReady, WriteEvent,
         OperatorStarts, OperatorStops, provider
    <3> QED
      BY <3>1, <3>2
  <2>6. ASSUME NEW j \in Crds, Handlers(j) PROVE EntryOf(k) \subseteq entries' \/ objects'[k] = "none"
    BY <2>6, Constants DEF Handlers, Hold, Finish, EntryOf, provider, InstallInv, Typed, Clustered, Objects
  <2> QED
    BY <2>2, <2>3, <2>4, <2>5, <2>6 DEF Next
<1> QED
  BY <1>1, InstallInvariant, PTL DEF Spec, EntriesKept

-----------------------------------------------------------------------------
(* A first installation.  It meets nothing of an earlier one, and nothing  *)
(* but what it has deployed runs until the next command begins.            *)

Vacant == ns = "absent" => events = {} /\ stowaway = "none"

Installing == cmd.name = "install" /\ cmd.fresh

FirstTemplate == [field \in 1..3 |-> Version]

Works == parts = Parts /\ stowaway = "ready"

(* The CRDs are there, or something has failed. *)
Equipped == crds = Crds \/ faults > 0

(* What an operator has made of Stowaway, as far as nobody deletes it. *)
Furthers(o) ==
  /\ op[o].again => parts = Parts
  /\ op[o].pc = "install" => \A i \in 1..(op[o].n - 1) : PartList[i] \in parts
  /\ op[o].pc = "event" => stowaway = "ready"

(* No operator finds a Stowaway of another version. *)
Sound(o) ==
  /\ Live(o) => op[o].conf = FirstTemplate /\ (op[o].pc # "crds" => Equipped)
  /\ op[o].pc \notin {"delete", "recreate"}
  /\ lost \/ Furthers(o)

Ground ==
  /\ ns # "terminating" /\ doomed = {}
  /\ "operator" \in have => deployed = FirstTemplate
  /\ "statefulset" \in parts \/ stowaway # "none" => image = Version
  /\ stowaway # "none" => running = Version /\ (lost \/ "statefulset" \in parts)

(* The command reports what the operator has said, and it is true. *)
Said ==
  /\ cmd.version = Version /\ cmd.at \in {"idle", "create", "events", "webhook"}
  /\ cmd.at # "idle" => cmd.report = "none"
  /\ cmd.at = "webhook" \/ (cmd.report = "ok" /\ cmd.wait) => "Gefyra-Ready" \in events
  /\ "Gefyra-Ready" \in events => Equipped /\ (lost \/ Works)

Founded == Ground /\ Said /\ \A o \in Operators : Sound(o)

FirstInv == Vacant /\ (Installing => Founded)

LEMMA BeginFounds ==
  ASSUME Typed, Namespaced, Vacant, NEW wait \in BOOLEAN, Install(wait), Installing'
  PROVE  Founded'
<1>1. ns = "absent" /\ doomed = {}
  BY DEF Install, Begin, Installing
<1>2. /\ UNCHANGED <<ns, have, deployed, crds, doomed, parts, image, stowaway, running, op, events, lost>>
      /\ cmd'.at = "create" /\ cmd'.version = Version /\ cmd'.report = "none"
  BY DEF Install, Begin, cluster, provider
<1>3. parts = {} /\ "operator" \notin have /\ events = {} /\ stowaway = "none"
      /\ \A o \in Operators : ~Live(o)
  BY <1>1 DEF Namespaced, Vacant
<1>4. Ground' /\ Said'
  BY <1>1, <1>2, <1>3 DEF Ground, Said
<1>5. ASSUME NEW o \in Operators PROVE Sound(o)'
  <2>1. op'[o].pc = "none" /\ ~op'[o].again
    BY <1>2, <1>3 DEF Live, Typed, OnCourse, Providing
  <2> QED
    BY <2>1 DEF Sound, Furthers, Live
<1> QED
  BY <1>4, <1>5 DEF Founded

(* While nothing is taken away, what others have made remains. *)
LEMMA StaysSound ==
  ASSUME NEW o \in Operators, Sound(o), op'[o] = op[o], parts' \subseteq Parts,
         Equipped => Equipped',
         lost' \/ (~lost /\ parts \subseteq parts' /\ (stowaway = "ready" => stowaway' = "ready"))
  PROVE  Sound(o)'
<1>1. (lost \/ Furthers(o)) => (lost' \/ Furthers(o)')
  <2>1. CASE lost'
    BY <2>1
  <2>2. CASE ~lost'
    BY <2>2 DEF Furthers
  <2> QED
    BY <2>1, <2>2
<1> QED
  BY <1>1 DEF Sound, Live

LEMMA StartKeepsFounded ==
  ASSUME Typed, Namespaced, Granted, Founded, NEW o \in Operators, Start(o)
  PROVE  Founded'
<1>0. /\ op \in [Operators -> Pod] /\ op[o] \in Pod /\ OnCourse(o) /\ Live(o) /\ Live(o)'
      /\ op' \in [Operators -> Pod] /\ \A p \in Operators \ {o} : op'[p] = op[p]
  BY StartTyped DEF Typed
<1>1. /\ op[o].conf = FirstTemplate /\ op[o].conf[2] = Version
      /\ (op[o].pc # "crds" => Equipped) /\ (lost \/ Furthers(o))
      /\ op[o].pc \notin {"delete", "recreate"}
  BY <1>0 DEF Founded, Sound, FirstTemplate
<1>2. Round(o) \/ HandleCrds(o) \/ Check(o) \/ InstallPart(o) \/ AskReady(o) \/ WriteEvent(o)
  BY <1>1 DEF Start, DeleteStatefulset, Recreate, InStart
<1>3. UNCHANGED <<ns, have, deployed, doomed, stowaway, running, cmd, lost>>
  BY <1>2 DEF Round, HandleCrds, Check, InstallPart, AskReady, WriteEvent, StepsOfStart, AroundStart
<1>e. Equipped => Equipped'
  <2>1. crds = Crds => crds' = Crds
    BY <1>2, Constants DEF Round, HandleCrds, Check, InstallPart, AskReady, WriteEvent, Typed, Clustered
  <2>2. faults' \in {faults, faults + 1} /\ faults \in Nat
    BY FaultsCount DEF Next, Operates
  <2> QED
    BY <2>1, <2>2 DEF Equipped
<1>4. /\ parts \subseteq parts' /\ parts' \subseteq Parts
      /\ image' \in {image, Version} /\ ("statefulset" \in parts' \ parts => image' = Version)
      /\ events \subseteq events'
  <2>1. CASE InstallPart(o)
    <3>1. PartList[op[o].n] \in Parts
      BY <1>0, Constants DEF Pod
    <3> QED
      BY <1>1, <2>1, <3>1 DEF InstallPart, Typed, Clustered
  <2>2. CASE ~InstallPart(o)
    BY <1>2, <2>2, Constants DEF Round, HandleCrds, Check, AskReady, WriteEvent, Typed, Clustered
  <2> QED
    BY <2>1, <2>2
<1>5. Ground'
  BY <1>3, <1>4 DEF Founded, Ground
<1>6. ASSUME NEW p \in Operators \ {o} PROVE Sound(p)'
  <2>1. Sound(p) /\ op'[p] = op[p]
    BY <1>0 DEF Founded
  <2> QED
    BY <1>3, <1>4, <1>e, <2>1, StaysSound
<1> DEFINE Own == /\ op'[o].conf = FirstTemplate /\ (op'[o].pc # "crds" => Equipped')
                  /\ op'[o].pc \notin {"delete", "recreate"}
                  /\ lost \/ Furthers(o)'
<1>7. ASSUME NEW owe, NEW retry, Back(o, owe, retry), Equipped' PROVE Own
  <2>1. op'[o].pc = "round" /\ op'[o].owe = owe /\ ~op'[o].again /\ op'[o].conf = op[o].conf
    BY <1>0, <1>7 DEF Back, Fresh, NoPod, Pod
  <2> QED
    BY <1>1, <1>7, <2>1 DEF Furthers
<1>8. ASSUME TryAgain(o), op[o].pc # "crds" PROVE Own
  BY <1>1, <1>e, <1>7, <1>8 DEF TryAgain
<1>9. ASSUME Round(o) PROVE Own
  <2>1. /\ op'[o].pc \in {"crds", "check", "serving"} /\ op'[o].owe = op[o].owe
        /\ ~op'[o].again /\ op'[o].conf = op[o].conf /\ op[o].pc = "round"
    BY <1>0, <1>9 DEF Round, Goto, InStart, OnCourse, Providing, Pod
  <2> QED
    BY <1>1, <1>e, <2>1 DEF Furthers
<1>10. ASSUME HandleCrds(o) PROVE Own
  <2>1. Goto(o, "round") => /\ op'[o].pc = "round" /\ op'[o].owe = op[o].owe
                            /\ op'[o].again = op[o].again /\ op'[o].conf = op[o].conf
    BY <1>0 DEF Goto, Pod
  <2>2. op[o].pc = "crds" /\ ~op[o].again
    BY <1>0, <1>10 DEF HandleCrds, InStart, OnCourse, Providing, Pod
  <2>3. "rbac" \in have \/ faults > 0
    <3>1. "operator" \in have /\ ns = "active"
      BY <1>0 DEF Founded, Ground, Namespaced, Typed, Clustered
    <3> QED
      BY <3>1, Limits DEF Granted, Typed, Clustered
  <2>4. ASSUME Fails("rbac" \in have), Goto(o, "round") PROVE Own
    <3>1. Equipped'
      BY <2>3, <2>4, Limits DEF Fails, Fault, Calm, Equipped, Typed, Clustered
    <3> QED
      BY <1>1, <2>1, <2>2, <2>4, <3>1 DEF Furthers
  <2>5. CASE crds' = Crds /\ Back(o, op[o].owe \ {"crds"}, op[o].retry)
    BY <1>7, <2>5 DEF Equipped
  <2> QED
    BY <1>10, <2>4, <2>5 DEF HandleCrds
<1>11. ASSUME Check(o) PROVE Own
  <2>1. op[o].pc = "check" /\ UNCHANGED <<parts, crds>> /\ ("statefulset" \in parts => image = Version)
    BY <1>11 DEF Check, InStart, Founded, Ground
  <2>2. ASSUME Checked(o, parts # Parts) PROVE Own
    <3>1. /\ op'[o].pc = AfterCheck(op[o].again, parts # Parts) /\ op'[o].owe = op[o].owe
          /\ op'[o].again = (op[o].again \/ ~(parts # Parts)) /\ op'[o].n = 1
          /\ op'[o].conf = op[o].conf
      BY <1>0, <2>2 DEF Checked, Pod
    <3>2. op'[o].pc \notin {"delete", "recreate"}
      BY <3>1 DEF AfterCheck
    <3>3. ASSUME ~lost PROVE Furthers(o)'
      <4>1. op[o].again => parts = Parts
        BY <1>1, <3>3 DEF Furthers
      <4>2. op'[o].again => parts' = Parts
        BY <2>1, <3>1, <4>1
      <4>3. op'[o].pc # "event"
        BY <3>1, <4>1 DEF AfterCheck
      <4> QED
        BY <3>1, <4>2, <4>3 DEF Furthers
    <3> QED
      BY <1>1, <1>e, <2>1, <3>1, <3>2, <3>3
  <2> QED
    BY <1>1, <1>8, <1>11, <2>1, <2>2 DEF Check
<1>12. ASSUME InstallPart(o) PROVE Own
  <2>1. op[o].pc = "install" /\ op[o].n \in 1..5 /\ crds' = crds
    BY <1>0, <1>12 DEF InstallPart, InStart, Pod
  <2>2. CASE TryAgain(o)
    BY <1>8, <2>1, <2>2
  <2>3. CASE ~TryAgain(o)
    <3>1. /\ parts' = parts \cup {PartList[op[o].n]}
          /\ op' = IF op[o].n = 5 THEN [op EXCEPT ![o].pc = "check", ![o].again = TRUE]
                   ELSE [op EXCEPT ![o].n = @ + 1]
      BY <1>12, <2>3, Constants DEF InstallPart
    <3>2. ASSUME ~lost PROVE \A i \in 1..op[o].n : PartList[i] \in parts'
      BY <1>1, <2>1, <3>1, <3>2 DEF Furthers
    <3>3. CASE op[o].n = 5
      <4>1. op'[o].pc = "check" /\ op'[o].owe = op[o].owe /\ op'[o].conf = op[o].conf
        BY <1>0, <3>1, <3>3 DEF Pod
      <4>2. \A p \in Parts : \E i \in 1..5 : p = PartList[i]
        BY DEF Parts, Range, PartList
      <4>3. lost \/ parts' = Parts
        BY <1>4, <3>2, <3>3, <4>2
      <4> QED
        BY <1>1, <1>e, <2>1, <4>1, <4>3 DEF Furthers
    <3>4. CASE op[o].n # 5
      <4>1. /\ op'[o].pc = "install" /\ op'[o].n = op[o].n + 1 /\ op'[o].owe = op[o].owe
            /\ op'[o].again = op[o].again /\ op'[o].conf = op[o].conf
        BY <1>0, <2>1, <3>1, <3>4 DEF Pod
      <4>2. ~lost => \A i \in 1..(op'[o].n - 1) : PartList[i] \in parts'
        BY <2>1, <3>2, <4>1
      <4>3. ~op[o].again \/ lost \/ parts' = Parts
        BY <1>1, <1>4 DEF Furthers
      <4>4. lost \/ Furthers(o)'
        BY <4>1, <4>2, <4>3, Zenon DEF Furthers
      <4> QED
        BY <1>1, <1>e, <2>1, <4>1, <4>4
    <3> QED
      BY <3>3, <3>4
  <2> QED
    BY <2>2, <2>3
<1>13. ASSUME AskReady(o) PROVE Own
  <2>1. op[o].pc = "ready" /\ UNCHANGED <<parts, crds>>
    BY <1>13 DEF AskReady, InStart
  <2>2. ASSUME op' = [op EXCEPT ![o] = Fresh(@.conf)] PROVE Own
    <3>1. op'[o].pc = "crds" /\ ~op'[o].again /\ op'[o].owe = {"crds", "providers"}
          /\ op'[o].conf = op[o].conf
      BY <1>0, <2>2 DEF Fresh, NoPod
    <3> QED
      BY <1>1, <3>1 DEF Furthers
  <2>3. ASSUME stowaway = "ready", Goto(o, "event") PROVE Own
    <3>1. op'[o].pc = "event" /\ op'[o].again = op[o].again /\ op'[o].owe = op[o].owe
          /\ op'[o].conf = op[o].conf
      BY <1>0, <2>3 DEF Goto, Pod
    <3> QED
      BY <1>1, <1>3, <1>e, <2>1, <2>3, <3>1 DEF Furthers
  <2> QED
    BY <1>8, <1>13, <2>1, <2>2, <2>3 DEF AskReady
<1>14. ASSUME WriteEvent(o) PROVE Own
  BY <1>1, <1>e, <1>7, <1>14 DEF WriteEvent, InStart
<1>15. Own
  BY <1>2, <1>9, <1>10, <1>11, <1>12, <1>13, <1>14
<1>16. Sound(o)'
  BY <1>3, <1>15 DEF Sound
<1>17. "Gefyra-Ready" \in events' => Equipped' /\ (lost' \/ Works')
  <2>1. CASE WriteEvent(o)
    <3>1. op[o].pc = "event" /\ op[o].again
      BY <1>0, <2>1 DEF WriteEvent, InStart, OnCourse
    <3> QED
      BY <1>1, <1>3, <1>4, <1>e, <3>1 DEF Works, Furthers
  <2>2. CASE ~WriteEvent(o)
    <3>1. events' = events
      BY <1>2, <2>2 DEF Round, HandleCrds, Check, InstallPart, AskReady
    <3> QED
      BY <1>3, <1>4, <1>e, <3>1 DEF Works, Founded, Said
  <2> QED
    BY <2>1, <2>2
<1>18. Said'
  <2>1. cmd.version = Version /\ cmd.at \in {"idle", "create", "events", "webhook"}
        /\ (cmd.at # "idle" => cmd.report = "none")
        /\ (cmd.at = "webhook" \/ (cmd.report = "ok" /\ cmd.wait) => "Gefyra-Ready" \in events)
    BY DEF Founded, Said
  <2> QED
    BY <1>0, <1>3, <1>4, <1>17, <2>1 DEF Said
<1> QED
  BY <1>5, <1>6, <1>16, <1>18 DEF Founded

(* Operators come, go and die as long as their deployment is there. *)
LEMMA OperatesKeepsFounded ==
  ASSUME Typed, Namespaced, Granted, Founded, NEW o \in Operators, Operates(o) \/ OperatorDies(o)
  PROVE  Founded'
<1>0. op \in [Operators -> Pod]
  BY DEF Typed
<1>1. CASE Start(o)
  BY <1>1, StartKeepsFounded
<1>2. CASE OperatorStarts(o) \/ OperatorDies(o)
  <2>1. /\ UNCHANGED <<ns, have, deployed, crds, doomed, parts, image, stowaway, running, events,
                       cmd, lost>>
        /\ "operator" \in have
    BY <1>2 DEF OperatorStarts, OperatorDies, cluster, provider
  <2>2. op' = [op EXCEPT ![o] = Fresh(FirstTemplate)]
    <3>1. deployed = FirstTemplate
      BY <2>1 DEF Founded, Ground
    <3>2. Live(o) => op[o].conf = FirstTemplate
      BY DEF Founded, Sound
    <3> QED
      BY <1>2, <3>1, <3>2 DEF OperatorStarts, OperatorDies
  <2>3. op'[o].pc = "crds" /\ op'[o].conf = FirstTemplate /\ "crds" \in op'[o].owe /\ ~op'[o].again
        /\ \A p \in Operators \ {o} : op'[p] = op[p]
    BY <1>0, <2>2 DEF Fresh, NoPod
  <2>4. Sound(o)' /\ Live(o)'
    BY <2>3 DEF Sound, Furthers, Live
  <2>e. Equipped => Equipped'
    BY <1>2, <2>1, Limits DEF OperatorStarts, OperatorDies, Fault, Equipped, Typed, Clustered
  <2>5. ASSUME NEW p \in Operators \ {o} PROVE Sound(p)'
    BY <2>1, <2>3, <2>e, StaysSound DEF Founded, Typed, Clustered
  <2>6. Ground' /\ Said'
    BY <2>1, <2>4, <2>e DEF Founded, Ground, Said, Works
  <2> QED
    BY <2>4, <2>5, <2>6 DEF Founded
<1>3. CASE OperatorStops(o)
  <2>1. Live(o)
    BY <1>3 DEF OperatorStops
  <2>2. op[o].conf # deployed \/ "operator" \notin have
    BY <1>3 DEF OperatorStops
  <2> QED
    BY <2>1, <2>2 DEF Founded, Sound, Ground, Namespaced
<1> QED
  BY <1>1, <1>2, <1>3 DEF Operates

(* Steps that take nothing away and leave the operators alone. *)
LEMMA QuietKeepsFounded ==
  ASSUME Typed, Founded, Clustered', Ground', UNCHANGED op, Equipped => Equipped',
         lost' \/ (~lost /\ parts \subseteq parts' /\ (stowaway = "ready" => stowaway' = "ready")),
         cmd'.version = Version /\ cmd'.at \in {"idle", "create", "events", "webhook"},
         cmd'.at # "idle" => cmd'.report = "none",
         cmd'.at = "webhook" \/ (cmd'.report = "ok" /\ cmd'.wait) => "Gefyra-Ready" \in events',
         "Gefyra-Ready" \in events' => "Gefyra-Ready" \in events
  PROVE  Founded'
<1>1. parts' \subseteq Parts
  BY DEF Clustered
<1>2. \A o \in Operators : Sound(o)'
  BY <1>1, StaysSound DEF Founded
<1>3. "Gefyra-Ready" \in events' => Equipped' /\ (lost' \/ Works')
  BY <1>1 DEF Founded, Said, Works
<1> QED
  BY <1>2, <1>3 DEF Founded, Said

LEMMA CommandKeepsFounded ==
  ASSUME Typed, Namespaced, Installing, Founded, Command
  PROVE  Founded'
<1> USE DEF StepsOfInstall
<1>0. /\ cmd \in Cmd /\ Clustered' /\ UNCHANGED op /\ cmd.name = "install"
      /\ cmd.version = Version /\ cmd.at \in {"idle", "create", "events", "webhook"}
      /\ (cmd.at # "idle" => cmd.report = "none")
  BY CommandClustered DEF Typed, Founded, Said, Installing
<1>1. CreateManifest \/ SeeEvents \/ SeeWebhook
  BY <1>0 DEF Command, PatchDeployment, TakeFinalizers, DeleteObject, AwaitClient, DeleteNamespace,
     DeleteCrds, DeleteRbac, At
<1>2. UNCHANGED <<doomed, crds, image, stowaway, running, events, lost>> /\ cmd.report = "none"
  BY <1>0, <1>1 DEF CreateManifest, SeeEvents, SeeWebhook, At
<1>3. \A r \in {"ok", "failed"} : Report(r) =>
        cmd'.at = "idle" /\ cmd'.version = Version /\ cmd'.report = r
  BY <1>0 DEF Report, Cmd
<1> DEFINE Goes == /\ cmd'.version = Version /\ cmd'.at \in {"idle", "create", "events", "webhook"}
                   /\ cmd'.at # "idle" => cmd'.report = "none"
                   /\ cmd'.at = "webhook" \/ (cmd'.report = "ok" /\ cmd'.wait)
                        => "Gefyra-Ready" \in events
           Grows == Ground' /\ parts \subseteq parts'
<1>4. ASSUME CreateManifest PROVE Goes /\ Grows
  <2> DEFINE m == Manifests[cmd.n]
  <2>1. m \in Range(Manifests) /\ cmd.at = "create"
    BY <1>0, <1>4, Constants DEF Cmd, CreateManifest, At
  <2>2. Proceed(m) => Goes
    BY <1>0, <1>2, <2>1 DEF Proceed, Cmd
  <2>3. Goes
    BY <1>3, <1>4, <2>2 DEF CreateManifest
  <2>4. Grows
    <3>1. \/ /\ ns' = IF ns = "absent" THEN "active" ELSE ns
             /\ have' = have \cup ({m} \ {"namespace", "service"})
             /\ parts' = parts \cup ({m} \cap Parts)
             /\ deployed' = IF m = "operator" /\ m \notin have
                            THEN [field \in 1..3 |-> cmd.version] ELSE deployed
          \/ UNCHANGED <<ns, have, parts, deployed>>
      BY <1>4 DEF CreateManifest
    <3>2. m # "statefulset"
      BY <2>1, Constants
    <3>3. [field \in 1..3 |-> cmd.version] = FirstTemplate
      BY <1>0 DEF FirstTemplate
    <3> HIDE DEF m
    <3> QED
      BY <1>2, <3>1, <3>2, <3>3 DEF Founded, Ground
  <2> QED
    BY <2>3, <2>4
<1>5. ASSUME SeeEvents PROVE Goes /\ Grows
  <2>1. cmd' = [cmd EXCEPT !.at = "webhook", !.n = 1] /\ "Gefyra-Ready" \in events
        /\ UNCHANGED <<ns, have, parts, deployed>>
    BY <1>5 DEF SeeEvents
  <2>2. Goes
    BY <1>0, <1>2, <2>1 DEF Cmd
  <2>3. Grows
    BY <1>2, <2>1 DEF Founded, Ground
  <2> QED
    BY <2>2, <2>3
<1>6. ASSUME SeeWebhook PROVE Goes /\ Grows
  <2>1. cmd.at = "webhook" /\ UNCHANGED <<ns, have, parts, deployed>>
    BY <1>6 DEF SeeWebhook, At
  <2>2. Goes
    BY <1>3, <1>6, <2>1 DEF SeeWebhook, Founded, Said
  <2>3. Grows
    BY <1>2, <2>1 DEF Founded, Ground
  <2> QED
    BY <2>2, <2>3
<1>7. Goes /\ Grows
  BY <1>1, <1>4, <1>5, <1>6
<1>8. Equipped => Equipped'
  BY <1>2, FaultsCount DEF Next, Equipped
<1> QED
  BY <1>0, <1>2, <1>7, <1>8, QuietKeepsFounded

LEMMA KubernetesKeepsFounded ==
  ASSUME Typed, Namespaced, Granted, Founded, Kubernetes, Typed'
  PROVE  Founded'
<1> USE DEF provider, cluster, history
<1>1. ~NamespaceEmptied /\ ~NamespaceGone /\ \A k \in Crds : ~CrdGone(k)
  BY DEF NamespaceEmptied, NamespaceGone, CrdGone, Founded, Ground
<1>2. CASE \E o \in Operators : OperatorDies(o)
  BY <1>2, OperatesKeepsFounded DEF OperatorDies
<1>3. CASE (\E k \in Crds : Collect(k)) \/ WebhookUp \/ WebhookDown \/ Healthcheck \/ StowawayPod
  <2>1. /\ UNCHANGED <<ns, have, deployed, crds, doomed, parts, image, op, cmd, lost>>
        /\ ("Gefyra-Ready" \in events' <=> "Gefyra-Ready" \in events)
    BY <1>3 DEF Collect, WebhookUp, WebhookDown, Healthcheck, StowawayPod
  <2>2. Ground' /\ (lost \/ (stowaway = "ready" => stowaway' = "ready"))
    <3>1. CASE StowawayPod
      <4>1. /\ stowaway' \in {"none", "starting", "ready"}
            /\ stowaway' # "none" => stowaway # "none" \/ "statefulset" \in parts
            /\ stowaway' # "none" => (running' = running /\ stowaway # "none") \/ running' = image
            /\ stowaway' # "none" => (stowaway # "none" \/ "statefulset" \in parts)
        BY <3>1, Constants DEF StowawayPod
      <4>2. Ground'
        BY <2>1, <4>1 DEF Founded, Ground
      <4>3. ASSUME ~lost, stowaway = "ready", stowaway' # "ready" PROVE FALSE
        <5>1. "statefulset" \notin parts \/ running # image
          BY <3>1, <4>3 DEF StowawayPod
        <5> QED
          BY <4>3, <5>1 DEF Founded, Ground
      <4> QED
        BY <4>2, <4>3
    <3>2. CASE UNCHANGED <<stowaway, running>>
      BY <2>1, <3>2 DEF Founded, Ground
    <3> QED
      BY <1>3, <3>1, <3>2 DEF Collect, WebhookUp, WebhookDown, Healthcheck
  <2>3. Equipped => Equipped'
    BY <2>1, FaultsCount DEF Next, Equipped
  <2> QED
    BY <2>1, <2>2, <2>3, QuietKeepsFounded DEF Founded, Said, Typed
<1> QED
  BY <1>1, <1>2, <1>3 DEF Kubernetes, Cleanup

LEMMA CommandKeepsName ==
  ASSUME Typed, Command PROVE cmd'.name = cmd.name /\ cmd'.fresh = cmd.fresh
<1>0. cmd \in Cmd
  BY DEF Typed
<1>1. \A r : Report(r) => cmd'.name = cmd.name /\ cmd'.fresh = cmd.fresh
  BY <1>0 DEF Report, Cmd
<1>2. NextKind => cmd'.name = cmd.name /\ cmd'.fresh = cmd.fresh
  BY <1>0 DEF NextKind, Cmd
<1>3. \A m : Proceed(m) => cmd'.name = cmd.name /\ cmd'.fresh = cmd.fresh
  BY <1>0 DEF Proceed, Cmd
<1>4. CASE CreateManifest \/ SeeEvents \/ SeeWebhook \/ PatchDeployment
  BY <1>0, <1>1, <1>3, <1>4 DEF CreateManifest, SeeEvents, SeeWebhook, PatchDeployment, Cmd
<1>5. CASE \/ TakeFinalizers \/ DeleteObject \/ AwaitClient \/ DeleteNamespace \/ DeleteCrds
           \/ DeleteRbac
  BY <1>0, <1>1, <1>2, <1>5 DEF TakeFinalizers, DeleteObject, AwaitClient, DeleteNamespace,
     DeleteCrds, DeleteRbac, Cmd
<1> QED
  BY <1>4, <1>5 DEF Command

LEMMA OthersKeepFounded ==
  ASSUME Typed, Founded, Typed',
         \/ \E k \in Crds : Use(k) \/ Handlers(k)
         \/ \E p \in Deletable : LosePart(p)
  PROVE  Founded'
<1> USE DEF provider, cluster, history
<1>0. Equipped => Equipped'
  <2>1. faults \in Nat /\ faults' \in {faults, faults + 1} /\ crds' = crds
    BY Limits DEF Use, Handlers, Hold, Finish, LosePart, Fault, Typed, Clustered
  <2> QED
    BY <2>1 DEF Equipped
<1>1. CASE \E k \in Crds : Use(k) \/ Handlers(k)
  <2>1. UNCHANGED <<ns, have, deployed, crds, doomed, parts, image, stowaway, running, op, events, cmd, lost>>
    BY <1>1 DEF Use, Handlers, Hold, Finish
  <2>2. Ground'
    BY <2>1 DEF Founded, Ground
  <2> QED
    BY <1>0, <2>1, <2>2, QuietKeepsFounded DEF Founded, Said, Typed
<1>2. CASE \E p \in Deletable : LosePart(p)
  <2>1. /\ UNCHANGED <<ns, have, deployed, crds, doomed, image, stowaway, running, op, events, cmd>>
        /\ lost' /\ parts' \subseteq parts
    BY <1>2 DEF LosePart
  <2>2. Ground'
    BY <2>1 DEF Founded, Ground
  <2> QED
    BY <1>0, <2>1, <2>2, QuietKeepsFounded DEF Founded, Said, Typed
<1> QED
  BY <1>1, <1>2

LEMMA NextKeepsVacant ==
  ASSUME Typed, Namespaced, Vacant, Next PROVE Vacant'
<1> SUFFICES ASSUME ns' = "absent" PROVE events' = {} /\ stowaway' = "none"
  BY DEF Vacant
<1> USE DEF provider, cluster, history, StepsOfInstall, StepsOfUninstall, StepsOfStart, AroundStart
<1>1. CASE ns # "absent"
  <2>1. NamespaceGone
    <3>1. ~(\E o \in Operators : Operates(o)) /\ ~(\E k \in Crds : Handlers(k)) /\ ~Users
      BY <1>1 DEF Operates, Start, Round, HandleCrds, Check, DeleteStatefulset, Recreate, InstallPart,
         AskReady, WriteEvent, OperatorStarts, OperatorStops, Handlers, Hold, Finish, Users, Use,
         LosePart, Install, Up, Begin
    <3>2. ~Command
      BY <1>1 DEF Command, CreateManifest, SeeEvents, SeeWebhook, PatchDeployment, TakeFinalizers,
         DeleteObject, AwaitClient, DeleteNamespace, DeleteCrds, DeleteRbac
    <3> QED
      BY <1>1, <3>1, <3>2 DEF Next, Kubernetes, NamespaceEmptied, Cleanup, Collect, CrdGone, OperatorDies,
         WebhookUp, WebhookDown, Healthcheck, StowawayPod
  <2> QED
    BY <2>1 DEF NamespaceGone
<1>2. CASE ns = "absent"
  <2>1. parts = {} /\ events = {} /\ stowaway = "none"
    BY <1>2 DEF Namespaced, Vacant
  <2>2. CASE \E o \in Operators : Operates(o)
    BY <1>2, <2>1, <2>2 DEF Operates, Start, Round, HandleCrds, Check, DeleteStatefulset, Recreate,
       InstallPart, AskReady, WriteEvent, OperatorStarts, OperatorStops, CanWrite
  <2>3. CASE (\E k \in Crds : Handlers(k)) \/ Users
    BY <2>1, <2>3 DEF Handlers, Hold, Finish, Users, Use, LosePart, Install, Up, Begin
  <2>4. CASE Command
    BY <2>1, <2>4 DEF Command, CreateManifest, SeeEvents, SeeWebhook, PatchDeployment, TakeFinalizers,
       DeleteObject, AwaitClient, DeleteNamespace, DeleteCrds, DeleteRbac
  <2>5. CASE Kubernetes
    BY <1>2, <2>1, <2>5, Constants DEF Kubernetes, NamespaceEmptied, NamespaceGone, Cleanup, Collect,
       CrdGone, OperatorDies, WebhookUp, WebhookDown, Healthcheck, StowawayPod
  <2> QED
    BY <2>2, <2>3, <2>4, <2>5 DEF Next
<1> QED
  BY <1>1, <1>2

LEMMA NextKeepsFirst == InstallInv /\ FirstInv /\ [Next]_vars => FirstInv'
<1> SUFFICES ASSUME InstallInv, FirstInv, [Next]_vars PROVE FirstInv'
  OBVIOUS
<1>0. Typed /\ Namespaced /\ Granted /\ Vacant /\ Typed'
  BY NextKeepsInv DEF InstallInv, FirstInv
<1>1. CASE UNCHANGED vars
  BY <1>1 DEF vars, cluster, provider, history, FirstInv, Vacant, Installing, Founded, Ground, Said,
     Sound, Furthers, Live, Works, Equipped
<1>2. CASE Next
  <2>1. Vacant'
    BY <1>0, <1>2, NextKeepsVacant
  <2>2. ASSUME Installing' PROVE Founded'
    <3>1. CASE \E wait \in BOOLEAN : Install(wait)
      BY <1>0, <2>2, <3>1, BeginFounds
    <3>2. CASE (\E v \in Updates : Begin("update", "patch", FALSE, v))
               \/ Begin("uninstall", "patch", FALSE, Version)
      BY <2>2, <3>2 DEF Begin, Installing
    <3>3. ASSUME cmd' = cmd PROVE Founded
      BY <2>2, <3>3 DEF FirstInv, Installing
    <3>4. CASE Command
      <4>1. Installing
        <5>1. cmd'.name = cmd.name /\ cmd'.fresh = cmd.fresh
          BY <1>0, <3>4, CommandKeepsName
        <5> QED
          BY <2>2, <5>1 DEF Installing
      <4> QED
        BY <1>0, <3>4, <4>1, CommandKeepsFounded DEF FirstInv
    <3>5. CASE Kubernetes
      <4>1. cmd' = cmd
        BY <3>5 DEF Kubernetes, NamespaceEmptied, NamespaceGone, Cleanup, Collect, CrdGone, OperatorDies,
           WebhookUp, WebhookDown, Healthcheck, StowawayPod
      <4> QED
        BY <1>0, <3>3, <3>5, <4>1, KubernetesKeepsFounded
    <3>6. ASSUME NEW o \in Operators, Operates(o) PROVE Founded'
      <4>1. cmd' = cmd
        BY <3>6 DEF Operates, Start, Round, HandleCrds, Check, DeleteStatefulset, Recreate, InstallPart,
           AskReady, WriteEvent, OperatorStarts, OperatorStops, StepsOfStart, AroundStart
      <4> QED
        BY <1>0, <3>3, <3>6, <4>1, OperatesKeepsFounded
    <3>7. CASE (\E k \in Crds : Use(k) \/ Handlers(k)) \/ (\E p \in Deletable : LosePart(p))
      <4>1. cmd' = cmd
        BY <3>7 DEF Use, Handlers, Hold, Finish, LosePart
      <4> QED
        BY <1>0, <3>3, <3>7, <4>1, OthersKeepFounded
    <3>8. Up => \E wait \in BOOLEAN : Install(wait)
      BY DEF Up
    <3> QED
      BY <1>2, <3>1, <3>2, <3>4, <3>5, <3>6, <3>7, <3>8 DEF Next, Users
  <2> QED
    BY <2>1, <2>2 DEF FirstInv
<1> QED
  BY <1>1, <1>2

(* Nothing that a first installation needs is lost on the way. *)
THEOREM FirstInvariant == Spec => []FirstInv
<1>1. Init => FirstInv
  BY DEF Init, FirstInv, Vacant, Installing, NoCommand
<1> QED
  BY <1>1, InstallInvariant, NextKeepsFirst, PTL DEF Spec

(* A first installation that has waited and reports success works: all of  *)
(* Stowaway is there and its pod is ready, unless somebody has deleted a   *)
(* part, whatever calls have failed, and however often operators have      *)
(* died; the CRDs are there if no call failed and no operator died.  After *)
(* a failure the success may be reported without them (startup.py:71-88).  *)
THEOREM FirstInstallationWorks == Spec => []InstalledWorks
<1>1. FirstInv => InstalledWorks
  <2> SUFFICES ASSUME Founded, cmd.report = "ok", cmd.wait
               PROVE  /\ crds = Crds \/ faults > 0
                      /\ lost \/ (parts = Parts /\ stowaway = "ready")
    BY DEF FirstInv, Installing, Installed, InstalledWorks
  <2> QED
    BY DEF Founded, Said, Equipped, Works
<1> QED
  BY <1>1, FirstInvariant, PTL
=============================================================================
