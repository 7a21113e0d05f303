---------------------------- MODULE GefyraInstall ----------------------------
(***************************************************************************)
(* The installation of Gefyra: gefyra install, up, operator update and     *)
(* uninstall on the command line (api/install.py, api/operator.py,         *)
(* misc/uninstall.py), the start of the operator with the installation of  *)
(* Stowaway (handler/startup.py, connection/stowaway/components.py), and   *)
(* what Kubernetes does with the objects they make.                        *)
(*                                                                         *)
(* A step is one call to the Kubernetes API, but the five reads of         *)
(* installed() are one step, and so are the three CRDs of handle_crds.     *)
(* One command runs at a time.  An operator that replaces another may      *)
(* start before that one has gone: a deployment rolls over.                *)
(*                                                                         *)
(* Abstractions: at most one custom resource of a kind; its handlers are   *)
(* one step here, they have modules of their own; an event does not        *)
(* expire; all objects of a manifest component but the two deployments     *)
(* are one.                                                                *)
(***************************************************************************)
EXTENDS Integers, FiniteSets, Sequences, Functions

CONSTANTS
  Operators,       \* the pods the operator's deployment may have at a time
  Version,         \* that is installed
  Updates,         \* versions to update to
  Used,            \* the kinds of which users create an object
  Deletable,       \* the parts of Stowaway that someone may delete
  StartupTimeout,  \* CONNECTION_PROVIDER_STARTUP_TIMEOUT, in retries
  MaxCommands,     \* bound
  Faulty,          \* bound: the commands that meet faults; others begin before any
  MaxFaults        \* bound: calls that fail, pods that die, parts that are deleted

(* gefyrabridgemounts, gefyrabridges, gefyraclients, in the order in which *)
(* uninstall removes their objects.                                        *)
Kinds == <<"mount", "bridge", "client">>
Crds  == Range(Kinds)

(* In the order of COMPONENTS; service is Stowaway's part of that name.    *)
Manifests == <<"namespace", "rbac", "admission", "operator", "webhook", "service">>

(* In the order of install(). *)
PartList == <<"serviceaccount", "proxyroutes", "config", "statefulset", "service">>
Parts    == Range(PartList)

ASSUME OperatorsAssumption == IsFiniteSet(Operators) /\ Operators # {}
ASSUME KindsAssumption     == Used \subseteq Crds /\ Deletable \subseteq Parts
ASSUME LimitsAssumption    == {StartupTimeout, MaxCommands, MaxFaults} \subseteq Nat

Versions == Updates \cup {Version}

VARIABLES
  ns,         \* the namespace: absent, active, terminating
  have,       \* rbac, admission, and the deployments: operator, webhook
  deployed,   \* versions in the operator's template: its image and its env
  crds,       \* present CRDs
  doomed,     \* those of them that are being deleted
  objects,    \* the custom resource of a kind: none, held (by a finalizer),
              \* bare (without), going (deleted, but held)
  parts,      \* of Stowaway that exist
  image,      \* the version of Stowaway's statefulset
  stowaway,   \* its pod: none, starting, ready
  running,    \* the version of that pod
  entries,    \* which of the two config maps has users' entries
  op,         \* the operator's pods
  webhook,    \* whether the webhook's pod is up
  events,     \* the ready events
  cmd,        \* the command that runs
  commands, faults,
  lost,       \* whether someone has deleted a part
  broken,     \* whether an operator has deleted the statefulset and not
              \* come to make it anew
  overlapped  \* whether two operators have been starting at a time, or one
              \* has been replaced while it was starting

cluster  == <<ns, have, deployed, crds, doomed>>
provider == <<parts, image, stowaway, running, entries>>
history  == <<commands, faults, lost, broken, overlapped>>
vars     == <<cluster, objects, provider, op, webhook, events, cmd, history>>

(* conf: the template it was made from; owe: the startup handlers that     *)
(* have not succeeded; n: the part install() is at; again: the second      *)
(* installed(); missing: what the check has found missing.                 *)
NoPod == [pc |-> "none", conf |-> <<>>, owe |-> {}, retry |-> 0, n |-> 1,
          again |-> FALSE, missing |-> FALSE]
Fresh(conf) == [NoPod EXCEPT !.pc = "crds", !.conf = conf, !.owe = {"crds", "providers"}]

(* fresh: the command has found nothing of an installation. *)
NoCommand == [name |-> "none", at |-> "idle", n |-> 1, wait |-> FALSE, fresh |-> FALSE,
              version |-> Version, report |-> "none"]

Init ==
  /\ ns = "absent" /\ have = {} /\ deployed = <<>> /\ crds = {} /\ doomed = {}
  /\ objects = [k \in Crds |-> "none"]
  /\ parts = {} /\ image = Version /\ stowaway = "none" /\ running = Version
  /\ entries = {}
  /\ op = [o \in Operators |-> NoPod]
  /\ webhook = FALSE /\ events = {}
  /\ cmd = NoCommand
  /\ commands = 0 /\ faults = 0
  /\ lost = FALSE /\ broken = FALSE /\ overlapped = FALSE

Fault   == cmd.name \in Faulty /\ faults < MaxFaults /\ faults' = faults + 1
Calm    == UNCHANGED faults
Fails(possible) == Fault \/ (~possible /\ Calm)
Live(o) == op[o].pc # "none"
Starting(o) == op[o].pc \notin {"none", "serving"}
Serving == \E o \in Operators : op[o].pc = "serving"

(* The operator may change an object: it has its role, and the admission   *)
(* webhook, which must not fail, is there to be asked.                     *)
Allowed == "rbac" \in have /\ ("admission" \notin have \/ webhook)

-----------------------------------------------------------------------------
(* Users, and the operator's work for them.                                *)

(* What users' objects put into the config maps. *)
EntryOf(k) == CASE k = "bridge" -> {"proxyroutes"} [] k = "client" -> {"config"} [] OTHER -> {}

Use(k) ==
  /\ k \in Used
  /\ cmd.at = "idle"
  /\ ns = "active" /\ Serving /\ webhook /\ k \in crds \ doomed
  /\ parts = Parts /\ stowaway = "ready"
  /\ objects[k] = "none"
  /\ objects' = [objects EXCEPT ![k] = "held"]
  /\ entries' = entries \cup EntryOf(k)
  /\ UNCHANGED <<cluster, parts, image, stowaway, running, op, webhook, events, cmd, history>>

(* kopf puts the finalizer back, and runs the delete handler of an object  *)
(* that it finds deleted.                                                  *)
Hold(k) ==
  /\ Serving /\ Allowed /\ objects[k] = "bare"
  /\ objects' = [objects EXCEPT ![k] = "held"]
  /\ UNCHANGED <<cluster, provider, op, webhook, events, cmd, history>>

Finish(k) ==
  /\ Serving /\ Allowed /\ objects[k] = "going"
  /\ objects' = [objects EXCEPT ![k] = "none"]
  /\ entries' = entries \ EntryOf(k)
  /\ UNCHANGED <<cluster, parts, image, stowaway, running, op, webhook, events, cmd, history>>

-----------------------------------------------------------------------------
(* Kubernetes.                                                             *)

Deleted(s) == CASE s = "held" -> "going" [] s = "bare" -> "none" [] OTHER -> s

(* The namespace, or the CRD, is being deleted: so is what is in it. *)
Collect(k) ==
  /\ objects[k] \in {"held", "bare"}
  /\ ns = "terminating" \/ k \in doomed
  /\ objects' = [objects EXCEPT ![k] = Deleted(@)]
  /\ UNCHANGED <<cluster, provider, op, webhook, events, cmd, history>>

CrdGone(k) ==
  /\ k \in doomed /\ objects[k] = "none"
  /\ crds' = crds \ {k} /\ doomed' = doomed \ {k}
  /\ UNCHANGED <<ns, have, deployed, objects, provider, op, webhook, events, cmd, history>>

(* The namespace's controller takes the deployments and Stowaway at any    *)
(* time, and the namespace itself when nothing is left in it.              *)
NamespaceEmptied ==
  /\ ns = "terminating"
  /\ have \cap {"operator", "webhook"} # {} \/ parts # {} \/ events # {}
  /\ have' = have \ {"operator", "webhook"}
  /\ parts' = {} /\ entries' = {} /\ events' = {}
  /\ UNCHANGED <<ns, deployed, crds, doomed, objects, image, stowaway, running, op, webhook,
                 cmd, history>>

NamespaceGone ==
  /\ ns = "terminating"
  /\ have \cap {"operator", "webhook"} = {} /\ parts = {} /\ events = {}
  /\ stowaway = "none" /\ ~webhook /\ \A o \in Operators : ~Live(o)
  /\ \A k \in Crds : objects[k] = "none"
  /\ ns' = "absent"
  /\ UNCHANGED <<have, deployed, crds, doomed, objects, provider, op, webhook, events, cmd, history>>

(* A pod of the current template is started beside older ones, which go    *)
(* when it runs (there is no readiness probe).                             *)
OperatorStarts(o) ==
  /\ "operator" \in have
  /\ ~Live(o) /\ o = CHOOSE free \in Operators : ~Live(free)
  /\ \A p \in Operators : Live(p) => op[p].conf # deployed
  /\ op' = [op EXCEPT ![o] = Fresh(deployed)]
  /\ overlapped' = (overlapped \/ \E p \in Operators : Starting(p))
  /\ UNCHANGED <<cluster, objects, provider, webhook, events, cmd, commands, faults, lost, broken>>

OperatorStops(o) ==
  /\ Live(o)
  /\ \/ "operator" \notin have
     \/ /\ op[o].conf # deployed
        /\ \E p \in Operators : Live(p) /\ op[p].conf = deployed
  /\ op' = [op EXCEPT ![o] = NoPod]
  /\ overlapped' = (overlapped \/ ("operator" \in have /\ Starting(o)))
  /\ UNCHANGED <<cluster, objects, provider, webhook, events, cmd, commands, faults, lost, broken>>

(* Its container dies and is restarted. *)
OperatorDies(o) ==
  /\ Live(o) /\ "operator" \in have
  /\ Fault
  /\ op' = [op EXCEPT ![o] = Fresh(@.conf)]
  /\ broken' = (broken \/ op[o].pc = "recreate")
  /\ overlapped' = (overlapped \/ \E p \in Operators \ {o} : Starting(p))
  /\ UNCHANGED <<cluster, objects, provider, webhook, events, cmd, commands, lost>>

WebhookUp ==
  /\ "webhook" \in have /\ ~webhook
  /\ webhook' = TRUE
  /\ UNCHANGED <<cluster, objects, provider, op, events, cmd, history>>

WebhookDown ==
  /\ webhook
  /\ \/ "webhook" \notin have /\ Calm
     \/ Fault
  /\ webhook' = FALSE
  /\ UNCHANGED <<cluster, objects, provider, op, events, cmd, commands, lost, broken, overlapped>>

(* The liveness probe asks the webhook, which writes its event: again and  *)
(* again, so that a failing call does no harm.                             *)
Healthcheck ==
  /\ webhook /\ {"rbac", "admission"} \subseteq have /\ ns = "active"
  /\ events' = events \cup {"Gefyra-Webhook-Ready"}
  /\ UNCHANGED <<cluster, objects, provider, op, webhook, cmd, history>>

StowawayPod ==
  /\ \/ /\ stowaway = "none" /\ Parts \ {"service"} \subseteq parts
        /\ stowaway' = "starting" /\ running' = image
     \/ stowaway = "starting" /\ stowaway' = "ready" /\ UNCHANGED running
     \/ /\ stowaway # "none" /\ ("statefulset" \notin parts \/ running # image)
        /\ stowaway' = "none" /\ UNCHANGED running
  /\ UNCHANGED <<cluster, objects, parts, image, entries, op, webhook, events, cmd, history>>

(* Someone deletes a part of Stowaway. *)
LosePart(p) ==
  /\ Fault
  /\ p \in parts /\ ns = "active"
  /\ parts' = parts \ {p} /\ entries' = entries \ {p}
  /\ lost' = TRUE
  /\ UNCHANGED <<cluster, objects, image, stowaway, running, op, webhook, events, cmd,
                 commands, broken, overlapped>>

-----------------------------------------------------------------------------
(* The start of an operator.                                               *)

InStart(o, pc) == op[o].pc = pc
Goto(o, pc)    == op' = [op EXCEPT ![o].pc = pc]

(* The attempts are counted as far as it matters. *)
Later(retry) == IF retry > StartupTimeout THEN retry ELSE retry + 1

Back(o, owe, retry) ==
  op' = [op EXCEPT ![o] = [Fresh(@.conf) EXCEPT !.pc = "round", !.owe = owe, !.retry = retry]]

(* A handler that fails is tried again, whichever error it was. *)
TryAgain(o) == Back(o, op[o].owe, Later(op[o].retry))

(* A write of the operator goes through. *)
CanWrite == ns = "active" /\ "rbac" \in have

AroundStart  == <<ns, have, deployed, doomed, objects, stowaway, running, webhook, cmd,
                  commands, lost, overlapped>>
StepsOfStart == <<AroundStart, broken>>

(* Mutant of Round: the operator is started when Stowaway is. *)
RoundOfProviders(o) ==
  /\ InStart(o, "round")
  /\ IF "providers" \in op[o].owe THEN op' = [op EXCEPT ![o].pc = "check", ![o].again = FALSE]
     ELSE Goto(o, "serving")
  /\ UNCHANGED <<StepsOfStart, crds, parts, image, entries, events, faults>>

(* kopf goes on with a handler that has not succeeded yet. *)
Round(o) ==
  /\ InStart(o, "round")
  /\ \/ "crds" \in op[o].owe /\ Goto(o, "crds")
     \/ "providers" \in op[o].owe
        /\ op' = [op EXCEPT ![o].pc = "check", ![o].again = FALSE]
     \/ op[o].owe = {} /\ Goto(o, "serving")
  /\ UNCHANGED <<StepsOfStart, crds, parts, image, entries, events, faults>>

(* handle_crds.  A CRD that is there, if only to be deleted, will do. *)
HandleCrds(o) ==
  /\ InStart(o, "crds")
  /\ \/ /\ "rbac" \in have
        /\ crds' = Crds
        /\ Back(o, op[o].owe \ {"crds"}, op[o].retry)
        /\ Calm
     \/ /\ Fails("rbac" \in have)
        /\ \E done \in {{}, {"bridge"}, {"bridge", "client"}} :
             crds' = IF "rbac" \in have THEN crds \cup done ELSE crds
        /\ Goto(o, "round")
  /\ UNCHANGED <<StepsOfStart, parts, image, entries, events>>

(* After a check: install if something is missing, the first time; the     *)
(* second time a missing part counts as nothing to wait for.               *)
AfterCheck(again, missing) ==
  IF missing THEN (IF again THEN "event" ELSE "install")
  ELSE (IF again THEN "ready" ELSE "check")

(* Mutant of Checked: a Stowaway of another version counts as missing. *)
CheckedVersion(o, missing) ==
  op' = [op EXCEPT ![o].pc = AfterCheck(op[o].again, missing \/ op[o].pc = "recreate"),
                   ![o].again = @ \/ ~(missing \/ op[o].pc = "recreate"), ![o].n = 1,
                   ![o].missing = FALSE]

Checked(o, missing) ==
  op' = [op EXCEPT ![o].pc = AfterCheck(op[o].again, missing),
                   ![o].again = @ \/ ~missing, ![o].n = 1, ![o].missing = FALSE]

(* installed(): all five are asked for; a statefulset of another version   *)
(* is deleted and made anew meanwhile.  One that somebody else has deleted *)
(* since it was read is missing.                                           *)
Check(o) ==
  /\ InStart(o, "check")
  /\ \/ /\ "statefulset" \in parts /\ image # op[o].conf[2]
        /\ op' = [op EXCEPT ![o].pc = "delete", ![o].missing = parts # Parts]
        /\ Calm
     \/ /\ ~("statefulset" \in parts /\ image # op[o].conf[2])
        /\ Checked(o, parts # Parts)
        /\ Calm
     \/ Fault /\ TryAgain(o)
  /\ UNCHANGED <<StepsOfStart, crds, parts, image, entries, events>>

DeleteStatefulset(o) ==
  /\ InStart(o, "delete")
  /\ \/ /\ "rbac" \in have /\ "statefulset" \in parts
        /\ parts' = parts \ {"statefulset"}
        /\ Goto(o, "recreate")
        /\ Calm
     \/ /\ "rbac" \in have /\ "statefulset" \notin parts
        /\ Checked(o, TRUE)
        /\ Calm /\ UNCHANGED parts
     \/ Fails("rbac" \in have) /\ UNCHANGED parts /\ TryAgain(o)
  /\ UNCHANGED <<StepsOfStart, crds, image, entries, events>>

Recreate(o) ==
  /\ InStart(o, "recreate")
  /\ \/ /\ CanWrite
        /\ parts' = parts \cup {"statefulset"} /\ image' = op[o].conf[2]
        /\ Checked(o, op[o].missing)
        /\ Calm /\ UNCHANGED broken
     \/ Fails(CanWrite) /\ broken' = TRUE /\ UNCHANGED <<parts, image>> /\ TryAgain(o)
  /\ UNCHANGED <<AroundStart, crds, entries, events>>

(* install(): a part that is there is patched, but for the two config      *)
(* maps, which are replaced by empty ones.                                 *)
InstallPart(o) ==
  LET p == PartList[op[o].n] IN
  /\ InStart(o, "install")
  /\ \/ /\ CanWrite
        /\ parts' = parts \cup {p}
        /\ image' = IF p = "statefulset" THEN op[o].conf[2] ELSE image
        /\ entries' = entries \ {p}
        /\ op' = IF op[o].n = Len(PartList)
                   THEN [op EXCEPT ![o].pc = "check", ![o].again = TRUE]
                   ELSE [op EXCEPT ![o].n = @ + 1]
        /\ Calm
     \/ Fails(CanWrite) /\ UNCHANGED <<parts, image, entries>> /\ TryAgain(o)
  /\ UNCHANGED <<StepsOfStart, crds, events>>

(* Mutant of AskReady: it does not wait. *)
AskReadyNot(o) ==
  /\ InStart(o, "ready")
  /\ Goto(o, "event")
  /\ UNCHANGED <<StepsOfStart, crds, parts, image, entries, events, faults>>

(* ready() asks for any pod of Stowaway.  PermanentError ends the process, *)
(* which is started again.                                                 *)
AskReady(o) ==
  /\ InStart(o, "ready")
  /\ \/ stowaway = "ready" /\ Goto(o, "event") /\ Calm
     \/ stowaway # "ready" /\ op[o].retry <= StartupTimeout /\ TryAgain(o) /\ Calm
     \/ /\ stowaway # "ready" /\ op[o].retry > StartupTimeout
        /\ op' = [op EXCEPT ![o] = Fresh(@.conf)] /\ Calm
     \/ Fault /\ TryAgain(o)
  /\ UNCHANGED <<StepsOfStart, crds, parts, image, entries, events>>

(* Mutant of WriteEvent: only the first attempt says so. *)
WriteEventAtOnce(o) ==
  /\ InStart(o, "event")
  /\ events' = IF op[o].retry = 0 THEN events \cup {"Gefyra-Ready"} ELSE events
  /\ Back(o, op[o].owe \ {"providers"}, 0)
  /\ UNCHANGED <<StepsOfStart, crds, parts, image, entries, faults>>

(* An event that cannot be written is logged, and that is all. *)
WriteEvent(o) ==
  /\ InStart(o, "event")
  /\ \/ CanWrite /\ events' = events \cup {"Gefyra-Ready"} /\ Calm
     \/ Fails(CanWrite) /\ UNCHANGED events
  /\ Back(o, op[o].owe \ {"providers"}, 0)
  /\ UNCHANGED <<StepsOfStart, crds, parts, image, entries>>

Start(o) ==
  \/ Round(o) \/ HandleCrds(o) \/ Check(o) \/ DeleteStatefulset(o) \/ Recreate(o)
  \/ InstallPart(o) \/ AskReady(o) \/ WriteEvent(o)

-----------------------------------------------------------------------------
(* The command line: install, and up.                                      *)

At(name, at)  == cmd.name = name /\ cmd.at = at
Report(r)     == cmd' = [cmd EXCEPT !.at = "idle", !.report = r, !.n = 1, !.version = Version]
StepsOfInstall == <<doomed, crds, objects, image, stowaway, running, entries, op, webhook,
                    events, commands, lost, broken, overlapped>>

Begin(name, at, wait, version) ==
  /\ cmd.at = "idle" /\ commands < MaxCommands /\ (faults = 0 \/ name \in Faulty)
  /\ commands' = commands + 1
  /\ cmd' = [name |-> name, at |-> at, n |-> 1, wait |-> wait, version |-> version,
             fresh |-> ns = "absent" /\ doomed = {}, report |-> "none"]
  /\ UNCHANGED <<cluster, objects, provider, op, webhook, events, faults, lost, broken, overlapped>>

(* status(), for a machine without Cargo: not DOWN when the operator and   *)
(* Stowaway are ready; the webhook is taken to be what the operator is.    *)
Incomplete ==
  /\ ns # "absent" /\ "operator" \in have
  /\ \E o \in Operators : Live(o)
  /\ stowaway = "ready"

Install(wait) == Begin("install", "create", wait, Version)

(* up installs, and waits, when there is nothing that works. *)
Up == ~Incomplete /\ Install(TRUE)

(* ready_replicas == 1 *)
OperatorRunning == "operator" \in have /\ Cardinality({o \in Operators : Live(o)}) = 1

Waits(m) == IF m = "operator" THEN ~OperatorRunning ELSE cmd.wait

(* 409 and 422 do not matter, everything else ends the command.  Before    *)
(* the operator's deployment, it decides anew whether to wait.             *)
Proceed(m) ==
  cmd' = IF cmd.n < Len(Manifests) THEN [cmd EXCEPT !.n = @ + 1, !.wait = Waits(m)]
         ELSE IF cmd.wait THEN [cmd EXCEPT !.at = "events"]
         ELSE [cmd EXCEPT !.at = "idle", !.n = 1, !.report = "ok"]

CreateManifest ==
  LET m == Manifests[cmd.n] IN
  /\ At("install", "create")
  /\ \/ /\ m = "namespace" \/ ns = "active"
        /\ ns' = IF ns = "absent" THEN "active" ELSE ns
        /\ have' = have \cup ({m} \ {"namespace", "service"})
        /\ parts' = parts \cup ({m} \cap Parts)
        /\ deployed' = IF m = "operator" /\ m \notin have
                       THEN [field \in 1..3 |-> cmd.version] ELSE deployed
        /\ Proceed(m)
        /\ Calm
     \/ /\ Fails(m = "namespace" \/ ns = "active")
        /\ Report("failed")
        /\ UNCHANGED <<ns, have, parts, deployed>>
  /\ UNCHANGED StepsOfInstall

(* "block (forever) until Gefyra cluster side is ready" *)
SeeEvents ==
  /\ At("install", "events")
  /\ {"Gefyra-Ready", "Gefyra-Webhook-Ready"} \subseteq events
  /\ cmd' = [cmd EXCEPT !.at = "webhook", !.n = 1]
  /\ UNCHANGED <<StepsOfInstall, ns, have, parts, deployed, faults>>

(* Twenty seconds for the webhook. *)
SeeWebhook ==
  /\ At("install", "webhook")
  /\ \/ webhook /\ Report("ok") /\ Calm
     \/ Fails(webhook) /\ Report("failed")
  /\ UNCHANGED <<StepsOfInstall, ns, have, parts, deployed>>

-----------------------------------------------------------------------------
(* The command line: operator update.                                      *)

(* For the operator, then for the webhook: three patches of the template,  *)
(* of the image, of Stowaway's tag and of Carrier's.  An error ends it.    *)
PatchDeployment ==
  /\ At("update", "patch")
  /\ \/ /\ cmd.n <= 3 /\ "operator" \in have
        /\ deployed' = [deployed EXCEPT ![cmd.n] = cmd.version]
        /\ cmd' = [cmd EXCEPT !.n = @ + 1]
        /\ Calm
     \/ cmd.n = 4 /\ "webhook" \in have /\ Report("ok") /\ Calm /\ UNCHANGED deployed
     \/ /\ Fails({"operator", "webhook"} \subseteq have)
        /\ Report("failed")
        /\ UNCHANGED deployed
  /\ UNCHANGED <<StepsOfInstall, ns, have, parts>>

-----------------------------------------------------------------------------
(* The command line: uninstall.  Whatever fails, it goes on.               *)

StepsOfUninstall == <<deployed, crds, provider, op, webhook, events, commands, lost, broken,
                      overlapped>>

NextKind ==
  cmd' = IF cmd.n < Len(Kinds) THEN [cmd EXCEPT !.n = @ + 1, !.at = "patch"]
         ELSE [cmd EXCEPT !.at = "namespace"]

(* The finalizers are taken away, which the webhook is asked about.  An    *)
(* object that was only held by them is gone.                              *)
TakeFinalizers ==
  LET k == Kinds[cmd.n] IN
  /\ At("uninstall", "patch")
  /\ \/ /\ objects[k] # "none" /\ ("admission" \notin have \/ webhook)
        /\ objects' = [objects EXCEPT ![k] = IF @ = "going" THEN "none" ELSE "bare"]
        /\ cmd' = [cmd EXCEPT !.at = "delete"]
        /\ Calm
     \/ /\ Fails(objects[k] # "none" /\ ("admission" \notin have \/ webhook))
        /\ NextKind
        /\ UNCHANGED objects
  /\ UNCHANGED <<StepsOfUninstall, ns, have, doomed>>

(* Of the clients it waits to see them gone. *)
DeleteObject ==
  LET k == Kinds[cmd.n] IN
  /\ At("uninstall", "delete")
  /\ \/ objects' = [objects EXCEPT ![k] = Deleted(@)] /\ Calm
     \/ Fault /\ UNCHANGED objects
  /\ IF k = "client" /\ objects'[k] # "none" /\ faults' = faults
       THEN cmd' = [cmd EXCEPT !.at = "wait"] ELSE NextKind
  /\ UNCHANGED <<StepsOfUninstall, ns, have, doomed>>

(* Until it is gone, or a minute has passed. *)
AwaitClient ==
  /\ At("uninstall", "wait")
  /\ NextKind
  /\ UNCHANGED <<StepsOfUninstall, ns, have, doomed, objects, faults>>

DeleteNamespace ==
  /\ At("uninstall", "namespace")
  /\ \/ ns' = (IF ns = "active" THEN "terminating" ELSE ns) /\ Calm
     \/ Fault /\ UNCHANGED ns
  /\ cmd' = [cmd EXCEPT !.at = "crds"]
  /\ UNCHANGED <<StepsOfUninstall, have, doomed, objects>>

DeleteCrds ==
  /\ At("uninstall", "crds")
  /\ \/ doomed' = crds /\ Calm
     \/ Fault /\ \E k \in Crds : doomed' = crds \ {k}
  /\ cmd' = [cmd EXCEPT !.at = "rbac"]
  /\ UNCHANGED <<StepsOfUninstall, ns, have, objects>>

(* The role and its binding, then the webhook's configuration. *)
DeleteRbac ==
  /\ At("uninstall", "rbac")
  /\ \/ have' = have \ {"rbac", "admission"} /\ Calm
     \/ Fault /\ \E r \in {"rbac", "admission"} : have' = have \ {r}
  /\ Report("ok")
  /\ UNCHANGED <<StepsOfUninstall, ns, doomed, objects>>

-----------------------------------------------------------------------------
Users ==
  \/ \E k \in Crds : Use(k)
  \/ \E p \in Deletable : LosePart(p)
  \/ \E wait \in BOOLEAN : Install(wait)
  \/ Up
  \/ \E v \in Updates : Begin("update", "patch", FALSE, v)
  \/ Begin("uninstall", "patch", FALSE, Version)

Command ==
  \/ CreateManifest \/ SeeEvents \/ SeeWebhook
  \/ PatchDeployment
  \/ TakeFinalizers \/ DeleteObject \/ AwaitClient \/ DeleteNamespace \/ DeleteCrds
  \/ DeleteRbac

Operates(o) == Start(o) \/ OperatorStarts(o) \/ OperatorStops(o)
Handlers(k) == Hold(k) \/ Finish(k)
Cleanup(k)  == Collect(k) \/ CrdGone(k)

Kubernetes ==
  \/ NamespaceEmptied \/ NamespaceGone
  \/ \E k \in Crds : Cleanup(k)
  \/ \E o \in Operators : OperatorDies(o)
  \/ WebhookUp \/ WebhookDown \/ Healthcheck \/ StowawayPod

Next ==
  \/ Users \/ Command \/ Kubernetes
  \/ \E o \in Operators : Operates(o)
  \/ \E k \in Crds : Handlers(k)

Spec == Init /\ [][Next]_vars

(* Kubernetes starts what is to run, the probe comes round, calls return.  *)
(* A command that waits takes its time.                                    *)
Fairness ==
  /\ WF_vars(Command)
  /\ WF_vars(WebhookUp) /\ WF_vars(Healthcheck) /\ WF_vars(StowawayPod)
  /\ WF_vars(NamespaceEmptied) /\ WF_vars(NamespaceGone)
  /\ \A o \in Operators : WF_vars(Start(o)) /\ WF_vars(OperatorStarts(o)) /\ WF_vars(OperatorStops(o))
  /\ \A k \in Crds : WF_vars(Handlers(k)) /\ WF_vars(Cleanup(k))

FairSpec == Spec /\ Fairness

-----------------------------------------------------------------------------
(* Properties.                                                             *)

InstallTypeOK ==
  /\ ns \in {"absent", "active", "terminating"}
  /\ have \subseteq Range(Manifests)
  /\ deployed \in [1..3 -> Versions] \/ deployed = <<>>
  /\ doomed \subseteq crds /\ crds \subseteq Crds
  /\ objects \in [Crds -> {"none", "held", "bare", "going"}]
  /\ parts \subseteq Parts /\ entries \subseteq parts \cap {"proxyroutes", "config"}
  /\ {image, running} \subseteq Versions
  /\ stowaway \in {"none", "starting", "ready"}
  /\ \A o \in Operators :
       /\ op[o].pc \in {"none", "round", "crds", "check", "delete", "recreate", "install",
                       "ready", "event", "serving"}
       /\ op[o].owe \subseteq {"crds", "providers"} /\ op[o].retry \in 0..StartupTimeout + 1
       /\ op[o].pc = "serving" => op[o].owe = {}
  /\ webhook \in BOOLEAN /\ events \subseteq {"Gefyra-Ready", "Gefyra-Webhook-Ready"}
  /\ cmd.n \in 1..Len(Manifests) /\ cmd.report \in {"none", "ok", "failed"}
  /\ commands \in 0..MaxCommands /\ faults \in 0..MaxFaults
  /\ {lost, broken, overlapped} \subseteq BOOLEAN

(* A first installation has waited and reports success. *)
Installed == cmd.name = "install" /\ cmd.report = "ok" /\ cmd.wait /\ cmd.fresh

(* Then it works: Stowaway's parts are there and its pod is ready, as long *)
(* as nobody has deleted a part, whatever calls had to be repeated, and    *)
(* however often the operator has been restarted on the way.  The CRDs are *)
(* there if nothing failed; the success does not wait for an operator that *)
(* has to make them again (CrdsCome).                                      *)
InstalledWorks ==
  Installed => /\ crds = Crds \/ faults > 0
               /\ lost \/ (parts = Parts /\ stowaway = "ready")

(* The CRDs come in the end, although their creation has failed on the way *)
(* or the operator has died before it.                                     *)
CrdsCome == Installed ~> crds = Crds \/ ~Installed

(* An operator that starts keeps what bridges and clients have put into    *)
(* Stowaway's config maps: at an update, also when the version of Stowaway *)
(* changes, after the death of an operator, old or new, and after calls    *)
(* that failed and are repeated.  It loses them if it has deleted the      *)
(* statefulset and dies, or fails, before it has made it anew (broken), or *)
(* if two operators start at a time.                                       *)
EntriesKept ==
  [][\A k \in Crds : EntryOf(k) \subseteq entries /\ objects[k] # "none" =>
       \/ EntryOf(k) \subseteq entries'
       \/ objects'[k] = "none" \/ ns # "active"
       \/ lost' \/ broken \/ overlapped]_vars

(* An installation that waits for the events of the operator and of the    *)
(* webhook does not wait for ever, after failing calls and restarts and    *)
(* with parts deleted under it; unless the operator could not write its    *)
(* event, which it does not repeat.                                        *)
InstallEnds ==
  cmd.at = "events" ~> cmd.at # "events" \/ (faults > 0 /\ Serving /\ "Gefyra-Ready" \notin events)
=============================================================================
