-------------------------- MODULE GefyraBridgeMount --------------------------
(***************************************************************************)
(* A GefyraBridgeMount in the operator: the state machine of               *)
(* bridge_mount_state.py, the kopf handlers of handler/bridge_mounts.py    *)
(* and what the provider carrier2mount does to the cluster: it duplicates  *)
(* the target (the "shadow"), puts Carrier2 into the target's pods, and    *)
(* undoes both.                                                            *)
(*                                                                         *)
(* As for the other resources, kopf runs the create and delete handlers    *)
(* one after the other ("worker") and the timer beside them; a mount has   *)
(* no lock.  A step is one call to the Kubernetes API, or one read of a    *)
(* group of objects.                                                       *)
(*                                                                         *)
(* Abstractions: a mount shares nothing with another one; the target is a  *)
(* deployment with Pods, or a bare pod; the shadow is one thing that       *)
(* becomes ready; TLS, probes and ports are data.                          *)
(***************************************************************************)
EXTENDS Integers, FiniteSets, Sequences

CONSTANTS
  Pods,         \* the replicas of the target
  Kinds,        \* what the target may be: "deployment", "pod"
  Sunsets,      \* whether the mount has a sunset that passes: TRUE, FALSE
  Bridges,      \* the bridges users may ask for
  MaxFaults,    \* bound: failing calls, pods or targets that go, restarts
  MaxLater      \* bound: after as many, none comes once the mount was ACTIVE

ASSUME KindsAssumption == Kinds \subseteq {"deployment", "pod"} /\ Sunsets \subseteq BOOLEAN
ASSUME PodsAssumption  == IsFiniteSet(Pods) /\ Pods # {}
ASSUME LimitAssumption == MaxFaults \in Nat /\ MaxLater \in 0..MaxFaults

VARIABLES
  kind, sunset,        \* of this mount; never changed
  phase, state,        \* the object
  ever,                \* which of ACTIVE and MISSING its stateTransitions have
  grace,               \* whether the grace period of MISSING is over
  todo,                \* the create (or resume) and delete causes kopf owes
  target,              \* whether the target exists
  image, up, upstream, \* of its pods: the image; down, running or ready;
                       \* whether Carrier's config has the upstream
  stale,               \* pods of a revision that is being rolled out
  restarted,           \* whether a bare pod's container has been restarted before
  shadow, service, hpa,
  store,               \* the original configuration in the config map
  bridged, late,       \* GefyraBridges of the mount; those that came late
  beside,              \* what was going on when it was deleted
  pc, mem, faults

mount    == <<phase, state, ever, grace, todo>>
pods     == <<target, image, up, upstream, stale, restarted>>
copy     == <<shadow, service, hpa>>
asked    == <<bridged, late, beside>>
fixed    == <<kind, sunset>>
vars     == <<fixed, mount, pods, copy, store, asked, pc, mem, faults>>

Procs  == {"worker", "timer"}
States == {"REQUESTED", "PREPARING", "INSTALLING", "ACTIVE", "RESTORING", "ERROR", "MISSING"}

(* A bare pod is its own only replica. *)
Replicas == IF kind = "pod" THEN {CHOOSE p \in Pods : TRUE} ELSE Pods

(* left, pod: the pods to install and the one in work; carrying: those     *)
(* that ran Carrier when they were listed; named: those that have not been *)
(* replaced since; fresh: copies whose resourceVersion is still current.   *)
Idle == [task |-> "none", goal |-> "none", cur |-> "REQUESTED", line |-> 0,
         left |-> {}, pod |-> "none", carrying |-> {}, named |-> {}, fresh |-> {},
         bridges |-> {}]

Init ==
  /\ kind \in Kinds /\ sunset \in Sunsets
  /\ phase = "absent" /\ state = "REQUESTED" /\ ever = {} /\ grace = FALSE
  /\ todo = {}
  /\ target = TRUE
  /\ image = [p \in Pods |-> IF p \in Replicas THEN "original" ELSE "none"]
  /\ up = [p \in Pods |-> IF p \in Replicas THEN "ready" ELSE "down"]
  /\ upstream = [p \in Pods |-> FALSE]
  /\ stale = {} /\ restarted = FALSE
  /\ shadow = "none" /\ service = FALSE /\ hpa = FALSE
  /\ store = "none"
  /\ bridged = {} /\ late = {} /\ beside = {}
  /\ pc = [h \in Procs |-> "idle"]
  /\ mem = [h \in Procs |-> Idle]
  /\ faults = 0

-----------------------------------------------------------------------------
(* Users, the cluster and the operator's process.                          *)

CreateObject ==
  /\ phase = "absent"
  /\ phase' = "present"
  /\ todo' = {"create"}
  /\ UNCHANGED <<fixed, state, ever, grace, pods, copy, store, asked, pc, mem, faults>>

Settled == stale = {} /\ \A p \in Replicas : up[p] = "ready"

DeleteObject ==
  /\ phase = "present"
  /\ phase' = "deleting"
  /\ todo' = {"delete"}
  /\ beside' = {h \in Procs : pc[h] # "idle"} \cup IF Settled THEN {} ELSE {"rollout"}
  /\ UNCHANGED <<fixed, state, ever, grace, pods, copy, store, bridged, late, pc, mem, faults>>

RemoveFinalizer ==
  /\ phase = "deleting" /\ todo = {}
  /\ \A h \in Procs : pc[h] = "idle"
  /\ phase' = "gone"
  /\ UNCHANGED <<fixed, state, ever, grace, todo, pods, copy, store, asked, pc, mem, faults>>

(* The admission webhook asks for nothing but a mount that says ACTIVE. *)
CreateBridge(b) ==
  /\ phase \in {"present", "deleting"} /\ state = "ACTIVE"
  /\ b \notin bridged
  /\ bridged' = bridged \cup {b}
  /\ late' = IF phase = "deleting" THEN late \cup {b} ELSE late
  /\ UNCHANGED <<fixed, mount, pods, copy, store, beside, pc, mem, faults>>

(* What a change of pod p makes of the copies that handlers hold. *)
Outdated(p, replaced) ==
  mem' = [h \in Procs |-> [mem[h] EXCEPT !.fresh = @ \ {p, "target"},
                                         !.named = IF replaced THEN @ \ {p} ELSE @]]

PodUp(p) ==
  /\ image[p] # "none" /\ up[p] # "ready"
  /\ up' = [up EXCEPT ![p] = IF @ = "down" THEN "running" ELSE "ready"]
  /\ Outdated(p, FALSE)
  /\ UNCHANGED <<fixed, mount, target, image, upstream, stale, restarted, copy, store, asked, pc, faults>>

(* A new pod has the image of the template, and Carrier's config is gone. *)
Replaced(p) ==
  /\ image' = [image EXCEPT ![p] = "original"]
  /\ up' = [up EXCEPT ![p] = "down"]
  /\ upstream' = [upstream EXCEPT ![p] = FALSE]
  /\ stale' = stale \ {p}
  /\ Outdated(p, TRUE)

Rollout(p) ==
  /\ target /\ p \in stale
  /\ Replaced(p)
  /\ UNCHANGED <<fixed, mount, target, restarted, copy, store, asked, pc, faults>>

ShadowUp ==
  /\ shadow = "starting"
  /\ shadow' = "ready"
  /\ UNCHANGED <<fixed, mount, pods, service, hpa, store, asked, pc, mem, faults>>

Fault == /\ faults < (IF "ACTIVE" \in ever THEN MaxLater ELSE MaxFaults)
         /\ faults' = faults + 1

PodGoes(p) ==
  /\ target /\ kind = "deployment"
  /\ Fault
  /\ Replaced(p)
  /\ UNCHANGED <<fixed, mount, target, restarted, copy, store, asked, pc>>

ShadowGoes ==
  /\ shadow = "ready"
  /\ Fault
  /\ shadow' = "starting"
  /\ UNCHANGED <<fixed, mount, pods, service, hpa, store, asked, pc, mem>>

TargetGoes ==
  /\ target
  /\ Fault
  /\ target' = FALSE
  /\ image' = [p \in Pods |-> "none"] /\ up' = [p \in Pods |-> "down"]
  /\ upstream' = [p \in Pods |-> FALSE]
  /\ stale' = {} /\ restarted' = FALSE
  /\ mem' = [h \in Procs |-> [mem[h] EXCEPT !.fresh = {}, !.named = {}]]
  /\ UNCHANGED <<fixed, mount, copy, store, asked, pc>>

TargetReturns ==
  /\ ~target
  /\ target' = TRUE
  /\ image' = [p \in Pods |-> IF p \in Replicas THEN "original" ELSE "none"]
  /\ UNCHANGED <<fixed, mount, up, upstream, stale, restarted, copy, store, asked, pc, mem, faults>>

GracePasses ==
  /\ state = "MISSING" /\ ~grace
  /\ grace' = TRUE
  /\ UNCHANGED <<fixed, phase, state, ever, todo, pods, copy, store, asked, pc, mem, faults>>

Restart ==
  /\ Fault
  /\ pc' = [h \in Procs |-> "idle"]
  /\ mem' = [h \in Procs |-> Idle]
  /\ todo' = CASE phase = "present"  -> {"create"}
               [] phase = "deleting" -> {"delete"}
               [] OTHER              -> {}
  /\ UNCHANGED <<fixed, phase, state, ever, grace, pods, copy, store, asked>>

-----------------------------------------------------------------------------
(* The handlers.  Each is a sequence of tests of the machine's state; the  *)
(* machine moves on between them.                                          *)

(* Mutant of Lines: no handler goes on from ERROR. *)
LinesWithoutError ==
  [create |-> <<[in |-> {"REQUESTED"},               do |-> "duplicate hpa"],
                [in |-> {"PREPARING"},               do |-> "shadow?"],
                [in |-> {"INSTALLING"},              do |-> "prepared?"],
                [in |-> {"ACTIVE"},                  do |-> "done"],
                [in |-> States,                      do |-> "raised"]>>,
   timer  |-> <<[in |-> {"PREPARING", "INSTALLING"}, do |-> "prepared?"],
                [in |-> {"ACTIVE"},                  do |-> "intact?"],
                [in |-> States,                      do |-> "done"]>>]

Lines ==
  [create |-> <<[in |-> {"REQUESTED"},               do |-> "duplicate hpa"],
                [in |-> {"PREPARING"},               do |-> "shadow?"],
                [in |-> {"INSTALLING"},              do |-> "prepared?"],
                [in |-> {"ERROR"},                   do |-> "restoring"],
                [in |-> {"RESTORING"},               do |-> "restoring"],
                [in |-> {"ACTIVE"},                  do |-> "done"],
                [in |-> States,                      do |-> "raised"]>>,
   timer  |-> <<[in |-> {"REQUESTED"},               do |-> "duplicate hpa"],
                [in |-> {"ERROR"},                   do |-> "restoring"],
                [in |-> {"RESTORING"},               do |-> "restoring"],
                [in |-> {"PREPARING", "INSTALLING"}, do |-> "prepared?"],
                [in |-> {"ACTIVE"},                  do |-> "intact?"],
                [in |-> States,                      do |-> "done"]>>]

(* The first line after the present one whose test the machine passes. *)
NextLine(m) ==
  LET lines == Lines[m.task]
      hit   == {k \in DOMAIN lines : k > m.line /\ m.cur \in lines[k].in}
  IN  CHOOSE k \in hit : \A j \in hit : k <= j

Goto(h, at) == pc' = [pc EXCEPT ![h] = at]

(* Handler h goes on below its present line, with m as its memory. *)
Proceed(h, m) ==
  LET k == NextLine(m)
  IN  /\ mem' = [mem EXCEPT ![h] = [m EXCEPT !.line = k]]
      /\ Goto(h, Lines[m.task][k].do)

Begun(task) == [Idle EXCEPT !.task = task, !.cur = state]

StartCreate ==
  /\ "create" \in todo
  /\ pc["worker"] = "idle"
  /\ IF "ACTIVE" \in ever THEN mem' = [mem EXCEPT !["worker"] = Begun("create")] /\ Goto("worker", "done")
             ELSE Proceed("worker", Begun("create"))
  /\ UNCHANGED <<fixed, mount, pods, copy, store, asked, faults>>

StartDelete ==
  /\ "delete" \in todo
  /\ pc["worker"] = "idle"
  /\ mem' = [mem EXCEPT !["worker"] = [Begun("delete") EXCEPT !.goal = "terminate"]]
  /\ Goto("worker", "rm workload")
  /\ UNCHANGED <<fixed, mount, pods, copy, store, asked, faults>>

StartTimer ==
  /\ phase = "present" /\ "ACTIVE" \in ever
  /\ pc["timer"] = "idle"
  /\ mem' = [mem EXCEPT !["timer"] =
               [Begun("timer") EXCEPT !.goal = IF sunset THEN "terminate" ELSE "none"]]
  /\ Goto("timer", IF sunset THEN "rm workload" ELSE "exists?")
  /\ UNCHANGED <<fixed, mount, pods, copy, store, asked, faults>>

(* What an answer to target_exists leads to; "no" is also what an error    *)
(* is taken for.                                                           *)
Answered(h, exists) ==
  LET m == mem[h]
  IN  CASE exists /\ m.cur = "MISSING"            -> mem' = mem /\ Goto(h, "recover")
        [] exists /\ m.cur # "MISSING"            -> Proceed(h, m)
        [] ~exists /\ m.cur # "MISSING"           -> /\ mem' = [mem EXCEPT ![h].goal = "missing"]
                                                     /\ Goto(h, "rm workload")
        [] ~exists /\ m.cur = "MISSING" /\ grace  -> /\ mem' = [mem EXCEPT ![h].goal = "terminate"]
                                                     /\ Goto(h, "rm workload")
        [] ~exists /\ m.cur = "MISSING" /\ ~grace -> mem' = mem /\ Goto(h, "done")

TargetExists(h) ==
  /\ pc[h] = "exists?"
  /\ \/ Answered(h, target) /\ UNCHANGED faults
     \/ target /\ Fault /\ Answered(h, FALSE)
  /\ UNCHANGED <<fixed, mount, pods, copy, store, asked>>

Finish(h) ==
  /\ pc[h] \in {"done", "raised"}
  /\ todo' = IF pc[h] = "done" THEN todo \ {mem[h].task} ELSE todo
  /\ mem' = [mem EXCEPT ![h] = Idle]
  /\ Goto(h, "idle")
  /\ UNCHANGED <<fixed, phase, state, ever, grace, pods, copy, store, asked, faults>>

-----------------------------------------------------------------------------
(* The machine's own writes.                                               *)

(* restore sends arrange, which runs after RESTORING is persisted. *)
Machine == [restoring  |-> [to |-> "RESTORING",  then |-> "duplicate hpa"],
            missing    |-> [to |-> "MISSING",    then |-> "done"],
            recover    |-> [to |-> "PREPARING",  then |-> "done"],
            installed  |-> [to |-> "INSTALLING", then |-> "ready?"],
            arranged   |-> [to |-> "PREPARING",  then |-> "line"],
            unarranged |-> [to |-> "PREPARING",  then |-> "impair"],
            failed     |-> [to |-> "INSTALLING", then |-> "impair"],
            impair     |-> [to |-> "ERROR",      then |-> "line"],
            activate   |-> [to |-> "ACTIVE",     then |-> "line"]]

Persist(h) ==
  /\ pc[h] \in DOMAIN Machine
  /\ LET to == Machine[pc[h]].to
         m  == [mem[h] EXCEPT !.cur = to]
     IN  /\ state' = to
         /\ ever' = ever \cup ({to} \cap {"ACTIVE", "MISSING"})
         /\ grace' = (grace /\ to = "MISSING")
         /\ IF Machine[pc[h]].then = "line"
            THEN Proceed(h, m)
            ELSE mem' = [mem EXCEPT ![h] = m] /\ Goto(h, Machine[pc[h]].then)
  /\ UNCHANGED <<fixed, phase, todo, pods, copy, store, asked, faults>>

-----------------------------------------------------------------------------
(* prepare: _duplicate_workload, each part created or (409) patched.       *)

DuplicateHpa(h) ==
  /\ pc[h] = "duplicate hpa"
  /\ IF target
     THEN hpa' = (hpa \/ kind = "deployment") /\ Goto(h, "duplicate workload")
     ELSE UNCHANGED hpa /\ Goto(h, "unarranged")
  /\ UNCHANGED <<fixed, mount, pods, shadow, service, store, asked, mem, faults>>

(* A patch rolls the shadow out again, for its label is a new one. *)
DuplicateWorkload(h) ==
  /\ pc[h] = "duplicate workload"
  /\ shadow' = IF shadow = "none" THEN "starting" ELSE shadow
  /\ Goto(h, "duplicate service")
  /\ UNCHANGED <<fixed, mount, pods, service, hpa, store, asked, mem, faults>>

DuplicateService(h) ==
  /\ pc[h] = "duplicate service"
  /\ service' = TRUE
  /\ Goto(h, "arranged")
  /\ UNCHANGED <<fixed, mount, pods, shadow, hpa, store, asked, mem, faults>>

-----------------------------------------------------------------------------
(* install: Carrier2 in every pod of the target.                           *)

AfterShadow(h) ==
  IF pc[h] = "prepared?" /\ mem[h].task = "create" THEN "installed?" ELSE "list pods"

(* Mutant of AskShadow: install does not wait for the shadow. *)
AskShadowUnready(h) ==
  /\ pc[h] \in {"shadow?", "prepared?"}
  /\ Goto(h, IF shadow = "none" THEN "raised" ELSE AfterShadow(h))
  /\ UNCHANGED <<fixed, mount, pods, copy, store, asked, mem, faults>>

(* prepared() and the guard of install from PREPARING: a shadow that does  *)
(* not exist is an exception, one that is not ready is waited for.         *)
AskShadow(h) ==
  /\ pc[h] \in {"shadow?", "prepared?"}
  /\ Goto(h, IF shadow = "none" \/ (pc[h] = "prepared?" /\ ~target) THEN "raised"
             ELSE IF shadow = "ready" THEN AfterShadow(h)
             ELSE IF mem[h].task = "timer" THEN "done" ELSE "raised")
  /\ UNCHANGED <<fixed, mount, pods, copy, store, asked, mem, faults>>

Live == {p \in Pods : image[p] # "none"}

(* ready(): the shadow, Carrier in the pods, the pods, Carrier's config. *)
Ready ==
  /\ shadow = "ready"
  /\ Live # {}
  /\ \A p \in Live : image[p] = "carrier" /\ up[p] = "ready" /\ upstream[p]

(* Mutant of AskReady: activate has no guard. *)
AskReadyUnguarded(h) ==
  /\ pc[h] \in {"ready?", "installed?", "intact?"}
  /\ Goto(h, CASE pc[h] = "ready?"  -> "activate"
               [] pc[h] = "intact?" -> IF Ready THEN "done" ELSE "restoring"
               [] OTHER             -> IF Ready THEN "activate" ELSE "list pods")
  /\ UNCHANGED <<fixed, mount, pods, copy, store, asked, mem, faults>>

(* Three callers: activate's guard, the create handler that finds the      *)
(* machine INSTALLING, and is_intact, to which any exception says no.      *)
AskReady(h) ==
  /\ pc[h] \in {"ready?", "installed?", "intact?"}
  /\ Goto(h, IF pc[h] = "intact?" THEN IF Ready THEN "done" ELSE "restoring"
             ELSE IF shadow = "none" \/ ~target THEN "raised"
             ELSE IF Ready THEN "activate"
             ELSE IF pc[h] = "installed?" THEN "list pods" ELSE "raised")
  /\ UNCHANGED <<fixed, mount, pods, copy, store, asked, mem, faults>>

(* Pods of two revisions: an update is in progress. *)
ListPods(h) ==
  /\ pc[h] = "list pods"
  /\ IF ~target \/ (stale # {} /\ stale # Live)
     THEN mem' = mem /\ Goto(h, "failed")
     ELSE /\ mem' = [mem EXCEPT ![h].left = Live, ![h].named = Live, ![h].fresh = Live,
                                ![h].carrying = {p \in Live : image[p] = "carrier"}]
          /\ Goto(h, IF Live = {} THEN "installed" ELSE "store")
  /\ UNCHANGED <<fixed, mount, pods, copy, store, asked, faults>>

(* What is stored is the listed image, be it Carrier's own. *)
StoreOriginal(h) ==
  /\ pc[h] = "store"
  /\ \E p \in mem[h].left :
        /\ store' = IF p \in mem[h].carrying THEN "carrier" ELSE "original"
        /\ mem' = [mem EXCEPT ![h].pod = p, ![h].left = @ \ {p}]
        /\ Goto(h, IF p \in mem[h].carrying THEN "commit" ELSE "patch")
  /\ UNCHANGED <<fixed, mount, pods, copy, asked, faults>>

(* The patch carries the listed resourceVersion; its container restarts. *)
PatchPod(h) ==
  LET p == mem[h].pod
  IN  /\ pc[h] = "patch"
      /\ IF p \in mem[h].fresh
         THEN /\ image' = [image EXCEPT ![p] = "carrier"]
              /\ up' = [up EXCEPT ![p] = "down"]
              /\ Outdated(p, FALSE)
              /\ Goto(h, "commit")
         ELSE /\ UNCHANGED <<image, up, mem>>
              /\ Goto(h, "failed")
      /\ UNCHANGED <<fixed, mount, target, upstream, stale, restarted, copy, store, asked, faults>>

(* Mutants of CommitConfig: the pod that has the name of the listed one    *)
(* now; or no end of the wait for a pod that has gone.                     *)
CommitConfigAnyPod(h) ==
  LET p == mem[h].pod
  IN  /\ pc[h] = "commit"
      /\ up[p] # "down"
      /\ upstream' = [upstream EXCEPT ![p] = TRUE]
      /\ Goto(h, IF mem[h].left = {} THEN "installed" ELSE "store")
      /\ UNCHANGED <<fixed, mount, target, image, up, stale, restarted, copy, store, asked, mem, faults>>
CommitConfigWaiting(h) ==
  /\ mem[h].pod \in mem[h].named
  /\ CommitConfigAnyPod(h)

(* Waits for the container's restart: for any restart ever, so that of a   *)
(* container that had one before, the old one may be asked and cannot take *)
(* the configuration.  Without the shadow's service there is none.         *)
CommitConfig(h) ==
  LET p == mem[h].pod
  IN  /\ pc[h] = "commit"
      /\ IF p \in mem[h].named /\ service /\ image[p] = "carrier"
         THEN \/ /\ up[p] # "down"
                 /\ upstream' = [upstream EXCEPT ![p] = TRUE]
                 /\ Goto(h, IF mem[h].left = {} THEN "installed" ELSE "store")
              \/ /\ up[p] = "down" /\ restarted
                 /\ UNCHANGED upstream
                 /\ Goto(h, "failed")
         ELSE /\ UNCHANGED upstream
              /\ Goto(h, "failed")
      /\ UNCHANGED <<fixed, mount, target, image, up, stale, restarted, copy, store, asked, mem, faults>>

-----------------------------------------------------------------------------
(* uninstall, and what follows it.                                         *)

AfterUninstall(h) == IF mem[h].goal = "missing" THEN "missing" ELSE "list bridges"

(* Mutant of RemoveWorkload: its HPA is left. *)
RemoveWorkloadOnly(h) ==
  /\ pc[h] = "rm workload"
  /\ shadow' = "none"
  /\ Goto(h, "rm service")
  /\ UNCHANGED <<fixed, mount, pods, service, hpa, store, asked, mem, faults>>

(* Where there is no shadow (404) its HPA is not looked for. *)
RemoveWorkload(h) ==
  /\ pc[h] = "rm workload"
  /\ shadow' = "none"
  /\ Goto(h, IF shadow = "none" THEN "rm service" ELSE "rm hpa")
  /\ UNCHANGED <<fixed, mount, pods, service, hpa, store, asked, mem, faults>>

RemoveHpa(h) ==
  /\ pc[h] = "rm hpa"
  /\ hpa' = FALSE
  /\ Goto(h, "rm service")
  /\ UNCHANGED <<fixed, mount, pods, shadow, service, store, asked, mem, faults>>

(* Mutant of RemoveService: uninstall ends with it. *)
RemoveServiceLast(h) ==
  /\ pc[h] = "rm service"
  /\ service' = FALSE
  /\ Goto(h, AfterUninstall(h))
  /\ UNCHANGED <<fixed, mount, pods, shadow, hpa, store, asked, mem, faults>>

RemoveService(h) ==
  /\ pc[h] = "rm service"
  /\ service' = FALSE
  /\ Goto(h, "read target")
  /\ UNCHANGED <<fixed, mount, pods, shadow, hpa, store, asked, mem, faults>>

ReadTarget(h) ==
  /\ pc[h] = "read target"
  /\ IF target
     THEN mem' = [mem EXCEPT ![h].fresh = {"target"}] /\ Goto(h, "restore target")
     ELSE mem' = mem /\ Goto(h, AfterUninstall(h))
  /\ UNCHANGED <<fixed, mount, pods, copy, store, asked, faults>>

(* A deployment is rolled out anew; a bare pod gets back what was stored.  *)
(* A conflict is only logged.                                              *)
RestoreTarget(h) ==
  /\ pc[h] = "restore target"
  /\ IF "target" \notin mem[h].fresh
     THEN UNCHANGED <<image, up, upstream, stale, restarted, mem>>
     ELSE IF kind = "deployment"
     THEN /\ stale' = Live
          /\ mem' = [g \in Procs |-> [mem[g] EXCEPT !.fresh = @ \ {"target"}]]
          /\ UNCHANGED <<image, up, upstream, restarted>>
     ELSE \E p \in Replicas :
            IF store \in {"none", image[p]}
            THEN UNCHANGED <<image, up, upstream, stale, restarted, mem>>
            ELSE /\ image' = [image EXCEPT ![p] = store]
                 /\ up' = [up EXCEPT ![p] = "down"]
                 /\ upstream' = [upstream EXCEPT ![p] = FALSE]
                 /\ restarted' = TRUE
                 /\ Outdated(p, FALSE)
                 /\ UNCHANGED stale
  /\ Goto(h, AfterUninstall(h))
  /\ UNCHANGED <<fixed, mount, target, copy, store, asked, faults>>

(* cleanup_all_bridges.  The timer would delete the object next: its       *)
(* _try_delete_cr asks the machine for its "configuration", which is not   *)
(* the operator's, and raises.                                             *)
Cleaned(h) == IF mem[h].task = "timer" THEN "raised" ELSE "done"

ListBridges(h) ==
  /\ pc[h] = "list bridges"
  /\ mem' = [mem EXCEPT ![h].bridges = bridged]
  /\ Goto(h, IF bridged = {} THEN Cleaned(h) ELSE "rm bridge")
  /\ UNCHANGED <<fixed, mount, pods, copy, store, asked, faults>>

(* A bridge that has gone by itself (404) ends the loop. *)
RemoveBridge(h) ==
  /\ pc[h] = "rm bridge"
  /\ \E b \in mem[h].bridges :
        /\ bridged' = bridged \ {b} /\ late' = late \ {b}
        /\ mem' = [mem EXCEPT ![h].bridges = @ \ {b}]
        /\ Goto(h, IF b \notin bridged \/ mem[h].bridges = {b} THEN Cleaned(h) ELSE "rm bridge")
  /\ UNCHANGED <<fixed, mount, pods, copy, store, beside, faults>>

-----------------------------------------------------------------------------
(* Where the exception of a failing call leads; a list of HPAs that cannot *)
(* be read is taken to be empty.                                           *)
CaughtAt(h) ==
  LET at == pc[h]
  IN  CASE at = "duplicate hpa"                                   -> {"unarranged", "duplicate workload"}
        [] at \in {"duplicate workload", "duplicate service"}     -> {"unarranged"}
        [] at \in {"list pods", "store", "patch", "commit"}       -> {"failed"}
        [] at = "rm hpa"                                          -> {"rm service", AfterUninstall(h)}
        [] at \in {"rm workload", "rm service", "read target", "restore target"}
                                                                  -> {AfterUninstall(h)}
        [] at \in {"list bridges", "rm bridge"}                   -> {Cleaned(h)}
        [] at = "intact?"                                         -> {"restoring"}
        [] OTHER                                                  -> {"raised"}

CallFails(h) ==
  /\ pc[h] \notin {"idle", "done", "raised", "exists?"}
  /\ Fault
  /\ \E at \in CaughtAt(h) : Goto(h, at)
  /\ UNCHANGED <<fixed, mount, pods, copy, store, asked, mem>>

Step(h) ==
  \/ TargetExists(h) \/ Finish(h) \/ Persist(h)
  \/ DuplicateHpa(h) \/ DuplicateWorkload(h) \/ DuplicateService(h)
  \/ AskShadow(h) \/ AskReady(h) \/ ListPods(h) \/ StoreOriginal(h) \/ PatchPod(h) \/ CommitConfig(h)
  \/ RemoveWorkload(h) \/ RemoveHpa(h) \/ RemoveService(h) \/ ReadTarget(h) \/ RestoreTarget(h)
  \/ ListBridges(h) \/ RemoveBridge(h)

Dispatch == StartCreate \/ StartDelete \/ RemoveFinalizer

Cluster == ShadowUp \/ \E p \in Pods : PodUp(p) \/ Rollout(p)

Next ==
  \/ Dispatch \/ StartTimer \/ Restart
  \/ \E h \in Procs : Step(h) \/ CallFails(h)
  \/ CreateObject \/ DeleteObject \/ \E b \in Bridges : CreateBridge(b)
  \/ Cluster \/ TargetGoes \/ TargetReturns \/ GracePasses
  \/ ShadowGoes \/ \E p \in Pods : PodGoes(p)

Spec == Init /\ [][Next]_vars

(* Awaited calls return, kopf runs what it owes and its timers, and the    *)
(* cluster starts what it has been asked to.                               *)
FairSpec ==
  /\ Spec
  /\ \A h \in Procs : WF_vars(Step(h))
  /\ WF_vars(Dispatch) /\ WF_vars(StartTimer)
  /\ WF_vars(ShadowUp) /\ \A p \in Pods : WF_vars(PodUp(p)) /\ WF_vars(Rollout(p))

-----------------------------------------------------------------------------
(* Properties.                                                             *)

(* Types, and that Carrier's configuration is in pods that run Carrier     *)
(* only: a replaced or restored container has lost it.                     *)
MountTypeOK ==
  /\ kind \in Kinds /\ sunset \in BOOLEAN
  /\ phase \in {"absent", "present", "deleting", "gone"}
  /\ state \in States /\ ever \subseteq {"ACTIVE", "MISSING"} /\ grace \in BOOLEAN
  /\ todo \subseteq {"create", "delete"}
  /\ target \in BOOLEAN
  /\ image \in [Pods -> {"none", "original", "carrier"}]
  /\ up \in [Pods -> {"down", "running", "ready"}] /\ upstream \in [Pods -> BOOLEAN] /\ stale \subseteq Pods
  /\ restarted \in BOOLEAN
  /\ shadow \in {"none", "starting", "ready"} /\ service \in BOOLEAN /\ hpa \in BOOLEAN
  /\ store \in {"none", "original", "carrier"}
  /\ bridged \subseteq Bridges /\ late \subseteq bridged /\ beside \subseteq Procs \cup {"rollout"}
  /\ \A p \in Pods : upstream[p] => image[p] = "carrier"

AtRest      == \A h \in Procs : pc[h] = "idle"
Undisturbed == faults = 0

(* As long as no call failed, nothing was lost and the operator ran: a     *)
(* mount that says ACTIVE, and at which no handler works, has Carrier in   *)
(* every pod of its target, with a shadow to send the other requests to.   *)
ActiveIsInstalled ==
  Undisturbed /\ phase = "present" /\ state = "ACTIVE" /\ AtRest /\ ~sunset => Ready /\ service

(* Carrier takes the place of a container only when the shadow is there.   *)
CarrierAfterShadow ==
  [][\A p \in Pods :
        Undisturbed /\ image[p] = "original" /\ image'[p] = "carrier" => shadow = "ready"]_vars

(* A mount that has gone leaves nothing of its own behind: no shadow, no   *)
(* service, no HPA, and no bridge that was there when it was deleted.      *)
GoneLeavesNothing ==
  phase = "gone" /\ Undisturbed /\ "timer" \notin beside
  => shadow = "none" /\ ~service /\ ~hpa /\ bridged \subseteq late

(* ... and its target becomes what it was, if nothing was going on with    *)
(* it when the mount was deleted: a conflict of the write that restores it *)
(* is only logged.  A bare pod gets back what is stored.                   *)
GoneRestores ==
  phase = "gone" /\ beside = {} /\ (kind = "pod" => store = "original")
  ~> ~Undisturbed \/ (Settled /\ \A p \in Replicas : image[p] = "original")

(* Whatever fails: a deleted mount goes. *)
DeletedGoes == phase = "deleting" ~> phase = "gone"

(* Where the create handler gets stuck: PREPARING has been persisted over  *)
(* a failed duplication and ERROR never was, for that call failed too or   *)
(* the operator restarted.  Every retry then asks for a shadow that nobody *)
(* is going to build, and the timer leaves a mount alone that has never    *)
(* been ACTIVE.                                                            *)
Stuck ==
  /\ state = "PREPARING" /\ shadow = "none" /\ "ACTIVE" \notin ever
  /\ pc["worker"] \in {"idle", "shadow?", "raised"}

(* A new mount becomes ACTIVE whatever fails or restarts, unless it is     *)
(* deleted, its target goes or it is stuck, which takes two failures.      *)
BecomesActive ==
  phase = "present" /\ "ACTIVE" \notin ever
  ~> "ACTIVE" \in ever \/ phase # "present" \/ ~target \/ Stuck

(* A mount that lost a pod, its shadow or a call comes back, as long as it *)
(* has not been taken for MISSING.                                         *)
Recovers ==
  phase = "present" /\ state \notin {"ACTIVE", "MISSING"} /\ ever = {"ACTIVE"}
  ~> state = "ACTIVE" \/ "MISSING" \in ever \/ phase # "present"
=============================================================================
