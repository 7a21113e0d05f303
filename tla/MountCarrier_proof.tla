------------------------- MODULE MountCarrier_proof -------------------------
(***************************************************************************)
(* Proofs about GefyraBridgeMount, for any number of pods and bridges, as  *)
(* long as no call fails, no pod, shadow or target is lost and the         *)
(* operator runs: Carrier never takes the place of a container before the  *)
(* shadow is there, and a mount that says ACTIVE is installed.             *)
(*                                                                         *)
(* The create handler brings the mount up while no timer runs; once the    *)
(* mount has been ACTIVE it stays whole until a handler takes it away      *)
(* again, and a timer that finds it wanting then builds a shadow that      *)
(* nobody removes any more.                                                *)
(***************************************************************************)
EXTENDS GefyraBridgeMount_proof

(* The calls that copy the target, those that follow the answer that the   *)
(* shadow is ready, and those that Carrier may be put into a pod between.  *)
Copying    == {"duplicate hpa", "duplicate workload", "duplicate service", "arranged"}
Installing == {"installed?", "list pods", "store", "patch", "commit", "installed", "ready?", "activate"}
InPods     == {"store", "patch", "commit"}

(* No handler has begun to take the mount away, nor does its sunset.       *)
Untouched ==
  /\ ~(sunset /\ "ACTIVE" \in ever)
  /\ mem["worker"].task = "delete" => pc["worker"] = "rm workload"
  /\ phase \in {"deleting", "gone"} => "delete" \in todo

(* The target stays, and a deletion does not fail. *)
Whole ==
  /\ target /\ "MISSING" \notin ever /\ state # "MISSING"
  /\ \A h \in Procs : /\ pc[h] \notin {"recover", "missing", "unarranged"}
                      /\ mem[h].cur # "MISSING" /\ mem[h].goal # "missing"
  /\ mem["worker"].task = "delete" => pc["worker"] # "raised"

(* The timer starts when the create handler has no more to do; only a      *)
(* deletion and a sunset take things away. *)
Turns ==
  /\ "ACTIVE" \notin ever => pc["timer"] = "idle" /\ state # "ACTIVE"
  /\ "ACTIVE" \in ever /\ mem["worker"].task = "create" => pc["worker"] \in Ended
  /\ pc["worker"] \in Leaving => mem["worker"].task = "delete"
  /\ sunset => pc["timer"] \in Leaving \cup Ended \cup {"idle"}
  /\ ~sunset => pc["timer"] \notin Leaving

(* What the create handler has done so far, and that it stays. *)
Copied == service /\ shadow # "none"

Prepared ==
  Untouched =>
  /\ stale = {}
  /\ state # "REQUESTED" \/ pc["worker"] = "arranged" => Copied
  /\ pc["worker"] = "duplicate service" => shadow # "none"
  /\ pc["worker"] \in Lined \ Copying => state # "REQUESTED"
  /\ mem["worker"].task = "create" => mem["worker"].cur = state
  /\ pc["worker"] = "activate" => Ready
  /\ "ACTIVE" \in ever => /\ state = "ACTIVE" /\ Ready
                          /\ pc["timer"] \in {"idle", "exists?", "intact?"} \cup Ended
                          /\ pc["timer"] # "idle" => mem["timer"].cur = "ACTIVE"

Shadowed == \A h \in Procs : pc[h] \in Installing => shadow = "ready"

(* Of a bare pod: there is one, and until a deletion has restored it, what *)
(* is stored is Carrier's image only while the pod runs Carrier. *)
Single ==
  /\ stale = {}
  /\ \A p \in Pods \ Replicas : image[p] = "none"
  /\ \A h \in Procs : /\ pc[h] \in InPods => mem[h].left \subseteq Replicas
                      /\ pc[h] \in {"patch", "commit"} => mem[h].pod \in Replicas

Restored ==
  /\ ~sunset /\ phase \in {"deleting", "gone"}
  /\ "delete" \in todo => /\ mem["worker"].task = "delete"
                          /\ pc["worker"] \in {"list bridges", "rm bridge"} \cup Ended

Stored ==
  ~Restored =>
  /\ store = "carrier" => \A p \in Pods : image[p] # "original"
  /\ \A h \in Procs : pc[h] \in InPods => \A p \in mem[h].carrying : image[p] = "carrier"

Course == Whole /\ Turns /\ Prepared /\ Shadowed /\ (kind = "pod" => Single /\ Stored)

CarrierInv == MountInv /\ (faults = 0 => Course)

-----------------------------------------------------------------------------
(* The lines of a handler lead where the state asks for.                   *)

(* What the lines of the two handlers ask for. *)
LEMMA LinesAsk ==
  ASSUME NEW task \in {"create", "timer"}, NEW k \in 1..LastLine[task], NEW cur \in Lines[task][k].in
  PROVE  LET call == Lines[task][k].do
         IN  /\ call \in {"duplicate hpa", "shadow?", "prepared?", "restoring", "intact?"} \cup Ended
             /\ task = "create" => call # "intact?"
             /\ call \in {"shadow?", "prepared?", "restoring"} => cur # "REQUESTED"
             /\ cur = "ACTIVE" => call \in {"intact?"} \cup Ended
<1>1. CASE task = "create"
  <2>1. LastLine[task] = 7 /\ Lines[task] = Lines.create
    BY <1>1 DEF Lines, LastLine
  <2>2. k \in 1..7 /\ (k \in 1..7 => k \in {1, 2, 3, 4, 5, 6, 7})
    BY <2>1
  <2>3. /\ Lines.create[1].do = "duplicate hpa"
        /\ Lines.create[2].do = "shadow?" /\ Lines.create[2].in = {"PREPARING"}
        /\ Lines.create[3].do = "prepared?" /\ Lines.create[3].in = {"INSTALLING"}
        /\ Lines.create[4].do = "restoring" /\ Lines.create[4].in = {"ERROR"}
        /\ Lines.create[5].do = "restoring" /\ Lines.create[5].in = {"RESTORING"}
        /\ Lines.create[1].in = {"REQUESTED"}
        /\ Lines.create[6].do = "done" /\ Lines.create[7].do = "raised"
    BY DEF Lines
  <2>4. cur \in Lines.create[k].in
    BY <2>1
  <2> QED
    BY <1>1, <2>1, <2>2, <2>3, <2>4 DEF Ended
<1>2. CASE task = "timer"
  <2>1. LastLine[task] = 6 /\ Lines[task] = Lines.timer
    BY <1>2 DEF Lines, LastLine
  <2>2. k \in 1..6 /\ (k \in 1..6 => k \in {1, 2, 3, 4, 5, 6})
    BY <2>1
  <2>3. /\ Lines.timer[1].do = "duplicate hpa" /\ Lines.timer[1].in = {"REQUESTED"}
        /\ Lines.timer[2].do = "restoring" /\ Lines.timer[2].in = {"ERROR"}
        /\ Lines.timer[3].do = "restoring" /\ Lines.timer[3].in = {"RESTORING"}
        /\ Lines.timer[4].do = "prepared?" /\ Lines.timer[4].in = {"PREPARING", "INSTALLING"}
        /\ Lines.timer[5].do = "intact?" /\ Lines.timer[6].do = "done"
    BY DEF Lines
  <2>4. cur \in Lines.timer[k].in
    BY <2>1
  <2> QED
    BY <1>2, <2>1, <2>2, <2>3, <2>4 DEF Ended
<1> QED
  BY <1>1, <1>2

(* Of the memory of another handler a step changes no more than which      *)
(* copies are current. *)
Same(g) ==
  /\ pc'[g] = pc[g]
  /\ mem'[g].task = mem[g].task /\ mem'[g].goal = mem[g].goal /\ mem'[g].cur = mem[g].cur
  /\ mem'[g].left = mem[g].left /\ mem'[g].carrying = mem[g].carrying /\ mem'[g].pod = mem[g].pod

(* h goes on where its memory m leads it. *)
Led(h, task, goal, cur) ==
  /\ mem'[h].task = task /\ mem'[h].goal = goal /\ mem'[h].cur = cur
  /\ pc'[h] \in {"duplicate hpa", "shadow?", "prepared?", "restoring", "intact?"} \cup Ended
  /\ task = "create" => pc'[h] # "intact?"
  /\ pc'[h] \in {"shadow?", "prepared?", "restoring"} => cur # "REQUESTED"
  /\ cur = "ACTIVE" => pc'[h] \in {"intact?"} \cup Ended

LEMMA ProceedLeads ==
  ASSUME ProcsTyped, NEW h \in Procs, NEW m \in Memory, m.task \in {"create", "timer"},
         m.line < LastLine[m.task], Proceed(h, m)
  PROVE  Led(h, m.task, m.goal, m.cur) /\ \A g \in Procs \ {h} : Same(g)
<1> DEFINE k    == NextLine(m)
           call == Lines[m.task][k].do
           n    == [m EXCEPT !.line = k]
<1>1. k \in 1..LastLine[m.task] /\ m.cur \in Lines[m.task][k].in
  BY LineFollows
<1>2. mem' = [mem EXCEPT ![h] = n] /\ pc' = [pc EXCEPT ![h] = call]
  BY DEF Proceed, Goto
<1>3. n.task = m.task /\ n.goal = m.goal /\ n.cur = m.cur
  BY DEF Memory
<1> HIDE DEF k, n
<1>4. /\ call \in {"duplicate hpa", "shadow?", "prepared?", "restoring", "intact?"} \cup Ended
      /\ m.task = "create" => call # "intact?"
      /\ call \in {"shadow?", "prepared?", "restoring"} => m.cur # "REQUESTED"
      /\ m.cur = "ACTIVE" => call \in {"intact?"} \cup Ended
  BY <1>1, LinesAsk
<1> HIDE DEF call
<1>5. mem'[h] = n /\ pc'[h] = call /\ \A g \in Procs \ {h} : mem'[g] = mem[g] /\ pc'[g] = pc[g]
  BY <1>2 DEF ProcsTyped
<1> QED
  BY <1>3, <1>4, <1>5 DEF Led, Same

-----------------------------------------------------------------------------
(* What a step inside a handler does to its control while no call fails.   *)

(* Any call but the end, a write of the state and target_exists. *)
Calm(h) ==
  /\ \A g \in Procs \ {h} : Same(g)
  /\ mem'[h].task = mem[h].task /\ mem'[h].goal = mem[h].goal /\ mem'[h].cur = mem[h].cur
  /\ UNCHANGED <<state, ever>>
  /\ \/ pc[h] \in Leaving /\ pc'[h] \in Leaving \cup Ended
     \/ pc[h] \in Lined /\ pc'[h] \in (Lined \ {"unarranged"}) \cup Ended
  /\ pc'[h] = "raised" => mem[h].task # "delete"
  /\ pc'[h] \in Lined \ Copying => pc[h] \in Lined \ Copying
  /\ pc'[h] = "duplicate service" => DuplicateWorkload(h)
  /\ pc'[h] = "arranged" => DuplicateService(h)
  /\ pc'[h] = "activate" => Ready /\ UNCHANGED <<pods, copy>>
  /\ pc'[h] # "rm workload"
  /\ pc[h] \in {"list bridges", "rm bridge"} => pc'[h] \in {"rm bridge"} \cup Ended
  /\ pc'[h] \in Installing => shadow' = "ready" \/ pc[h] \in Installing

LEMMA OutdatedScalars ==
  ASSUME ProcsTyped, NEW p, NEW replaced \in BOOLEAN, Outdated(p, replaced)
  PROVE  \A g \in Procs :
            /\ mem'[g].task = mem[g].task /\ mem'[g].goal = mem[g].goal /\ mem'[g].cur = mem[g].cur
            /\ mem'[g].left = mem[g].left /\ mem'[g].carrying = mem[g].carrying /\ mem'[g].pod = mem[g].pod
  BY DEF Outdated, ProcsTyped, Memory

(* A step that changes no memory but its own. *)
LEMMA OwnMemory ==
  ASSUME ProcsTyped, NEW h \in Procs, NEW m, mem' = [mem EXCEPT ![h] = m],
         m.task = mem[h].task, m.goal = mem[h].goal, m.cur = mem[h].cur,
         \A g \in Procs \ {h} : pc'[g] = pc[g]
  PROVE  /\ \A g \in Procs \ {h} : Same(g)
         /\ mem'[h].task = mem[h].task /\ mem'[h].goal = mem[h].goal /\ mem'[h].cur = mem[h].cur
         /\ mem'[h] = m
  BY DEF ProcsTyped, Same

LEMMA CopyingIsCalm ==
  ASSUME ProcsTyped, NEW h \in Procs, OnCourse(h), target,
         DuplicateHpa(h) \/ DuplicateWorkload(h) \/ DuplicateService(h)
  PROVE  Calm(h)
<1>1. /\ mem' = mem /\ UNCHANGED <<state, ever>> /\ pc[h] \in {"duplicate hpa", "duplicate workload", "duplicate service"}
      /\ \A g \in Procs \ {h} : pc'[g] = pc[g]
  BY DEF DuplicateHpa, DuplicateWorkload, DuplicateService, mount, Goto, ProcsTyped
<1>2. \/ DuplicateHpa(h) /\ pc'[h] = "duplicate workload"
      \/ DuplicateWorkload(h) /\ pc'[h] = "duplicate service"
      \/ DuplicateService(h) /\ pc'[h] = "arranged"
  BY DEF DuplicateHpa, DuplicateWorkload, DuplicateService, Goto, ProcsTyped
<1> QED
  BY <1>1, <1>2 DEF Calm, Same, Lined, Copying, Installing, Ended, Leaving

LEMMA InstallingIsCalm ==
  ASSUME MountTypeOK, ProcsTyped, NEW h \in Procs, OnCourse(h), target,
         AskShadow(h) \/ AskReady(h) \/ CommitConfig(h)
  PROVE  Calm(h)
<1>1. /\ mem' = mem /\ UNCHANGED <<state, ever>> /\ shadow' = shadow
      /\ \A g \in Procs \ {h} : pc'[g] = pc[g]
  BY DEF AskShadow, AskReady, CommitConfig, mount, copy, Goto, ProcsTyped
<1>2. \/ /\ pc[h] \in {"shadow?", "prepared?"}
         /\ pc'[h] \in {"raised", "done"} \/ (shadow = "ready" /\ pc'[h] \in {"installed?", "list pods"})
      \/ /\ pc[h] = "intact?" /\ pc'[h] \in {"done", "restoring"}
      \/ /\ pc[h] \in {"ready?", "installed?"}
         /\ pc'[h] \in {"raised", "list pods"} \/ (pc'[h] = "activate" /\ Ready)
      \/ pc[h] = "commit" /\ pc'[h] \in {"installed", "store", "failed"}
  <2>1. CASE AskShadow(h)
    <3> DEFINE call == IF shadow = "none" \/ (pc[h] = "prepared?" /\ ~target) THEN "raised"
                       ELSE IF shadow = "ready" THEN AfterShadow(h)
                       ELSE IF mem[h].task = "timer" THEN "done" ELSE "raised"
    <3>1. pc[h] \in {"shadow?", "prepared?"} /\ Goto(h, call)
      BY <2>1 DEF AskShadow
    <3>3. call \in {"raised", "done"} \/ (shadow = "ready" /\ call \in {"installed?", "list pods"})
      BY DEF AfterShadow
    <3> HIDE DEF call
    <3>4. pc'[h] = call
      BY <3>1 DEF Goto, ProcsTyped
    <3> QED
      BY <3>1, <3>3, <3>4
  <2>2. CASE AskReady(h)
    <3>1. \/ pc[h] = "intact?" /\ (Goto(h, "done") \/ Goto(h, "restoring"))
          \/ /\ pc[h] \in {"ready?", "installed?"}
             /\ Goto(h, "raised") \/ Goto(h, "list pods") \/ (Goto(h, "activate") /\ Ready)
      BY <2>2 DEF AskReady
    <3> QED
      BY <3>1 DEF Goto, ProcsTyped
  <2>3. CASE CommitConfig(h)
    BY <2>3 DEF CommitConfig, Goto, ProcsTyped
  <2> QED
    BY <2>1, <2>2, <2>3
<1>3. pc[h] \in Lined => mem[h].task # "delete"
  BY DEF OnCourse
<1>4. pc[h] \in Lined \ Copying /\ pc[h] \in Lined /\ pc[h] \notin {"list bridges", "rm bridge"}
  BY <1>2 DEF Lined, Copying
<1>5. pc'[h] \in (Lined \ ({"unarranged"} \cup Copying)) \cup Ended
  BY <1>2 DEF Lined, Copying, Ended
<1>6. /\ pc'[h] = "activate" => Ready /\ UNCHANGED <<pods, copy>>
      /\ pc'[h] # "rm workload"
  BY <1>2 DEF AskShadow, AskReady, CommitConfig
<1>7. pc'[h] \in Installing => shadow = "ready" \/ pc[h] \in Installing
  BY <1>2 DEF Installing, Ready
<1>8. pc'[h] \notin {"duplicate service", "arranged"}
  BY <1>2
<1> QED
  BY <1>1, <1>3, <1>4, <1>5, <1>6, <1>7, <1>8 DEF Calm, Same

LEMMA ReadingIsCalm ==
  ASSUME MountTypeOK, ProcsTyped, NEW h \in Procs, OnCourse(h), target,
         ListPods(h) \/ StoreOriginal(h) \/ PatchPod(h)
  PROVE  Calm(h)
<1>1. UNCHANGED <<state, ever>> /\ shadow' = shadow /\ \A g \in Procs \ {h} : pc'[g] = pc[g]
  BY DEF ListPods, StoreOriginal, PatchPod, mount, copy, Goto, ProcsTyped
<1>2. /\ pc[h] \in {"list pods", "store", "patch"}
      /\ pc'[h] \in {"installed", "store", "patch", "commit", "failed"}
  <2>1. CASE ListPods(h)
    BY <2>1 DEF ListPods, Goto, ProcsTyped
  <2>2. CASE StoreOriginal(h)
    BY <2>2 DEF StoreOriginal, Goto, ProcsTyped
  <2>3. CASE PatchPod(h)
    BY <2>3 DEF PatchPod, Goto, ProcsTyped
  <2> QED
    BY <2>1, <2>2, <2>3
<1>3. /\ \A g \in Procs \ {h} : Same(g)
      /\ mem'[h].task = mem[h].task /\ mem'[h].goal = mem[h].goal /\ mem'[h].cur = mem[h].cur
  <2>1. CASE ListPods(h)
    <3>1. CASE mem' = mem
      BY <1>1, <3>1 DEF Same
    <3>2. CASE mem' # mem
      <4> DEFINE m == [mem[h] EXCEPT !.left = Live, !.named = Live, !.fresh = Live,
                                     !.carrying = {p \in Live : image[p] = "carrier"}]
      <4>1. mem' = [mem EXCEPT ![h] = m]
        BY <2>1, <3>2 DEF ListPods
      <4>2. m.task = mem[h].task /\ m.goal = mem[h].goal /\ m.cur = mem[h].cur
        BY DEF ProcsTyped, Memory
      <4> HIDE DEF m
      <4> QED
        BY <1>1, <4>1, <4>2, OwnMemory
    <3> QED
      BY <3>1, <3>2
  <2>2. CASE StoreOriginal(h)
    <3>1. PICK p \in mem[h].left : mem' = [mem EXCEPT ![h].pod = p, ![h].left = @ \ {p}]
      BY <2>2 DEF StoreOriginal
    <3> DEFINE m == [mem[h] EXCEPT !.pod = p, !.left = @ \ {p}]
    <3>2. mem' = [mem EXCEPT ![h] = m]
      BY <3>1 DEF ProcsTyped
    <3>3. m.task = mem[h].task /\ m.goal = mem[h].goal /\ m.cur = mem[h].cur
      BY DEF ProcsTyped, Memory
    <3> HIDE DEF m
    <3> QED
      BY <1>1, <3>2, <3>3, OwnMemory
  <2>3. CASE PatchPod(h)
    <3>1. mem' = mem \/ Outdated(mem[h].pod, FALSE)
      BY <2>3 DEF PatchPod
    <3> QED
      BY <1>1, <3>1, OutdatedScalars DEF Same
  <2> QED
    BY <2>1, <2>2, <2>3
<1>4. pc[h] \in Lined /\ pc[h] \in Lined \ Copying /\ pc[h] \in Installing
      /\ pc[h] \notin {"list bridges", "rm bridge"}
  BY <1>2 DEF Lined, Copying, Installing
<1>5. /\ pc'[h] \in Lined \ {"unarranged"}
      /\ pc'[h] \notin {"raised", "duplicate service", "arranged", "activate", "rm workload"}
  BY <1>2 DEF Lined
<1> QED
  BY <1>1, <1>3, <1>4, <1>5 DEF Calm

LEMMA RemovingIsCalm ==
  ASSUME MountTypeOK, ProcsTyped, NEW h \in Procs, OnCourse(h), mem[h].goal # "missing",
         \/ RemoveWorkload(h) \/ RemoveHpa(h) \/ RemoveService(h) \/ ReadTarget(h) \/ RestoreTarget(h)
         \/ ListBridges(h) \/ RemoveBridge(h)
  PROVE  /\ Calm(h)
         /\ pc[h] \in Leaving /\ pc'[h] \in Leaving \cup Ended
         /\ RestoreTarget(h) => pc'[h] = "list bridges"
<1>1. UNCHANGED <<state, ever>> /\ \A g \in Procs \ {h} : pc'[g] = pc[g]
  BY DEF RemoveWorkload, RemoveHpa, RemoveService, ReadTarget, RestoreTarget, ListBridges, RemoveBridge,
     mount, Goto, ProcsTyped
<1>2. AfterUninstall(h) = "list bridges" /\ Cleaned(h) \in Ended
      /\ (Cleaned(h) = "raised" => mem[h].task # "delete")
  BY DEF AfterUninstall, Cleaned, Ended
<1>3. /\ pc[h] \in Leaving
      /\ pc'[h] \in {"rm service", "rm hpa", "read target", "restore target", "list bridges",
                     "rm bridge", Cleaned(h)}
      /\ RestoreTarget(h) => pc'[h] = "list bridges"
      /\ pc[h] \in {"list bridges", "rm bridge"} => pc'[h] \in {"rm bridge"} \cup Ended
  <2>1. CASE RemoveWorkload(h) \/ RemoveHpa(h) \/ RemoveService(h)
    BY <2>1 DEF RemoveWorkload, RemoveHpa, RemoveService, RestoreTarget, Goto, ProcsTyped, Leaving
  <2>2. CASE ReadTarget(h)
    BY <1>2, <2>2 DEF ReadTarget, RestoreTarget, Goto, ProcsTyped, Leaving
  <2>3. CASE RestoreTarget(h)
    BY <1>2, <2>3 DEF RestoreTarget, Goto, ProcsTyped, Leaving
  <2>4. CASE ListBridges(h)
    BY <1>2, <2>4 DEF ListBridges, RestoreTarget, Goto, ProcsTyped, Leaving
  <2>5. CASE RemoveBridge(h)
    BY <1>2, <2>5 DEF RemoveBridge, RestoreTarget, Goto, ProcsTyped, Leaving
  <2> QED
    BY <2>1, <2>2, <2>3, <2>4, <2>5
<1>4. /\ \A g \in Procs \ {h} : Same(g)
      /\ mem'[h].task = mem[h].task /\ mem'[h].goal = mem[h].goal /\ mem'[h].cur = mem[h].cur
  <2>1. CASE mem' = mem
    BY <1>1, <2>1 DEF Same
  <2>2. CASE ReadTarget(h) /\ mem' # mem
    BY <1>1, <2>2, ZenonT(40) DEF ReadTarget, ProcsTyped, Memory, Same
  <2>3. CASE RestoreTarget(h) /\ mem' # mem
    <3>1. \/ mem' = [g \in Procs |-> [mem[g] EXCEPT !.fresh = @ \ {"target"}]]
          \/ \E p : Outdated(p, FALSE)
      BY <2>3 DEF RestoreTarget
    <3>2. CASE mem' = [g \in Procs |-> [mem[g] EXCEPT !.fresh = @ \ {"target"}]]
      BY <1>1, <3>2 DEF ProcsTyped, Memory, Same
    <3>3. CASE \E p : Outdated(p, FALSE)
      BY <1>1, <3>3, OutdatedScalars DEF Same
    <3> QED
      BY <3>1, <3>2, <3>3
  <2>4. CASE ListBridges(h)
    BY <1>1, <2>4 DEF ListBridges, ProcsTyped, Memory, Same
  <2>5. CASE RemoveBridge(h)
    <3>1. PICK b \in mem[h].bridges : mem' = [mem EXCEPT ![h].bridges = @ \ {b}]
      BY <2>5 DEF RemoveBridge
    <3> DEFINE m == [mem[h] EXCEPT !.bridges = @ \ {b}]
    <3>2. mem' = [mem EXCEPT ![h] = m]
      BY <3>1 DEF ProcsTyped
    <3>3. m.task = mem[h].task /\ m.goal = mem[h].goal /\ m.cur = mem[h].cur
      BY DEF ProcsTyped, Memory
    <3> HIDE DEF m
    <3> QED
      BY <1>1, <3>2, <3>3, OwnMemory
  <2> QED
    BY <2>1, <2>2, <2>3, <2>4, <2>5 DEF RemoveWorkload, RemoveHpa, RemoveService
<1>5. pc'[h] \in Leaving \cup Ended /\ (pc'[h] = "raised" => mem[h].task # "delete")
      /\ pc'[h] \notin Lined /\ pc'[h] # "rm workload"
  BY <1>2, <1>3 DEF Leaving, Ended, Lined
<1>6. pc'[h] \notin Installing /\ pc'[h] \notin {"duplicate service", "arranged", "activate"}
  BY <1>5 DEF Installing, Lined
<1> QED
  BY <1>1, <1>3, <1>4, <1>5, <1>6 DEF Calm

(* The other steps: a write of the state, the end, target_exists. *)
Written(h) ==
  /\ \A g \in Procs \ {h} : Same(g)
  /\ mem'[h].task = mem[h].task /\ mem'[h].goal = mem[h].goal /\ mem'[h].cur = state'
  /\ ever' = ever \cup ({state'} \cap {"ACTIVE", "MISSING"})
  /\ UNCHANGED <<fixed, phase, todo, pods, copy, store, asked>>
  /\ pc[h] \in Lined
  /\ \/ pc[h] = "restoring" /\ state' = "RESTORING"  /\ pc'[h] = "duplicate hpa"
     \/ pc[h] = "installed" /\ state' = "INSTALLING" /\ pc'[h] = "ready?"
     \/ pc[h] = "failed"    /\ state' = "INSTALLING" /\ pc'[h] = "impair"
     \/ pc[h] = "arranged"  /\ state' = "PREPARING"  /\ Led(h, mem[h].task, mem[h].goal, state')
     \/ pc[h] = "impair"    /\ state' = "ERROR"      /\ Led(h, mem[h].task, mem[h].goal, state')
     \/ pc[h] = "activate"  /\ state' = "ACTIVE"     /\ Led(h, mem[h].task, mem[h].goal, state')

Ends(h) ==
  /\ \A g \in Procs \ {h} : Same(g)
  /\ pc[h] \in Ended /\ pc'[h] = "idle"
  /\ mem'[h].task = "none" /\ mem'[h].goal = "none" /\ mem'[h].cur = "REQUESTED"
  /\ todo' = IF pc[h] = "done" THEN todo \ {mem[h].task} ELSE todo
  /\ UNCHANGED <<fixed, phase, state, ever, pods, copy, store>>

Asks(h) ==
  /\ \A g \in Procs \ {h} : Same(g)
  /\ pc[h] = "exists?" /\ mem[h].task = "timer" /\ Led(h, "timer", mem[h].goal, mem[h].cur)
  /\ UNCHANGED <<fixed, phase, todo, state, ever, pods, copy, store>>

LEMMA PersistMoves ==
  ASSUME ProcsTyped, NEW h \in Procs, OnCourse(h), pc[h] \notin {"recover", "missing", "unarranged"},
         Persist(h)
  PROVE  Written(h)
<1> DEFINE to == Machine[pc[h]].to
           m  == [mem[h] EXCEPT !.cur = to]
<1>1. /\ pc[h] \in {"restoring", "installed", "arranged", "failed", "impair", "activate"}
      /\ to \in States
  BY MachineLeads DEF Persist
<1>2. m \in Memory /\ m.task = mem[h].task /\ m.line = mem[h].line /\ m.goal = mem[h].goal /\ m.cur = to
  BY <1>1 DEF ProcsTyped, Memory
<1>3. /\ state' = to /\ ever' = ever \cup ({to} \cap {"ACTIVE", "MISSING"})
      /\ UNCHANGED <<fixed, phase, todo, pods, copy, store, asked>>
  BY DEF Persist
<1>4. pc[h] \in Lined /\ m.task \in {"create", "timer"} /\ m.line < LastLine[m.task]
  BY <1>1, <1>2 DEF OnCourse, Lined
<1>5. /\ pc[h] = "restoring" => to = "RESTORING" /\ Machine[pc[h]].then = "duplicate hpa"
      /\ pc[h] = "installed" => to = "INSTALLING" /\ Machine[pc[h]].then = "ready?"
      /\ pc[h] = "failed" => to = "INSTALLING" /\ Machine[pc[h]].then = "impair"
      /\ pc[h] = "arranged" => to = "PREPARING" /\ Machine[pc[h]].then = "line"
      /\ pc[h] = "impair" => to = "ERROR" /\ Machine[pc[h]].then = "line"
      /\ pc[h] = "activate" => to = "ACTIVE" /\ Machine[pc[h]].then = "line"
  <2>1. /\ Machine["restoring"].to = "RESTORING" /\ Machine["restoring"].then = "duplicate hpa"
        /\ Machine["installed"].to = "INSTALLING" /\ Machine["installed"].then = "ready?"
        /\ Machine["failed"].to = "INSTALLING" /\ Machine["failed"].then = "impair"
        /\ Machine["arranged"].to = "PREPARING" /\ Machine["arranged"].then = "line"
        /\ Machine["impair"].to = "ERROR" /\ Machine["impair"].then = "line"
        /\ Machine["activate"].to = "ACTIVE" /\ Machine["activate"].then = "line"
    BY DEF Machine
  <2> QED
    BY <2>1
<1>6. /\ Machine[pc[h]].then = "line" => Proceed(h, m)
      /\ Machine[pc[h]].then # "line" => mem' = [mem EXCEPT ![h] = m] /\ Goto(h, Machine[pc[h]].then)
  BY DEF Persist
<1> HIDE DEF m, to
<1>7. CASE pc[h] \in {"arranged", "impair", "activate"}
  <2>1. Led(h, m.task, m.goal, m.cur) /\ \A g \in Procs \ {h} : Same(g)
    BY <1>2, <1>4, <1>5, <1>6, <1>7, ProceedLeads
  <2>2. mem'[h].task = m.task /\ mem'[h].goal = m.goal /\ mem'[h].cur = m.cur
    BY <2>1 DEF Led
  <2> QED
    BY <1>2, <1>3, <1>4, <1>5, <1>7, <2>1, <2>2 DEF Written
<1>8. CASE pc[h] \in {"restoring", "installed", "failed"}
  <2>1. /\ mem'[h] = m /\ pc'[h] = Machine[pc[h]].then
        /\ \A g \in Procs \ {h} : mem'[g] = mem[g] /\ pc'[g] = pc[g]
    BY <1>5, <1>6, <1>8 DEF Goto, ProcsTyped
  <2> QED
    BY <1>2, <1>3, <1>4, <1>5, <1>8, <2>1 DEF Written, Same
<1> QED
  BY <1>1, <1>7, <1>8

LEMMA FinishEnds ==
  ASSUME ProcsTyped, NEW h \in Procs, OnCourse(h), Finish(h)
  PROVE  Ends(h)
<1>1. Idle.task = "none" /\ Idle.goal = "none" /\ Idle.cur = "REQUESTED"
  BY DEF Idle
<1>2. mem'[h] = Idle /\ pc'[h] = "idle" /\ \A g \in Procs \ {h} : mem'[g] = mem[g] /\ pc'[g] = pc[g]
  BY DEF Finish, Goto, ProcsTyped
<1> QED
  BY <1>1, <1>2 DEF Finish, Ends, Same, Ended

LEMMA TargetExistsAsks ==
  ASSUME ProcsTyped, NEW h \in Procs, OnCourse(h), TargetExists(h), target, ~Fault, mem[h].cur # "MISSING"
  PROVE  Asks(h)
<1>1. pc[h] = "exists?" /\ UNCHANGED <<fixed, mount, pods, copy, store>> /\ Answered(h, target)
  BY DEF TargetExists
<1>2. mem[h] \in Memory /\ mem[h].task = "timer" /\ mem[h].line = 0
  BY <1>1 DEF OnCourse, ProcsTyped
<1>3. 0 < LastLine["timer"]
  BY DEF LastLine
<1>4. Proceed(h, mem[h])
  BY <1>1 DEF Answered
<1> DEFINE m == mem[h]
<1>5. m \in Memory /\ m.task = "timer" /\ m.line < LastLine[m.task] /\ Proceed(h, m)
  BY <1>2, <1>3, <1>4
<1> HIDE DEF m
<1>6. Led(h, m.task, m.goal, m.cur) /\ \A g \in Procs \ {h} : Same(g)
  BY <1>5, ProceedLeads
<1> QED
  BY <1>1, <1>2, <1>6 DEF Asks, mount, m

LEMMA HandlerMoves ==
  ASSUME MountTypeOK, ProcsTyped, NEW h \in Procs, OnCourse(h), Whole, Step(h), ~Fault
  PROVE  \/ Calm(h) \/ Written(h) \/ Ends(h) \/ Asks(h)
<1>1. /\ target /\ pc[h] \notin {"recover", "missing", "unarranged"}
      /\ mem[h].cur # "MISSING" /\ mem[h].goal # "missing"
  BY DEF Whole
<1>2. CASE DuplicateHpa(h) \/ DuplicateWorkload(h) \/ DuplicateService(h)
  BY <1>1, <1>2, CopyingIsCalm
<1>3. CASE AskShadow(h) \/ AskReady(h) \/ CommitConfig(h)
  BY <1>1, <1>3, InstallingIsCalm
<1>4. CASE ListPods(h) \/ StoreOriginal(h) \/ PatchPod(h)
  BY <1>1, <1>4, ReadingIsCalm
<1>5. CASE \/ RemoveWorkload(h) \/ RemoveHpa(h) \/ RemoveService(h) \/ ReadTarget(h) \/ RestoreTarget(h)
           \/ ListBridges(h) \/ RemoveBridge(h)
  BY <1>1, <1>5, RemovingIsCalm
<1>6. CASE TargetExists(h)
  BY <1>1, <1>6, TargetExistsAsks
<1>7. CASE Finish(h)
  BY <1>7, FinishEnds
<1>8. CASE Persist(h)
  BY <1>1, <1>8, PersistMoves
<1> QED
  BY <1>2, <1>3, <1>4, <1>5, <1>6, <1>7, <1>8 DEF Step

-----------------------------------------------------------------------------
(* Every step inside a handler keeps each part.                            *)

LEMMA HandlerKeepsWhole ==
  ASSUME MountInv, NEW h \in Procs, Whole, Step(h), ~Fault
  PROVE  Whole'
<1>1. Calm(h) \/ Written(h) \/ Ends(h) \/ Asks(h)
  BY HandlerMoves DEF MountInv
<1>2. target'
  BY HandlerChangesPods DEF MountInv, PodChanges, Whole
<1>3. OnCourse(h)
  BY DEF MountInv
<1>4. CASE Calm(h)
  <2>1. pc'[h] \notin {"recover", "missing", "unarranged"}
    BY <1>4 DEF Calm, Leaving, Lined, Ended
  <2> QED
    BY <1>2, <1>4, <2>1, ZenonT(40) DEF Calm, Same, Whole, Procs
<1>5. CASE Written(h)
  <2>1. pc'[h] \notin {"recover", "missing", "unarranged"} /\ state' # "MISSING"
    BY <1>5 DEF Written, Led, Ended
  <2>2. mem[h].task # "delete"
    BY <1>3, <1>5 DEF Written, OnCourse
  <2> QED
    BY <1>2, <1>5, <2>1, <2>2, ZenonT(40) DEF Written, Same, Whole, Procs
<1>6. CASE Ends(h)
  BY <1>2, <1>6 DEF Ends, Same, Whole, Procs
<1>7. CASE Asks(h)
  <2>1. pc'[h] \notin {"recover", "missing", "unarranged"} /\ mem'[h].task = "timer"
        /\ mem'[h].goal = mem[h].goal /\ mem'[h].cur = mem[h].cur
    BY <1>7 DEF Asks, Led, Ended
  <2> QED
    BY <1>2, <1>7, <2>1 DEF Asks, Same, Whole, Procs
<1> QED
  BY <1>1, <1>4, <1>5, <1>6, <1>7

LEMMA HandlerKeepsTurns ==
  ASSUME MountInv, NEW h \in Procs, Whole, Turns, Step(h), ~Fault
  PROVE  Turns'
<1>1. Calm(h) \/ Written(h) \/ Ends(h) \/ Asks(h)
  BY HandlerMoves DEF MountInv
<1>2. OnCourse(h) /\ h \in {"worker", "timer"} /\ pc[h] # "idle" /\ sunset' = sunset
  <2>1. HandlerStep(h)
    BY StepIsHandlerStep DEF MountInv
  <2>2. UNCHANGED fixed
    BY DEF Step, TargetExists, Finish, Persist, DuplicateHpa, DuplicateWorkload, DuplicateService,
       AskShadow, AskReady, ListPods, StoreOriginal, PatchPod, CommitConfig, RemoveWorkload, RemoveHpa,
       RemoveService, ReadTarget, RestoreTarget, ListBridges, RemoveBridge
  <2> QED
    BY <2>1, <2>2 DEF MountInv, Procs, HandlerStep, fixed
<1>3. Leaving \cap Lined = {} /\ Leaving \cap Ended = {} /\ Ended \cap Lined = {}
      /\ "idle" \notin Leaving /\ "exists?" \notin Leaving /\ "idle" \notin Lined
  BY DEF Leaving, Lined, Ended
<1>4. \A cur, goal, task : Led(h, task, goal, cur) => pc'[h] \notin Leaving
  BY DEF Led, Ended, Leaving
<1>5. \A cur, goal : cur = "ACTIVE" /\ Led(h, "create", goal, cur) => pc'[h] \in Ended
  BY DEF Led
<1>6. /\ "ACTIVE" \in ever => "ACTIVE" \in ever'
      /\ state' = "ACTIVE" => state = "ACTIVE" \/ "ACTIVE" \in ever'
      /\ "ACTIVE" \in ever' /\ "ACTIVE" \notin ever
         => Written(h) /\ state' = "ACTIVE" /\ pc[h] = "activate"
  <2>1. CASE Written(h)
    <3>1. ever' = ever \cup ({state'} \cap {"ACTIVE", "MISSING"})
      BY <2>1 DEF Written
    <3>2. state' = "ACTIVE" => pc[h] = "activate"
      BY <2>1 DEF Written
    <3> QED
      BY <2>1, <3>1, <3>2
  <2>2. CASE ~Written(h)
    <3>1. UNCHANGED <<state, ever>>
      BY <1>1, <2>2 DEF Calm, Ends, Asks
    <3> QED
      BY <3>1
  <2> QED
    BY <2>1, <2>2
<1>7. \A g \in Procs \ {h} : Same(g)
  BY <1>1 DEF Calm, Written, Ends, Asks
<1>8. pc'["timer"] # "idle" => pc["timer"] # "idle"
  BY <1>2, <1>7 DEF Same, Procs
<1>9. "ACTIVE" \notin ever' => pc'["timer"] = "idle" /\ state' # "ACTIVE"
  BY <1>6, <1>8 DEF Turns
<1>10. ASSUME "ACTIVE" \in ever', mem'["worker"].task = "create" PROVE pc'["worker"] \in Ended
  <2>1. CASE h = "timer"
    <3>1. "ACTIVE" \in ever /\ Same("worker")
      BY <1>2, <1>7, <2>1 DEF Turns, Procs
    <3> QED
      BY <1>10, <3>1 DEF Turns, Same
  <2>2. CASE h = "worker" /\ "ACTIVE" \in ever
    <3>1. ~Ends(h)
      BY <1>10, <2>2 DEF Ends
    <3>2. mem["worker"].task = "create"
      BY <1>1, <1>10, <2>2, <3>1 DEF Calm, Written, Asks, Led
    <3>3. pc[h] \in Ended
      BY <2>2, <3>2 DEF Turns
    <3> QED
      BY <1>1, <1>3, <3>1, <3>3 DEF Calm, Written, Asks, Ended
  <2>3. CASE h = "worker" /\ "ACTIVE" \notin ever
    <3>1. Written(h) /\ state' = "ACTIVE" /\ pc[h] = "activate"
      BY <1>6, <1>10, <2>3
    <3>2. mem[h].task = "create" /\ Led(h, mem[h].task, mem[h].goal, state')
      BY <1>10, <2>3, <3>1 DEF Written
    <3> QED
      BY <1>5, <2>3, <3>1, <3>2
  <2> QED
    BY <1>2, <2>1, <2>2, <2>3
<1>11. pc'[h] \in Leaving => Calm(h) /\ pc[h] \in Leaving
  <2>1. ~Ends(h) \/ pc'[h] \notin Leaving
    BY <1>3 DEF Ends
  <2>2. ~Asks(h) \/ pc'[h] \notin Leaving
    BY <1>4 DEF Asks
  <2>3. ~Written(h) \/ pc'[h] \notin Leaving
    BY <1>4 DEF Written, Leaving
  <2>4. Calm(h) /\ pc'[h] \in Leaving => pc[h] \in Leaving
    BY <1>3 DEF Calm
  <2> QED
    BY <1>1, <2>1, <2>2, <2>3, <2>4
<1>12. pc'["worker"] \in Leaving => mem'["worker"].task = "delete"
  BY <1>2, <1>7, <1>11 DEF Calm, Same, Turns, Procs
<1>13. sunset' => pc'["timer"] \in Leaving \cup Ended \cup {"idle"}
  <2>1. CASE h = "worker"
    BY <1>2, <1>7, <2>1 DEF Same, Turns, Procs
  <2>2. CASE h = "timer" /\ sunset
    <3>1. pc[h] \in Leaving \cup Ended
      BY <1>2, <2>2 DEF Turns
    <3>2. ~Written(h) /\ ~Asks(h)
      BY <1>3, <3>1 DEF Written, Asks, Leaving, Ended
    <3> QED
      BY <1>1, <1>3, <2>2, <3>1, <3>2 DEF Calm, Ends
  <2> QED
    BY <1>2, <2>1, <2>2
<1>14. ~sunset' => pc'["timer"] \notin Leaving
  BY <1>2, <1>7, <1>11 DEF Same, Turns, Procs
<1> QED
  BY <1>9, <1>10, <1>12, <1>13, <1>14 DEF Turns

(* What was begun is not forgotten. *)
LEMMA UntouchedBefore ==
  ASSUME MountInv, NEW h \in Procs, Whole, Step(h), ~Fault, Untouched'
  PROVE  Untouched
<1>1. Calm(h) \/ Written(h) \/ Ends(h) \/ Asks(h)
  BY HandlerMoves DEF MountInv
<1>2. /\ OnCourse(h) /\ UNCHANGED phase /\ todo' \subseteq todo
      /\ h \in {"worker", "timer"}
  BY HandlerKeepsObject DEF MountInv, Procs
<1>3. sunset' = sunset /\ ("ACTIVE" \in ever => "ACTIVE" \in ever')
  <2>1. UNCHANGED fixed
    BY DEF Step, TargetExists, Finish, Persist, DuplicateHpa, DuplicateWorkload, DuplicateService,
       AskShadow, AskReady, ListPods, StoreOriginal, PatchPod, CommitConfig, RemoveWorkload, RemoveHpa,
       RemoveService, ReadTarget, RestoreTarget, ListBridges, RemoveBridge
  <2> QED
    BY <1>1, <2>1 DEF fixed, Calm, Written, Ends, Asks
<1>4. phase \in {"deleting", "gone"} => "delete" \in todo
  BY <1>2 DEF Untouched
<1>5. ASSUME mem["worker"].task = "delete", pc["worker"] # "rm workload" PROVE FALSE
  <2>1. h = "worker"
    BY <1>1, <1>2, <1>5 DEF Untouched, Calm, Written, Ends, Asks, Same, Procs
  <2>2. ~Calm(h)
    BY <1>5, <2>1 DEF Untouched, Calm
  <2>3. Ends(h)
    BY <1>1, <1>2, <1>5, <2>1, <2>2 DEF OnCourse, Written, Asks
  <2>4. pc[h] = "done" /\ todo' = todo \ {"delete"}
    BY <1>5, <2>1, <2>3 DEF Ends, Ended, Whole
  <2>5. phase \in {"deleting", "gone"}
    BY <1>5 DEF MountInv, Owed, MountTypeOK
  <2> QED
    BY <1>2, <2>4, <2>5 DEF Untouched
<1> QED
  BY <1>3, <1>4, <1>5 DEF Untouched

(* What a handler can do at a call. *)
LEMMA StepAt ==
  ASSUME NEW h \in Procs, Step(h)
  PROVE  /\ pc[h] \in Ended => Finish(h)
         /\ pc[h] = "exists?" => TargetExists(h)
         /\ pc[h] = "intact?" => AskReady(h)
         /\ pc[h] = "rm workload" => RemoveWorkload(h)
<1>1. CASE \/ TargetExists(h) \/ DuplicateHpa(h) \/ DuplicateWorkload(h) \/ DuplicateService(h)
           \/ AskShadow(h) \/ AskReady(h) \/ ListPods(h) \/ StoreOriginal(h) \/ PatchPod(h) \/ CommitConfig(h)
  BY <1>1 DEF TargetExists, DuplicateHpa, DuplicateWorkload, DuplicateService, AskShadow, AskReady,
     ListPods, StoreOriginal, PatchPod, CommitConfig, Ended
<1>2. CASE \/ RemoveWorkload(h) \/ RemoveHpa(h) \/ RemoveService(h) \/ ReadTarget(h) \/ RestoreTarget(h)
           \/ ListBridges(h) \/ RemoveBridge(h)
  BY <1>2 DEF RemoveWorkload, RemoveHpa, RemoveService, ReadTarget, RestoreTarget, ListBridges,
     RemoveBridge, Ended
<1>3. CASE Finish(h)
  BY <1>3 DEF Finish, Ended
<1>4. CASE Persist(h)
  BY <1>4, MachineLeads DEF Persist, Ended
<1> QED
  BY <1>1, <1>2, <1>3, <1>4 DEF Step

LEMMA ReadyStays ==
  ASSUME Ready, UNCHANGED <<pods, copy>>
  PROVE  Ready'
  BY DEF Ready, Live, pods, copy

(* A timer that finds the mount whole leaves it alone. *)
LEMMA TimerKeepsPrepared ==
  ASSUME MountInv, Course, Step("timer"), ~Fault, Untouched, Untouched'
  PROVE  Prepared'
<1> USE DEF Procs
<1>1. Calm("timer") \/ Written("timer") \/ Ends("timer") \/ Asks("timer")
  BY HandlerMoves DEF MountInv, Course
<1>2. pc["timer"] # "idle" /\ OnCourse("timer")
  BY StepIsHandlerStep DEF MountInv, HandlerStep
<1>3. /\ stale = {} /\ "ACTIVE" \in ever /\ state = "ACTIVE" /\ Ready /\ Copied
      /\ pc["timer"] \in {"exists?", "intact?"} \cup Ended /\ mem["timer"].cur = "ACTIVE"
      /\ mem["worker"].task = "create" => mem["worker"].cur = state
  BY <1>2 DEF Course, Turns, Prepared
<1>4. Finish("timer") \/ TargetExists("timer") \/ AskReady("timer")
  BY <1>3, StepAt
<1>5. UNCHANGED <<pods, copy>> /\ Ready' /\ Copied' /\ stale' = {}
  <2>1. UNCHANGED <<pods, copy>>
    BY <1>4 DEF Finish, TargetExists, AskReady
  <2> QED
    BY <1>3, <2>1, ReadyStays DEF pods, copy, Copied
<1>6. UNCHANGED <<state, ever>> /\ Same("worker")
  <2>1. ~Written("timer")
    BY <1>3 DEF Written, Ended, Lined
  <2> QED
    BY <1>1, <2>1 DEF Calm, Ends, Asks
<1>7. /\ pc'["timer"] \in {"idle", "intact?"} \cup Ended
      /\ pc'["timer"] # "idle" => mem'["timer"].cur = "ACTIVE"
  <2>1. CASE Finish("timer")
    BY <2>1 DEF Finish, Goto, MountInv, ProcsTyped
  <2>2. CASE TargetExists("timer")
    <3>1. Asks("timer")
      BY <1>1, <2>2 DEF TargetExists, Calm, Ends, Written, Leaving, Lined, Ended
    <3> QED
      BY <1>3, <3>1 DEF Asks, Led
  <2>3. CASE AskReady("timer") /\ pc["timer"] = "intact?"
    BY <1>3, <2>3 DEF AskReady, Goto, MountInv, ProcsTyped, Ended
  <2>4. CASE AskReady("timer") /\ pc["timer"] # "intact?"
    BY <1>3, <2>4 DEF AskReady, Ended
  <2> QED
    BY <1>4, <2>1, <2>2, <2>3, <2>4
<1>8. pc'["worker"] \in Lined => FALSE
  BY <1>2, <1>3, <1>6 DEF MountInv, OnCourse, Course, Turns, Same, Ended, Lined
<1>9. pc'["worker"] \notin {"arranged", "duplicate service", "activate"}
  BY <1>8 DEF Lined
<1> QED
  BY <1>3, <1>5, <1>6, <1>7, <1>8, <1>9 DEF Prepared, Same

(* What the create handler's calls do to the copies and to the pods. *)
LEMMA LinedEffects ==
  ASSUME MountTypeOK, NEW h \in Procs, Step(h), pc[h] \in Lined
  PROVE  /\ stale' = stale
         /\ (service => service') /\ (shadow # "none" => shadow' # "none")
         /\ DuplicateWorkload(h) => shadow' # "none"
         /\ DuplicateService(h) => service' /\ shadow' = shadow
         /\ (shadow = "ready" => shadow' = "ready")
<1>1. ~(\/ RemoveWorkload(h) \/ RemoveHpa(h) \/ RemoveService(h) \/ ReadTarget(h) \/ RestoreTarget(h)
        \/ ListBridges(h) \/ RemoveBridge(h) \/ Finish(h) \/ TargetExists(h))
  BY DEF RemoveWorkload, RemoveHpa, RemoveService, ReadTarget, RestoreTarget, ListBridges,
     RemoveBridge, Finish, TargetExists, Lined
<1>2. CASE DuplicateHpa(h)
  <2>1. stale' = stale /\ shadow' = shadow /\ service' = service /\ pc[h] = "duplicate hpa"
    BY <1>2 DEF DuplicateHpa, pods
  <2> QED
    BY <2>1 DEF DuplicateWorkload, DuplicateService
<1>3. CASE DuplicateWorkload(h)
  <2>1. /\ stale' = stale /\ service' = service /\ pc[h] = "duplicate workload"
        /\ shadow' = IF shadow = "none" THEN "starting" ELSE shadow
    BY <1>3 DEF DuplicateWorkload, pods
  <2> QED
    BY <2>1 DEF DuplicateService
<1>4. CASE DuplicateService(h)
  <2>1. stale' = stale /\ shadow' = shadow /\ service' /\ pc[h] = "duplicate service"
    BY <1>4 DEF DuplicateService, pods
  <2> QED
    BY <2>1 DEF DuplicateWorkload
<1>5. CASE ~DuplicateHpa(h) /\ ~DuplicateWorkload(h) /\ ~DuplicateService(h)
  <2>1. UNCHANGED <<stale, shadow, service>>
    BY <1>1, <1>5 DEF Step, Persist, AskShadow, AskReady, ListPods, StoreOriginal, PatchPod, CommitConfig,
       pods, copy
  <2> QED
    BY <1>5, <2>1
<1> QED
  BY <1>2, <1>3, <1>4, <1>5

LEMMA WorkerKeepsPrepared ==
  ASSUME MountInv, Course, Step("worker"), ~Fault, Untouched, Untouched'
  PROVE  Prepared'
<1> DEFINE w == "worker"
<1> USE DEF Procs
<1>1. Calm(w) \/ Written(w) \/ Ends(w) \/ Asks(w)
  BY HandlerMoves DEF MountInv, Course
<1>2. pc[w] # "idle" /\ OnCourse(w)
  BY StepIsHandlerStep DEF MountInv, HandlerStep
<1>3. /\ stale = {}
      /\ state # "REQUESTED" \/ pc[w] = "arranged" => Copied
      /\ pc[w] = "duplicate service" => shadow # "none"
      /\ pc[w] \in Lined \ Copying => state # "REQUESTED"
      /\ mem[w].task = "create" => mem[w].cur = state
      /\ pc[w] = "activate" => Ready
      /\ "ACTIVE" \in ever => /\ state = "ACTIVE" /\ Ready
                              /\ pc["timer"] \in {"idle", "exists?", "intact?"} \cup Ended
                              /\ pc["timer"] # "idle" => mem["timer"].cur = "ACTIVE"
  BY DEF Course, Prepared
<1>4. Same("timer")
  BY <1>1 DEF Calm, Written, Ends, Asks
<1>5. CASE Ends(w)
  <2>1. UNCHANGED <<pods, copy, state, ever>> /\ pc'[w] = "idle" /\ mem'[w].task = "none"
    BY <1>5 DEF Ends
  <2>2. (Ready => Ready') /\ (Copied => Copied') /\ stale' = stale
    BY <2>1, ReadyStays DEF Copied, pods, copy
  <2>3. pc'[w] \notin Lined /\ pc'[w] \notin {"arranged", "duplicate service", "activate"}
    BY <2>1 DEF Lined
  <2> QED
    BY <1>3, <1>4, <2>1, <2>2, <2>3 DEF Prepared, Same
<1>6. CASE Written(w)
  <2>1. /\ UNCHANGED <<pods, copy>> /\ mem'[w].cur = state' /\ state' # "REQUESTED"
        /\ ever' = ever \cup ({state'} \cap {"ACTIVE", "MISSING"})
        /\ pc[w] \in {"arranged"} \cup (Lined \ Copying)
        /\ pc'[w] \notin {"arranged", "duplicate service", "activate"}
        /\ state' = "ACTIVE" => pc[w] = "activate"
    BY <1>6 DEF Written, Led, Lined, Copying, Ended
  <2>2. (Ready => Ready') /\ Copied' /\ stale' = stale
    BY <1>3, <2>1, ReadyStays DEF Copied, pods, copy
  <2>3. "ACTIVE" \notin ever /\ pc["timer"] = "idle"
    <3>1. mem[w].task = "create" /\ pc[w] \notin Ended
      BY <1>2, <1>6 DEF OnCourse, Written, Lined, Ended
    <3> QED
      BY <3>1 DEF Course, Turns
  <2>4. "ACTIVE" \in ever' => state' = "ACTIVE" /\ Ready'
    BY <1>3, <2>1, <2>2, <2>3
  <2> QED
    BY <1>3, <1>4, <2>1, <2>2, <2>3, <2>4 DEF Prepared, Same
<1>7. CASE Calm(w)
  <2>1. /\ UNCHANGED <<state, ever>> /\ mem'[w].task = mem[w].task /\ mem'[w].cur = mem[w].cur
        /\ pc'[w] \in Lined \ Copying => pc[w] \in Lined \ Copying
        /\ pc'[w] = "duplicate service" => DuplicateWorkload(w)
        /\ pc'[w] = "arranged" => DuplicateService(w)
        /\ pc'[w] = "activate" => Ready /\ UNCHANGED <<pods, copy>>
    BY <1>7 DEF Calm
  <2>2. pc[w] \notin Leaving
    <3>1. pc'[w] # "rm workload" /\ (pc[w] \in Leaving => mem[w].task = "delete")
      BY <1>7 DEF Calm, Course, Turns
    <3> QED
      BY <2>1, <3>1 DEF Untouched
  <2>3. pc[w] \in Lined /\ mem[w].task = "create" /\ pc[w] \notin Ended
    <3>1. pc[w] \in Lined
      BY <1>7, <2>2 DEF Calm
    <3> QED
      BY <1>2, <3>1 DEF OnCourse, Lined, Ended
  <2>4. "ACTIVE" \notin ever'
    BY <2>1, <2>3 DEF Course, Turns
  <2>5. /\ stale' = stale
        /\ (service => service') /\ (shadow # "none" => shadow' # "none")
        /\ DuplicateWorkload(w) => shadow' # "none"
        /\ DuplicateService(w) => service' /\ shadow' = shadow
    BY <2>3, LinedEffects DEF MountInv
  <2>6. DuplicateService(w) => pc[w] = "duplicate service"
    BY DEF DuplicateService
  <2>7. (Copied => Copied') /\ (pc'[w] = "arranged" => Copied')
    BY <1>3, <2>1, <2>5, <2>6 DEF Copied
  <2>8. pc'[w] = "activate" => Ready'
    BY <2>1, ReadyStays
  <2> QED
    BY <1>3, <2>1, <2>3, <2>4, <2>5, <2>7, <2>8 DEF Prepared
<1>8. ~Asks(w)
  BY <1>2 DEF Asks, OnCourse
<1> QED
  BY <1>1, <1>5, <1>6, <1>7, <1>8

LEMMA HandlerKeepsPrepared ==
  ASSUME MountInv, Course, NEW h \in Procs, Step(h), ~Fault
  PROVE  Prepared'
<1> SUFFICES ASSUME Untouched' PROVE Prepared'
  BY DEF Prepared
<1>1. Untouched
  BY UntouchedBefore DEF Course
<1> QED
  BY <1>1, TimerKeepsPrepared, WorkerKeepsPrepared DEF Procs

(* While a handler puts Carrier into the pods the other one does not begin *)
(* to remove the shadow. *)
LEMMA HandlerKeepsShadowed ==
  ASSUME MountInv, Course, NEW h \in Procs, Step(h), ~Fault
  PROVE  Shadowed'
<1> USE DEF Procs
<1>1. Calm(h) \/ Written(h) \/ Ends(h) \/ Asks(h)
  BY HandlerMoves DEF MountInv, Course
<1>2. OnCourse(h) /\ h \in {"worker", "timer"} /\ pc[h] # "idle"
  BY StepIsHandlerStep DEF MountInv, HandlerStep
<1>3. Installing \cap Leaving = {} /\ Installing \subseteq Lined /\ Installing \cap Ended = {}
  BY DEF Installing, Leaving, Lined, Ended
<1>4. ASSUME pc'[h] \in Installing PROVE shadow' = "ready"
  <2>1. CASE Calm(h)
    <3>1. pc[h] \in Lined
      BY <1>3, <1>4, <2>1 DEF Calm, Lined, Leaving, Ended
    <3>2. pc[h] \in Installing => shadow = "ready"
      BY DEF Course, Shadowed
    <3> QED
      BY <1>4, <2>1, <3>1, <3>2, LinedEffects DEF Calm, MountInv
  <2>2. CASE Written(h)
    <3>1. pc[h] \in Installing /\ UNCHANGED copy
      BY <1>4, <2>2 DEF Written, Led, Installing, Ended
    <3> QED
      BY <3>1 DEF Course, Shadowed, copy
  <2>3. CASE Ends(h) \/ Asks(h)
    BY <1>4, <2>3 DEF Ends, Asks, Led, Installing, Ended
  <2> QED
    BY <1>1, <2>1, <2>2, <2>3
<1>5. ASSUME NEW g \in Procs \ {h}, pc'[g] \in Installing PROVE shadow' = "ready"
  <2>1. pc[g] \in Installing /\ shadow = "ready"
    <3>1. Same(g)
      BY <1>1 DEF Calm, Written, Ends, Asks
    <3> QED
      BY <1>5, <3>1 DEF Same, Course, Shadowed
  <2>2. pc[g] \in Lined /\ mem[g].task \in {"create", "timer"} /\ pc[g] \notin Leaving
        /\ pc[g] \notin Ended /\ pc[g] \notin {"idle", "exists?", "intact?"}
    <3>1. pc[g] \in Lined
      BY <1>3, <2>1
    <3> QED
      BY <1>3, <2>1, <3>1 DEF MountInv, OnCourse, Installing
  <2>3. CASE pc[h] = "rm workload"
    <3>1. pc[h] \in Leaving
      BY <2>3 DEF Leaving
    <3>2. CASE h = "timer"
      <4>1. "ACTIVE" \in ever /\ g = "worker"
        BY <1>2, <3>2 DEF Course, Turns
      <4>2. mem[g].task = "create"
        BY <2>2, <4>1 DEF MountInv, OnCourse
      <4> QED
        BY <2>2, <4>1, <4>2 DEF Course, Turns
    <3>3. CASE h = "worker"
      <4>1. mem[h].task = "delete" /\ "delete" \in todo
        BY <3>1, <3>3 DEF Course, Turns, MountInv, Owed
      <4>2. ~sunset /\ "ACTIVE" \in ever
        BY <2>2, <3>3 DEF Course, Turns
      <4>3. Untouched
        BY <2>3, <3>3, <4>1, <4>2 DEF Untouched
      <4> QED
        BY <2>2, <3>3, <4>2, <4>3 DEF Course, Prepared
    <3> QED
      BY <1>2, <3>2, <3>3
  <2>4. CASE pc[h] # "rm workload"
    <3>1. ~RemoveWorkload(h)
      BY <2>4 DEF RemoveWorkload
    <3>2. shadow' = shadow \/ DuplicateWorkload(h)
      BY <3>1 DEF Step, TargetExists, Finish, Persist, DuplicateHpa, DuplicateService,
         AskShadow, AskReady, ListPods, StoreOriginal, PatchPod, CommitConfig, RemoveHpa,
         RemoveService, ReadTarget, RestoreTarget, ListBridges, RemoveBridge, copy
    <3> QED
      BY <2>1, <3>2 DEF DuplicateWorkload
  <2> QED
    BY <2>3, <2>4
<1> QED
  BY <1>4, <1>5 DEF Shadowed

-----------------------------------------------------------------------------
(* A bare pod.                                                             *)

LEMMA OnlyReplica ==
  ASSUME kind = "pod", NEW p \in Replicas, NEW q \in Replicas
  PROVE  p = q
  BY DEF Replicas

LEMMA KindStays ==
  ASSUME NEW h \in Procs, Step(h)
  PROVE  UNCHANGED <<kind, sunset>> /\ Replicas' = Replicas
<1>1. UNCHANGED fixed
  BY DEF Step, TargetExists, Finish, Persist, DuplicateHpa, DuplicateWorkload, DuplicateService,
     AskShadow, AskReady, ListPods, StoreOriginal, PatchPod, CommitConfig, RemoveWorkload, RemoveHpa,
     RemoveService, ReadTarget, RestoreTarget, ListBridges, RemoveBridge
<1> QED
  BY <1>1 DEF fixed, Replicas

(* How a handler comes to be at the pods. *)
LEMMA ToThePods ==
  ASSUME MountInv, Whole, NEW h \in Procs, Step(h), ~Fault, pc'[h] \in InPods
  PROVE  ListPods(h) \/ StoreOriginal(h) \/ PatchPod(h) \/ CommitConfig(h)
<1> USE DEF MountInv
<1>1. /\ target /\ pc[h] \notin {"recover", "missing", "unarranged"}
      /\ mem[h].cur # "MISSING" /\ mem[h].goal # "missing" /\ OnCourse(h)
  BY DEF Whole
<1>2. ~Persist(h) /\ ~Finish(h) /\ ~TargetExists(h)
  BY <1>1, PersistMoves, FinishEnds, TargetExistsAsks DEF Written, Ends, Asks, Led, Ended, InPods
<1>3. ~(\/ RemoveWorkload(h) \/ RemoveHpa(h) \/ RemoveService(h) \/ ReadTarget(h) \/ RestoreTarget(h)
        \/ ListBridges(h) \/ RemoveBridge(h))
  BY <1>1, RemovingIsCalm DEF Leaving, Ended, InPods
<1>4. ~DuplicateHpa(h) /\ ~DuplicateWorkload(h) /\ ~DuplicateService(h)
  BY DEF DuplicateHpa, DuplicateWorkload, DuplicateService, Goto, ProcsTyped, InPods
<1>5. ~AskShadow(h)
  BY DEF AskShadow, AfterShadow, Goto, ProcsTyped, InPods
<1>6. ~AskReady(h)
  BY DEF AskReady, Goto, ProcsTyped, InPods
<1> QED
  BY <1>2, <1>3, <1>4, <1>5, <1>6 DEF Step

(* What a step makes of the pods. *)
LEMMA PodEffects ==
  ASSUME MountInv, NEW h \in Procs, Step(h), kind = "pod"
  PROVE  /\ stale' = stale
         /\ \/ image' = image
            \/ PatchPod(h) /\ image' = [image EXCEPT ![mem[h].pod] = "carrier"] /\ store' = store
            \/ /\ RestoreTarget(h) /\ store' = store
               /\ \E p \in Replicas : image' = [image EXCEPT ![p] = store]
         /\ store' = store \/ StoreOriginal(h)
<1>1. CASE PatchPod(h)
  BY <1>1 DEF PatchPod
<1>2. CASE RestoreTarget(h)
  BY <1>2 DEF RestoreTarget
<1>3. CASE ~PatchPod(h) /\ ~RestoreTarget(h)
  BY <1>3 DEF Step, TargetExists, Finish, Persist, DuplicateHpa, DuplicateWorkload, DuplicateService,
     AskShadow, AskReady, ListPods, StoreOriginal, CommitConfig, RemoveWorkload, RemoveHpa,
     RemoveService, ReadTarget, ListBridges, RemoveBridge, pods
<1> QED
  BY <1>1, <1>2, <1>3

(* What a handler remembers of the pods. *)
LEMMA MemoryOfPods ==
  ASSUME MountInv, NEW h \in Procs,
         ListPods(h) \/ StoreOriginal(h) \/ PatchPod(h) \/ CommitConfig(h)
  PROVE  /\ pc[h] \in {"list pods"} \cup InPods
         /\ ListPods(h) /\ pc'[h] \in InPods =>
              /\ pc'[h] = "store" /\ mem'[h].left = Live
              /\ \A p \in mem'[h].carrying : image[p] = "carrier"
         /\ pc[h] \in InPods => /\ mem'[h].left \subseteq mem[h].left
                                /\ mem'[h].carrying = mem[h].carrying
                                /\ mem'[h].pod = mem[h].pod \/ mem'[h].pod \in mem[h].left
                                /\ pc'[h] \in {"patch", "commit"} /\ pc[h] = "store" => mem'[h].pod \in mem[h].left
<1> USE DEF MountInv
<1>1. CASE ListPods(h)
  <2>1. pc[h] = "list pods" /\ pc'[h] # "patch" /\ pc'[h] # "commit"
    BY <1>1 DEF ListPods, Goto, ProcsTyped
  <2>2. ASSUME pc'[h] \in InPods
        PROVE  mem'[h].left = Live /\ mem'[h].carrying = {p \in Live : image[p] = "carrier"}
    <3> DEFINE m == [mem[h] EXCEPT !.left = Live, !.named = Live, !.fresh = Live,
                                   !.carrying = {p \in Live : image[p] = "carrier"}]
    <3>1. mem' = [mem EXCEPT ![h] = m]
      BY <1>1, <2>2 DEF ListPods, Goto, ProcsTyped, InPods
    <3>2. m.left = Live /\ m.carrying = {p \in Live : image[p] = "carrier"}
      BY DEF ProcsTyped, Memory
    <3> HIDE DEF m
    <3>3. mem'[h] = m
      BY <3>1 DEF ProcsTyped
    <3> QED
      BY <3>2, <3>3
  <2>3. pc[h] \notin InPods
    BY <2>1 DEF InPods
  <2> QED
    BY <1>1, <2>1, <2>2, <2>3 DEF InPods
<1>2. CASE StoreOriginal(h)
  <2>1. PICK p \in mem[h].left : mem' = [mem EXCEPT ![h].pod = p, ![h].left = @ \ {p}]
    BY <1>2 DEF StoreOriginal
  <2> DEFINE m == [mem[h] EXCEPT !.pod = p, !.left = @ \ {p}]
  <2>2. mem' = [mem EXCEPT ![h] = m]
    BY <2>1 DEF ProcsTyped
  <2>3. m.left = mem[h].left \ {p} /\ m.pod = p /\ m.carrying = mem[h].carrying
    BY DEF ProcsTyped, Memory
  <2> HIDE DEF m
  <2>4. mem'[h] = m
    BY <2>2 DEF ProcsTyped
  <2>5. pc[h] = "store" /\ ~ListPods(h)
    BY <1>2 DEF StoreOriginal, ListPods
  <2> QED
    BY <2>3, <2>4, <2>5 DEF InPods
<1>3. CASE PatchPod(h)
  <2>1. mem' = mem \/ Outdated(mem[h].pod, FALSE)
    BY <1>3 DEF PatchPod
  <2>2. mem'[h].left = mem[h].left /\ mem'[h].carrying = mem[h].carrying /\ mem'[h].pod = mem[h].pod
    BY <2>1, OutdatedScalars
  <2>3. pc[h] = "patch" /\ ~ListPods(h)
    BY <1>3 DEF PatchPod, ListPods
  <2> QED
    BY <2>2, <2>3 DEF InPods
<1>4. CASE CommitConfig(h)
  BY <1>4 DEF CommitConfig, ListPods, InPods
<1> QED
  BY <1>1, <1>2, <1>3, <1>4

LEMMA HandlerKeepsSingle ==
  ASSUME MountInv, Course, NEW h \in Procs, Step(h), ~Fault, kind = "pod"
  PROVE  Single'
<1>1. Single /\ Replicas' = Replicas /\ Replicas \subseteq Pods
  BY KindStays, ReplicasArePods DEF Course
<1>2. \A g \in Procs \ {h} : Same(g)
  BY HandlerMoves DEF MountInv, Course, Calm, Written, Ends, Asks
<1>3. image \in [Pods -> {"none", "original", "carrier"}]
  BY DEF MountInv, MountTypeOK
<1>4. PatchPod(h) => mem[h].pod \in Replicas
  BY <1>1 DEF Single, PatchPod
<1>5. stale' = {} /\ \A p \in Pods \ Replicas : image'[p] = "none"
  BY <1>1, <1>3, <1>4, PodEffects DEF Single
<1>6. ASSUME pc'[h] \in InPods
      PROVE  /\ mem'[h].left \subseteq Replicas
             /\ pc'[h] \in {"patch", "commit"} => mem'[h].pod \in Replicas
  <2>1. ListPods(h) \/ StoreOriginal(h) \/ PatchPod(h) \/ CommitConfig(h)
    BY <1>6, ToThePods DEF Course
  <2>2. CASE ListPods(h)
    <3>1. pc'[h] = "store" /\ mem'[h].left = Live
      BY <1>6, <2>2, MemoryOfPods
    <3>2. Live \subseteq Replicas
      BY <1>1 DEF Live, Single
    <3> QED
      BY <3>1, <3>2
  <2>3. CASE ~ListPods(h)
    <3>1. pc[h] \in InPods
      BY <2>1, <2>3 DEF StoreOriginal, PatchPod, CommitConfig, InPods
    <3>2. mem[h].left \subseteq Replicas /\ (pc[h] \in {"patch", "commit"} => mem[h].pod \in Replicas)
      BY <1>1, <3>1 DEF Single
    <3>3. /\ mem'[h].left \subseteq mem[h].left
          /\ mem'[h].pod = mem[h].pod \/ mem'[h].pod \in mem[h].left
          /\ pc'[h] \in {"patch", "commit"} /\ pc[h] = "store" => mem'[h].pod \in mem[h].left
      BY <2>1, <3>1, MemoryOfPods
    <3> QED
      BY <3>1, <3>2, <3>3 DEF InPods
  <2> QED
    BY <2>2, <2>3
<1>7. ASSUME NEW g \in Procs
      PROVE  /\ pc'[g] \in InPods => mem'[g].left \subseteq Replicas
             /\ pc'[g] \in {"patch", "commit"} => mem'[g].pod \in Replicas
  <2>1. CASE g = h
    BY <1>6, <2>1 DEF InPods
  <2>2. CASE g # h
    BY <1>1, <1>2, <2>2 DEF Same, Single
  <2> QED
    BY <2>1, <2>2
<1> QED
  BY <1>1, <1>5, <1>7 DEF Single

(* What was restored stays so. *)
LEMMA RestoredStays ==
  ASSUME MountInv, Course, NEW h \in Procs, Step(h), ~Fault, Restored
  PROVE  Restored'
<1> USE DEF Procs
<1>1. Calm(h) \/ Written(h) \/ Ends(h) \/ Asks(h)
  BY HandlerMoves DEF MountInv, Course
<1>2. /\ OnCourse(h) /\ UNCHANGED phase /\ todo' \subseteq todo /\ h \in {"worker", "timer"}
      /\ sunset' = sunset
  BY HandlerKeepsObject, KindStays DEF MountInv
<1>3. ASSUME "delete" \in todo'
      PROVE  mem'["worker"].task = "delete" /\ pc'["worker"] \in {"list bridges", "rm bridge"} \cup Ended
  <2>1. mem["worker"].task = "delete" /\ pc["worker"] \in {"list bridges", "rm bridge"} \cup Ended
    BY <1>2, <1>3 DEF Restored
  <2>2. CASE h = "timer"
    <3>1. Same("worker")
      BY <1>1, <2>2 DEF Calm, Written, Ends, Asks
    <3> QED
      BY <2>1, <3>1 DEF Same
  <2>3. CASE h = "worker"
    <3>1. ~Written(h) /\ ~Asks(h)
      BY <1>2, <2>1, <2>3 DEF Written, Asks, OnCourse
    <3>2. ~Ends(h)
      BY <1>3, <2>1, <2>3 DEF Ends, Ended, Course, Whole
    <3>3. Calm(h)
      BY <1>1, <3>1, <3>2
    <3>4. pc[h] \notin Ended
      BY <3>3 DEF Calm, Leaving, Lined, Ended
    <3> QED
      BY <2>1, <2>3, <3>3, <3>4 DEF Calm
  <2> QED
    BY <1>2, <2>2, <2>3
<1> QED
  BY <1>2, <1>3 DEF Restored

(* Who restores a bare pod is the deletion, or a sunset; no handler is at  *)
(* the pods afterwards that was there before. *)
LEMMA RestoringIsAlone ==
  ASSUME MountInv, Course, NEW h \in Procs, RestoreTarget(h), ~Fault, ~Restored'
  PROVE  \A g \in Procs : pc'[g] \notin InPods
<1> USE DEF Procs
<1>1. Step(h)
  BY DEF Step
<1>2. /\ pc[h] = "restore target" /\ pc[h] \in Leaving
  BY DEF RestoreTarget, Leaving
<1>3. Calm(h) /\ pc'[h] = "list bridges"
  BY RemovingIsCalm DEF MountInv, Course, Whole
<1>4. sunset
  <2>1. CASE h = "timer"
    BY <1>2, <2>1 DEF Course, Turns
  <2>2. CASE h = "worker"
    <3>1. mem[h].task = "delete"
      BY <1>2, <2>2 DEF Course, Turns
    <3>2. phase \in {"deleting", "gone"}
      BY <2>2, <3>1 DEF MountInv, Owed, MountTypeOK
    <3>3. UNCHANGED <<phase, todo, sunset>> /\ mem'[h].task = "delete"
      BY <1>3, <3>1 DEF RestoreTarget, mount, fixed, Calm
    <3> QED
      BY <1>3, <2>2, <3>2, <3>3 DEF Restored
  <2> QED
    BY <2>1, <2>2
<1>5. InPods \subseteq Lined /\ InPods \cap (Leaving \cup Ended \cup {"idle"}) = {}
  BY DEF InPods, Lined, Leaving, Ended
<1>6. ASSUME NEW g \in Procs \ {h} PROVE pc[g] \notin InPods
  <2>1. CASE g = "timer"
    BY <1>4, <1>5, <2>1 DEF Course, Turns
  <2>2. CASE g = "worker"
    <3>1. "ACTIVE" \in ever
      BY <1>2, <1>6, <2>2 DEF Course, Turns, Leaving
    <3>2. pc[g] \in Lined => mem[g].task = "create"
      BY <2>2 DEF MountInv, OnCourse
    <3> QED
      BY <1>5, <2>2, <3>1, <3>2 DEF Course, Turns
  <2> QED
    BY <2>1, <2>2
<1> QED
  BY <1>3, <1>5, <1>6 DEF Calm, Same, InPods

LEMMA HandlerKeepsStored ==
  ASSUME MountInv, Course, NEW h \in Procs, Step(h), ~Fault, kind = "pod"
  PROVE  Stored'
<1> SUFFICES ASSUME ~Restored'
             PROVE  /\ store' = "carrier" => \A p \in Pods : image'[p] # "original"
                    /\ \A g \in Procs : pc'[g] \in InPods => \A p \in mem'[g].carrying : image'[p] = "carrier"
  BY DEF Stored
<1>1. ~Restored
  BY RestoredStays
<1>2. /\ store = "carrier" => \A p \in Pods : image[p] # "original"
      /\ \A g \in Procs : pc[g] \in InPods => \A p \in mem[g].carrying : image[p] = "carrier"
  BY <1>1 DEF Course, Stored
<1>3. \A g \in Procs \ {h} : Same(g)
  BY HandlerMoves DEF MountInv, Course, Calm, Written, Ends, Asks
<1>4. /\ image \in [Pods -> {"none", "original", "carrier"}] /\ Replicas \subseteq Pods
      /\ \A g \in Procs : mem[g].carrying \subseteq Pods /\ mem'[g].carrying \subseteq Pods
  <2>1. ProcsTyped'
    BY HandlerKeepsInv DEF MountInv
  <2> QED
    BY <2>1, ReplicasArePods DEF MountInv, MountTypeOK, ProcsTyped, Memory
<1>5. CASE StoreOriginal(h)
  <2>1. PICK p \in mem[h].left : store' = IF p \in mem[h].carrying THEN "carrier" ELSE "original"
    BY <1>5 DEF StoreOriginal
  <2>2. pc[h] = "store" /\ image' = image
    BY <1>5 DEF StoreOriginal, pods
  <2>3. p \in Replicas /\ \A q \in Pods \ Replicas : image[q] = "none"
    BY <2>1, <2>2 DEF Course, Single, InPods
  <2>4. store' = "carrier" => \A q \in Pods : image'[q] # "original"
    <3> SUFFICES ASSUME p \in mem[h].carrying, NEW q \in Pods PROVE image[q] # "original"
      BY <2>1, <2>2
    <3>1. image[p] = "carrier"
      BY <1>2, <2>2 DEF InPods
    <3>2. q \in Replicas => q = p
      BY <2>3, OnlyReplica
    <3> QED
      BY <2>3, <3>1, <3>2
  <2>5. mem'[h].carrying = mem[h].carrying /\ pc[h] \in InPods
    BY <1>5, <2>2, MemoryOfPods DEF InPods
  <2> QED
    BY <1>2, <1>3, <2>2, <2>4, <2>5 DEF Same
<1>6. CASE PatchPod(h)
  <2>1. /\ pc[h] \in InPods /\ store' = store
        /\ image' = image \/ image' = [image EXCEPT ![mem[h].pod] = "carrier"]
    BY <1>6 DEF PatchPod, InPods
  <2>2. mem'[h].carrying = mem[h].carrying
    BY <1>6, <2>1, MemoryOfPods
  <2>3. \A p \in Pods : image'[p] \in {image[p], "carrier"}
    BY <1>4, <2>1
  <2>4. \A g \in Procs : pc'[g] \in InPods => pc[g] \in InPods /\ mem'[g].carrying = mem[g].carrying
    BY <1>3, <2>1, <2>2 DEF Same
  <2> QED
    BY <1>2, <1>4, <2>1, <2>3, <2>4
<1>7. CASE RestoreTarget(h)
  <2>1. \A g \in Procs : pc'[g] \notin InPods
    BY <1>7, RestoringIsAlone
  <2>2. store' = store /\ \A p \in Pods : image'[p] \in {image[p], store}
    <3>1. store' = store /\ (image' = image \/ \E p \in Replicas : image' = [image EXCEPT ![p] = store])
      BY <1>7, PodEffects DEF RestoreTarget
    <3> QED
      BY <1>4, <3>1
  <2> QED
    BY <1>2, <2>1, <2>2
<1>8. CASE ~StoreOriginal(h) /\ ~PatchPod(h) /\ ~RestoreTarget(h)
  <2>1. image' = image /\ store' = store
    BY <1>8, PodEffects
  <2>2. ASSUME pc'[h] \in InPods PROVE \A p \in mem'[h].carrying : image[p] = "carrier"
    <3>1. ListPods(h) \/ CommitConfig(h)
      BY <1>8, <2>2, ToThePods DEF Course
    <3>2. CASE ListPods(h)
      BY <2>2, <3>2, MemoryOfPods
    <3>3. CASE CommitConfig(h)
      <4>1. pc[h] \in InPods /\ mem'[h].carrying = mem[h].carrying
        BY <3>3 DEF CommitConfig, InPods
      <4> QED
        BY <1>2, <4>1
    <3> QED
      BY <3>1, <3>2, <3>3
  <2> QED
    BY <1>2, <1>3, <2>1, <2>2 DEF Same
<1> QED
  BY <1>5, <1>6, <1>7, <1>8

LEMMA HandlerKeepsCourse ==
  ASSUME MountInv, Course, NEW h \in Procs, Step(h), ~Fault
  PROVE  Course'
<1>1. Whole' /\ Turns' /\ Prepared' /\ Shadowed'
  BY HandlerKeepsWhole, HandlerKeepsTurns, HandlerKeepsPrepared, HandlerKeepsShadowed DEF Course
<1>2. kind' = kind
  BY KindStays
<1> QED
  BY <1>1, <1>2, HandlerKeepsSingle, HandlerKeepsStored DEF Course

-----------------------------------------------------------------------------
(* The steps outside the handlers.                                         *)

Outside ==
  \/ CreateObject \/ DeleteObject \/ RemoveFinalizer \/ ShadowUp \/ ShadowGoes \/ TargetGoes
  \/ TargetReturns \/ GracePasses \/ \E b \in Bridges : CreateBridge(b)
  \/ \E p \in Pods : PodUp(p) \/ Rollout(p) \/ PodGoes(p)

LEMMA OutsideIsSame ==
  ASSUME MountInv, Course, Outside, ~Fault
  PROVE  /\ \A g \in Procs : Same(g)
         /\ UNCHANGED <<kind, sunset, state, ever, target, store>> /\ Replicas' = Replicas
         /\ \/ UNCHANGED <<pods, copy>>
            \/ ShadowUp /\ UNCHANGED <<phase, todo>>
            \/ UNCHANGED <<phase, todo, copy>> /\ \E p \in Pods : PodUp(p) \/ Rollout(p)
<1>1. ~ShadowGoes /\ ~TargetGoes /\ \A p \in Pods : ~PodGoes(p)
  BY DEF ShadowGoes, TargetGoes, PodGoes
<1>2. ~TargetReturns /\ ~GracePasses
  BY DEF TargetReturns, GracePasses, Course, Whole
<1>3. CASE \E p \in Pods : PodUp(p) \/ Rollout(p)
  <2>1. PICK p \in Pods : PodUp(p) \/ Rollout(p)
    BY <1>3
  <2>2. /\ pc' = pc /\ UNCHANGED <<fixed, mount, target, copy, store>>
        /\ Outdated(p, FALSE) \/ Outdated(p, TRUE)
    BY <2>1 DEF PodUp, Rollout, Replaced
  <2>3. \A g \in Procs : Same(g)
    BY <2>2, OutdatedScalars DEF MountInv, Same
  <2> QED
    BY <1>3, <2>2, <2>3 DEF fixed, mount, Replicas
<1>4. CASE CreateObject \/ DeleteObject \/ RemoveFinalizer \/ ShadowUp \/ \E b \in Bridges : CreateBridge(b)
  BY <1>4 DEF CreateObject, DeleteObject, RemoveFinalizer, ShadowUp, CreateBridge, Same, fixed, mount, pods,
     copy, Replicas
<1> QED
  BY <1>1, <1>2, <1>3, <1>4 DEF Outside

LEMMA OutsideKeepsCourse ==
  ASSUME MountInv, Course, Outside, ~Fault
  PROVE  Course'
<1> USE DEF Procs
<1>1. /\ \A g \in Procs : Same(g)
      /\ UNCHANGED <<kind, sunset, state, ever, target, store>> /\ Replicas' = Replicas
  BY OutsideIsSame
<1>2. Whole' /\ Turns'
  BY <1>1 DEF Course, Whole, Turns, Same
<1>3. /\ shadow' = shadow \/ (shadow = "starting" /\ shadow' = "ready")
      /\ service' = service
  BY OutsideIsSame DEF ShadowUp, copy
<1>4. stale = {} => /\ stale' = {} /\ image' = image
                    /\ Ready => Ready'
  <2> SUFFICES ASSUME stale = {} PROVE stale' = {} /\ image' = image /\ (Ready => Ready')
    OBVIOUS
  <2>1. CASE UNCHANGED <<pods, copy>>
    BY <2>1, ReadyStays DEF pods
  <2>2. CASE ShadowUp
    BY <2>2 DEF ShadowUp, pods, Ready
  <2>3. CASE \E p \in Pods : PodUp(p) \/ Rollout(p)
    <3>1. PICK p \in Pods : PodUp(p)
      BY <2>3 DEF Rollout
    <3>2. ~Ready
      BY <3>1 DEF PodUp, Ready, Live
    <3> QED
      BY <3>1, <3>2 DEF PodUp
  <2> QED
    BY <2>1, <2>2, <2>3, OutsideIsSame
<1>5. /\ Untouched' => Untouched
      /\ Restored => Restored'
  <2>1. \/ UNCHANGED <<phase, todo>>
        \/ CreateObject \/ DeleteObject \/ RemoveFinalizer
    BY DEF Outside, ShadowUp, ShadowGoes, TargetGoes, TargetReturns, GracePasses, CreateBridge,
       PodUp, Rollout, PodGoes, mount
  <2>2. CASE UNCHANGED <<phase, todo>>
    BY <1>1, <2>2 DEF Untouched, Restored, Same
  <2>3. CASE CreateObject \/ DeleteObject
    <3>1. phase \in {"absent", "present"}
      BY <2>3 DEF CreateObject, DeleteObject
    <3> QED
      BY <1>1, <3>1 DEF Untouched, Restored, Same
  <2>4. CASE RemoveFinalizer
    <3>1. phase = "deleting" /\ phase' = "gone" /\ todo' = todo /\ todo = {}
      BY <2>4 DEF RemoveFinalizer
    <3> QED
      BY <1>1, <3>1 DEF Untouched, Restored, Same
  <2> QED
    BY <2>1, <2>2, <2>3, <2>4
<1>6. Prepared'
  <2> SUFFICES ASSUME Untouched' PROVE Prepared'
    BY DEF Prepared
  <2>1. Untouched
    BY <1>5
  <2>2. (Copied => Copied') /\ (shadow # "none" => shadow' # "none")
    BY <1>3 DEF Copied
  <2>3. pc'["worker"] = pc["worker"] /\ pc'["timer"] = pc["timer"]
        /\ mem'["worker"].task = mem["worker"].task /\ mem'["worker"].cur = mem["worker"].cur
        /\ mem'["timer"].cur = mem["timer"].cur
    BY <1>1 DEF Same
  <2>4. stale = {}
    BY <2>1 DEF Course, Prepared
  <2> QED
    BY <1>1, <1>4, <2>1, <2>2, <2>3, <2>4 DEF Course, Prepared
<1>7. Shadowed'
  BY <1>1, <1>3 DEF Course, Shadowed, Same
<1>8. kind' = "pod" => Single' /\ Stored'
  <2> SUFFICES ASSUME kind = "pod" PROVE Single' /\ Stored'
    BY <1>1
  <2>1. Single /\ Stored
    BY DEF Course
  <2>2. image' = image /\ stale' = {}
    BY <1>4, <2>1 DEF Single
  <2>3. Single'
    BY <1>1, <2>1, <2>2 DEF Single, Same
  <2>4. Stored'
    BY <1>1, <1>5, <2>1, <2>2 DEF Stored, Same
  <2> QED
    BY <2>3, <2>4
<1> QED
  BY <1>2, <1>6, <1>7, <1>8 DEF Course

-----------------------------------------------------------------------------
(* The starts of handlers.                                                 *)

(* h, idle so far, begins at a call; what it begins with is the state.     *)
Starts(h, task, goal) ==
  /\ pc[h] = "idle" /\ \A g \in Procs \ {h} : Same(g)
  /\ mem'[h].task = task /\ mem'[h].goal = goal /\ mem'[h].cur = state
  /\ UNCHANGED <<fixed, mount, pods, copy, store>>

LEMMA BegunScalars ==
  ASSUME MountTypeOK, NEW task \in {"create", "delete", "timer"}
  PROVE  Begun(task).goal = "none" /\ Begun(task).cur = state
  BY DEF Begun, Idle, Memory, MountTypeOK

LEMMA StartCreateStarts ==
  ASSUME MountTypeOK, ProcsTyped, StartCreate
  PROVE  /\ Starts("worker", "create", "none")
         /\ pc'["worker"] = "done" \/ ("ACTIVE" \notin ever /\ Led("worker", "create", "none", state))
<1> DEFINE m == Begun("create")
<1>1. m \in Memory /\ m.task = "create" /\ m.line = 0 /\ m.goal = "none" /\ m.cur = state
  BY BegunTyped, BegunScalars
<1>2. pc["worker"] = "idle" /\ UNCHANGED <<fixed, mount, pods, copy, store>> /\ "worker" \in Procs
  BY DEF StartCreate, Procs
<1>3. \/ mem' = [mem EXCEPT !["worker"] = m] /\ Goto("worker", "done")
      \/ "ACTIVE" \notin ever /\ Proceed("worker", m)
  BY DEF StartCreate
<1> HIDE DEF m
<1>4. CASE mem' = [mem EXCEPT !["worker"] = m] /\ Goto("worker", "done")
  <2>1. mem'["worker"] = m /\ pc'["worker"] = "done"
        /\ \A g \in Procs \ {"worker"} : mem'[g] = mem[g] /\ pc'[g] = pc[g]
    BY <1>2, <1>4 DEF Goto, ProcsTyped
  <2> QED
    BY <1>1, <1>2, <2>1 DEF Starts, Same
<1>5. CASE "ACTIVE" \notin ever /\ Proceed("worker", m)
  <2>1. m.line < LastLine[m.task]
    BY <1>1 DEF LastLine
  <2>2. Led("worker", "create", "none", state) /\ \A g \in Procs \ {"worker"} : Same(g)
    BY <1>1, <1>2, <1>5, <2>1, ProceedLeads
  <2> QED
    BY <1>2, <1>5, <2>2 DEF Starts, Led
<1> QED
  BY <1>3, <1>4, <1>5

LEMMA StartOtherStarts ==
  ASSUME MountTypeOK, ProcsTyped
  PROVE  /\ StartDelete => Starts("worker", "delete", "terminate") /\ pc'["worker"] = "rm workload"
         /\ StartTimer => /\ Starts("timer", "timer", IF sunset THEN "terminate" ELSE "none")
                          /\ pc'["timer"] = IF sunset THEN "rm workload" ELSE "exists?"
<1>1. ASSUME NEW h \in Procs, NEW task \in {"delete", "timer"}, NEW goal, NEW call,
             mem' = [mem EXCEPT ![h] = [Begun(task) EXCEPT !.goal = goal]], Goto(h, call),
             pc[h] = "idle", UNCHANGED <<fixed, mount, pods, copy, store>>
      PROVE  Starts(h, task, goal) /\ pc'[h] = call
  <2> DEFINE m == [Begun(task) EXCEPT !.goal = goal]
  <2>1. Begun(task) \in Memory /\ Begun(task).task = task /\ Begun(task).cur = state
    BY BegunTyped, BegunScalars
  <2>2. m.task = task /\ m.goal = goal /\ m.cur = state
    BY <2>1 DEF Memory
  <2> HIDE DEF m
  <2>3. mem'[h] = m /\ pc'[h] = call /\ \A g \in Procs \ {h} : mem'[g] = mem[g] /\ pc'[g] = pc[g]
    BY <1>1 DEF Goto, ProcsTyped, m
  <2> QED
    BY <1>1, <2>2, <2>3 DEF Starts, Same
<1>2. ASSUME StartDelete
      PROVE  Starts("worker", "delete", "terminate") /\ pc'["worker"] = "rm workload"
  BY <1>1, <1>2 DEF StartDelete, Procs
<1>3. ASSUME StartTimer
      PROVE  /\ Starts("timer", "timer", IF sunset THEN "terminate" ELSE "none")
             /\ pc'["timer"] = IF sunset THEN "rm workload" ELSE "exists?"
  BY <1>1, <1>3 DEF StartTimer, Procs
<1> QED
  BY <1>2, <1>3

LEMMA StartKeepsCourse ==
  ASSUME MountInv, Course, StartCreate \/ StartDelete \/ StartTimer
  PROVE  Course'
<1> USE DEF Procs
<1>1. PICK h \in Procs, task \in {"create", "delete", "timer"}, goal \in {"none", "terminate"} :
        /\ Starts(h, task, goal) /\ goal # "missing"
        /\ \/ h = "worker" /\ task = "create" /\ StartCreate
           \/ h = "worker" /\ task = "delete" /\ StartDelete
           \/ h = "timer" /\ task = "timer" /\ StartTimer
  <2>1. CASE StartCreate
    <3>1. Starts("worker", "create", "none")
      BY <2>1, StartCreateStarts DEF MountInv
    <3> QED
      BY <2>1, <3>1
  <2>2. CASE StartDelete
    <3>1. Starts("worker", "delete", "terminate")
      BY <2>2, StartOtherStarts DEF MountInv
    <3> QED
      BY <2>2, <3>1
  <2>3. CASE StartTimer
    <3>1. Starts("timer", "timer", IF sunset THEN "terminate" ELSE "none")
      BY <2>3, StartOtherStarts DEF MountInv
    <3> QED
      BY <2>3, <3>1
  <2> QED
    BY <2>1, <2>2, <2>3
<1>2. /\ pc[h] = "idle" /\ mem[h].task = "none" /\ \A g \in Procs \ {h} : Same(g)
      /\ mem'[h].task = task /\ mem'[h].goal = goal /\ mem'[h].cur = state
      /\ UNCHANGED <<fixed, mount, pods, copy, store>>
  BY <1>1 DEF Starts, MountInv, OnCourse
<1>3. /\ UNCHANGED <<kind, sunset, phase, state, ever, todo, target, image, stale, shadow, service>>
      /\ Replicas' = Replicas /\ (Ready => Ready') /\ (Copied => Copied')
  BY <1>2, ReadyStays DEF fixed, mount, pods, copy, Replicas, Copied
<1>4. /\ pc'[h] \in {"duplicate hpa", "shadow?", "prepared?", "restoring", "exists?", "rm workload"} \cup Ended
      /\ h = "worker" /\ task = "create" =>
           /\ pc'[h] \notin {"exists?", "rm workload"} /\ ("ACTIVE" \in ever => pc'[h] = "done")
           /\ pc'[h] \in {"shadow?", "prepared?", "restoring"} => state # "REQUESTED"
      /\ task = "delete" => pc'[h] = "rm workload"
      /\ task = "timer" => /\ "ACTIVE" \in ever /\ phase = "present"
                           /\ pc'[h] = IF sunset THEN "rm workload" ELSE "exists?"
  <2>1. CASE h = "worker" /\ task = "create" /\ StartCreate
    BY <2>1, StartCreateStarts DEF MountInv, Led, Ended
  <2>2. CASE h = "worker" /\ task = "delete" /\ StartDelete
    BY <2>2, StartOtherStarts DEF MountInv
  <2>3. CASE h = "timer" /\ task = "timer" /\ StartTimer
    BY <2>3, StartOtherStarts DEF MountInv, StartTimer
  <2> QED
    BY <1>1, <2>1, <2>2, <2>3
<1>5. /\ (h = "worker" /\ task \in {"create", "delete"}) \/ (h = "timer" /\ task = "timer")
      /\ pc'[h] \notin Installing /\ pc'[h] \notin InPods
      /\ pc'[h] \notin {"recover", "missing", "unarranged", "arranged", "duplicate service", "activate"}
      /\ pc'[h] \in Lined => pc'[h] \in {"duplicate hpa", "shadow?", "prepared?", "restoring"}
      /\ (pc'[h] \in Leaving) <=> (pc'[h] = "rm workload")
  BY <1>1, <1>4 DEF Installing, InPods, Ended, Lined, Leaving
<1>6. Whole'
  BY <1>1, <1>2, <1>3, <1>4, <1>5, ZenonT(40) DEF Course, Whole, Same
<1>7. Turns'
  <2>1. CASE h = "worker"
    BY <1>2, <1>3, <1>4, <1>5, <2>1 DEF Course, Turns, Same, Ended
  <2>2. CASE h = "timer"
    BY <1>2, <1>3, <1>4, <1>5, <2>2, ZenonT(40) DEF Course, Turns, Same, Leaving
  <2> QED
    BY <2>1, <2>2
<1>8. /\ Untouched' => Untouched
      /\ Restored => Restored'
  <2>1. CASE h = "worker"
    <3>1. Untouched' => Untouched
      BY <1>2, <1>3, <2>1 DEF Untouched
    <3>2. task = "delete" => "delete" \in todo
      BY <1>1, <2>1 DEF StartDelete
    <3>3. task = "create" => phase \notin {"deleting", "gone"}
      BY <1>1, <2>1 DEF StartCreate, MountInv, Owed
    <3> QED
      BY <1>2, <1>3, <1>5, <2>1, <3>1, <3>2, <3>3 DEF Restored
  <2>2. CASE h = "timer"
    BY <1>2, <1>3, <2>2 DEF Untouched, Restored, Same
  <2> QED
    BY <2>1, <2>2
<1>9. Prepared'
  <2> SUFFICES ASSUME Untouched' PROVE Prepared'
    BY DEF Prepared
  <2>1. Untouched
    BY <1>8
  <2>2. CASE h = "worker"
    <3>1. Same("timer")
      BY <1>2, <2>2
    <3>2. pc'[h] \in Lined \ Copying => task = "create" /\ pc'[h] \in {"shadow?", "prepared?", "restoring"}
      BY <1>4, <1>5, <2>2 DEF Copying, Leaving, Lined
    <3> QED
      BY <1>2, <1>3, <1>4, <1>5, <2>1, <2>2, <3>1, <3>2 DEF Course, Prepared, Same
  <2>3. CASE h = "timer"
    <3>1. Same("worker") /\ ~sunset /\ pc'[h] = "exists?"
      BY <1>2, <1>3, <1>4, <1>5, <2>1, <2>3 DEF Untouched
    <3> QED
      BY <1>2, <1>3, <1>5, <2>1, <2>3, <3>1 DEF Course, Prepared, Same
  <2> QED
    BY <2>2, <2>3
<1>10. Shadowed'
  BY <1>2, <1>3, <1>5 DEF Course, Shadowed, Same
<1>11. kind' = "pod" => Single' /\ Stored'
  <2> SUFFICES ASSUME kind = "pod" PROVE Single' /\ Stored'
    BY <1>3
  <2>1. Single /\ Stored
    BY DEF Course
  <2>2. \A g \in Procs : pc'[g] \in InPods => pc[g] \in InPods /\ Same(g)
    BY <1>2, <1>5 DEF Same
  <2>3. Single'
    BY <1>3, <2>1, <2>2 DEF Single, Same, InPods
  <2>4. store' = store
    BY <1>2
  <2>5. Stored'
    BY <1>3, <1>8, <2>1, <2>2, <2>4 DEF Stored, Same
  <2> QED
    BY <2>3, <2>5
<1> QED
  BY <1>6, <1>7, <1>9, <1>10, <1>11 DEF Course

-----------------------------------------------------------------------------
(* Every step keeps the invariant.                                         *)

LEMMA InitCourse == Init => Course
<1> SUFFICES ASSUME Init PROVE Course
  OBVIOUS
<1>1. \A h \in Procs : pc[h] = "idle" /\ mem[h] = Idle
  BY DEF Init
<1>2. Idle.task = "none" /\ Idle.goal = "none" /\ Idle.cur = "REQUESTED"
  BY DEF Idle
<1>3. Whole
  BY <1>1, <1>2 DEF Init, Whole, Procs
<1>4. Turns
  BY <1>1 DEF Init, Turns, Procs, Leaving
<1>5. Prepared
  BY <1>1, <1>2 DEF Init, Prepared, Procs, Lined
<1>6. Shadowed
  BY <1>1 DEF Shadowed, Installing
<1>7. Single /\ Stored
  BY <1>1 DEF Init, Single, Stored, InPods
<1> QED
  BY <1>3, <1>4, <1>5, <1>6, <1>7 DEF Course

LEMMA NextKeepsCarrier == CarrierInv /\ [Next]_vars => CarrierInv'
<1> SUFFICES ASSUME CarrierInv, [Next]_vars PROVE CarrierInv'
  OBVIOUS
<1>1. MountInv'
  BY NextKeepsInv DEF CarrierInv
<1> SUFFICES ASSUME faults' = 0 PROVE Course'
  BY <1>1 DEF CarrierInv
<1>2. CASE UNCHANGED vars
  <2>1. UNCHANGED <<fixed, mount, pods, copy, store, asked, pc, mem, faults>>
    BY <1>2 DEF vars
  <2>2. UNCHANGED <<kind, sunset, phase, state, ever, todo, target, image, stale, shadow, service, store, pc, mem>>
    BY <2>1 DEF fixed, mount, pods, copy
  <2>3. Course
    BY <2>1 DEF CarrierInv
  <2>4. (Ready => Ready') /\ (Copied => Copied') /\ Replicas' = Replicas
    BY <2>1, <2>2, ReadyStays DEF Copied, Replicas
  <2>5. Whole' /\ Turns' /\ Shadowed'
    BY <2>2, <2>3 DEF Course, Whole, Turns, Shadowed
  <2>6. Prepared'
    BY <2>2, <2>3, <2>4 DEF Course, Prepared, Untouched
  <2>7. kind' = "pod" => Single' /\ Stored'
    BY <2>2, <2>3, <2>4 DEF Course, Single, Stored, Restored
  <2> QED
    BY <2>5, <2>6, <2>7 DEF Course
<1>3. CASE \E h \in Procs : Step(h) \/ CallFails(h)
  <2>1. PICK h \in Procs : Step(h) \/ CallFails(h)
    BY <1>3
  <2>2. faults = 0 /\ ~Fault /\ ~CallFails(h)
    BY <2>1, HandlerFaults, NoFaultNow DEF CarrierInv, MountInv
  <2> QED
    BY <2>1, <2>2, HandlerKeepsCourse DEF CarrierInv
<1>4. CASE StartCreate \/ StartDelete \/ StartTimer
  <2>1. faults' = faults
    BY <1>4 DEF StartCreate, StartDelete, StartTimer
  <2> QED
    BY <1>4, <2>1, StartKeepsCourse DEF CarrierInv
<1>5. CASE Restart
  <2>1. Fault
    BY <1>5 DEF Restart
  <2> QED
    BY <2>1, NoFaultNow DEF CarrierInv, MountInv
<1>6. CASE Outside
  <2>1. faults' = faults \/ Fault
    BY <1>6, OutsideIsApart DEF Outside, Apart, CarrierInv, MountInv
  <2>2. faults = 0 /\ ~Fault
    BY <2>1, NoFaultNow DEF CarrierInv, MountInv
  <2> QED
    BY <1>6, <2>2, OutsideKeepsCourse DEF CarrierInv
<1> QED
  BY <1>2, <1>3, <1>4, <1>5, <1>6 DEF Next, Dispatch, Cluster, Outside

(* The inductive invariant: whose turn it is, what the create handler has  *)
(* prepared and that nobody takes it away while Carrier is put into pods.  *)
THEOREM CarrierInvariant == Spec => []CarrierInv
<1>1. Init => CarrierInv
  BY InitInv, InitCourse DEF CarrierInv
<1>2. CarrierInv /\ [Next]_vars => CarrierInv'
  BY NextKeepsCarrier
<1> QED
  BY <1>1, <1>2, PTL DEF Spec

(* While no call failed, nothing was lost and the operator did not         *)
(* restart: a mount that says ACTIVE has Carrier in every pod of its       *)
(* target, and the shadow and its service, although its timer, its create  *)
(* and delete handlers and the rollouts they cause cross.                  *)
THEOREM ActiveMountsAreInstalled == Spec => []ActiveIsInstalled
<1>1. CarrierInv => ActiveIsInstalled
  <2> SUFFICES ASSUME CarrierInv, Undisturbed, phase = "present", state = "ACTIVE", ~sunset
               PROVE  Ready /\ service
    BY DEF ActiveIsInstalled
  <2>1. Course /\ Untouched
    BY DEF CarrierInv, Undisturbed, Untouched, MountInv, Owed
  <2>2. "ACTIVE" \in ever
    BY <2>1 DEF Course, Turns
  <2> QED
    BY <2>1, <2>2 DEF Course, Prepared, Copied
<1> QED
  BY <1>1, CarrierInvariant, PTL

(* While no call failed: Carrier takes the place of a container only when  *)
(* the shadow is ready.  It is patched in by a handler that has seen so,   *)
(* and the other one does not remove the shadow then; and what is stored   *)
(* of a bare pod that runs its own image is never Carrier's.               *)
THEOREM CarrierTakesOverAfterTheShadow == Spec => CarrierAfterShadow
<1>1. ASSUME CarrierInv, [Next]_vars
      PROVE  [\A p \in Pods : Undisturbed /\ image[p] = "original" /\ image'[p] = "carrier"
                              => shadow = "ready"]_vars
  <2> SUFFICES ASSUME NEW p \in Pods, Undisturbed, image[p] = "original", image'[p] = "carrier", Next
               PROVE  shadow = "ready"
    BY <1>1 DEF vars, pods
  <2>1. Course /\ MountInv /\ image \in [Pods -> {"none", "original", "carrier"}]
    BY <1>1 DEF CarrierInv, Undisturbed, MountInv, MountTypeOK
  <2>2. PICK h \in Procs : PatchPod(h) \/ RestoreTarget(h)
    <3>1. image' # image
      OBVIOUS
    <3>2. ~(\E q \in Pods : Rollout(q) \/ PodGoes(q)) /\ ~TargetGoes /\ ~TargetReturns
      BY <2>1 DEF Rollout, PodGoes, Replaced, TargetGoes, TargetReturns
    <3>3. ~(\E q \in Pods : PodUp(q)) /\ ~StartCreate /\ ~StartDelete /\ ~StartTimer /\ ~Restart
          /\ ~CreateObject /\ ~DeleteObject /\ ~RemoveFinalizer /\ ~ShadowUp /\ ~ShadowGoes /\ ~GracePasses
          /\ ~(\E b \in Bridges : CreateBridge(b)) /\ ~(\E h \in Procs : CallFails(h))
      BY <3>1 DEF PodUp, StartCreate, StartDelete, StartTimer, Restart, CreateObject, DeleteObject,
         RemoveFinalizer, ShadowUp, ShadowGoes, GracePasses, CreateBridge, CallFails, pods
    <3>4. PICK h \in Procs : Step(h)
      BY <3>2, <3>3 DEF Next, Dispatch, Cluster
    <3>5. PatchPod(h) \/ RestoreTarget(h)
      BY <3>1, <3>4 DEF Step, TargetExists, Finish, Persist, DuplicateHpa, DuplicateWorkload,
         DuplicateService, AskShadow, AskReady, ListPods, StoreOriginal, CommitConfig, RemoveWorkload,
         RemoveHpa, RemoveService, ReadTarget, ListBridges, RemoveBridge, pods
    <3> QED
      BY <3>5
  <2>3. CASE PatchPod(h)
    BY <2>1, <2>3 DEF PatchPod, Course, Shadowed, Installing
  <2>4. CASE RestoreTarget(h)
    <3>1. kind = "pod" /\ store = "carrier" /\ pc[h] = "restore target"
      <4>1. image' # image /\ pc[h] = "restore target"
        BY <2>4 DEF RestoreTarget
      <4>2. kind # "deployment"
        BY <2>4, <4>1 DEF RestoreTarget
      <4>3. kind = "pod"
        BY <2>1, <4>2, KindsAssumption DEF MountInv, MountTypeOK, ObjectTyped
      <4>4. PICK q \in Pods : image' = [image EXCEPT ![q] = store]
        BY <2>4, <4>1, <4>2 DEF RestoreTarget, Replicas
      <4>5. image'[p] = store
        BY <2>1, <4>4
      <4> QED
        BY <4>1, <4>3, <4>5
    <3>2. ~Restored
      <4>1. CASE h = "timer"
        BY <2>1, <3>1, <4>1 DEF Course, Turns, Leaving, Restored
      <4>2. CASE h = "worker"
        <5>1. mem[h].task = "delete"
          BY <2>1, <3>1, <4>2 DEF Course, Turns, Leaving
        <5>2. "delete" \in todo
          BY <2>1, <4>2, <5>1 DEF MountInv, Owed
        <5> QED
          BY <3>1, <4>2, <5>2 DEF Restored, Ended
      <4> QED
        BY <4>1, <4>2 DEF Procs
    <3> QED
      BY <2>1, <3>1, <3>2 DEF Course, Stored
  <2> QED
    BY <2>2, <2>3, <2>4
<1> QED
  BY <1>1, CarrierInvariant, PTL DEF Spec, CarrierAfterShadow
=============================================================================
