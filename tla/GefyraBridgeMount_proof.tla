---------------------- MODULE GefyraBridgeMount_proof ----------------------
(***************************************************************************)
(* Proofs about GefyraBridgeMount, for any number of pods, bridges and     *)
(* faults: its types, and that a mount which is deleted leaves nothing of  *)
(* its own behind.                                                         *)
(***************************************************************************)
EXTENDS GefyraBridgeMount, TLAPS

(* The calls of uninstall and of what follows it; those of the machine's   *)
(* way to ACTIVE; the others.                                              *)
Leaving == {"rm workload", "rm hpa", "rm service", "read target", "restore target",
            "list bridges", "rm bridge"}
Lined   == {"duplicate hpa", "duplicate workload", "duplicate service", "shadow?", "prepared?",
            "ready?", "installed?", "intact?", "list pods", "store", "patch", "commit",
            "restoring", "arranged", "unarranged", "installed", "failed", "impair", "activate"}
Ended   == {"done", "raised"}
Pcs     == Leaving \cup Lined \cup Ended \cup {"idle", "exists?", "recover", "missing"}

Memory == [task : {"none", "create", "delete", "timer"}, goal : {"none", "missing", "terminate"},
           cur : States, line : Nat, left : SUBSET Pods, pod : Pods \cup {"none"},
           carrying : SUBSET Pods, named : SUBSET Pods, fresh : SUBSET (Pods \cup {"target"}),
           bridges : SUBSET Bridges]

ProcsTyped == pc \in [Procs -> Pcs] /\ mem \in [Procs -> Memory] /\ faults \in 0..MaxFaults

(* A handler is at a call of its own, and has lines left while its call    *)
(* leads to another one. *)
LastLine == [create |-> 7, timer |-> 6]

OnCourse(h) ==
  /\ pc[h] = "idle" => mem[h].task = "none"
  /\ mem[h].task \in {"create", "delete"} => h = "worker"
  /\ mem[h].task = "timer" => h = "timer"
  /\ mem[h].task = "delete" => mem[h].goal = "terminate" /\ pc[h] \in Leaving \cup Ended
  /\ pc[h] \in Lined => mem[h].task \in {"create", "timer"} /\ mem[h].line < LastLine[mem[h].task]
  /\ pc[h] = "exists?" => mem[h].task = "timer" /\ mem[h].line = 0
  /\ pc[h] \in {"patch", "commit"} => mem[h].pod \in Pods

(* A target that is gone has no pods, and no copy of it is current. *)
NoTarget == ~target => (\A p \in Pods : image[p] = "none") /\ \A h \in Procs : mem[h].fresh = {}

(* What kopf owes. *)
Owed ==
  /\ phase \in {"absent", "present"} => "delete" \notin todo /\ mem["worker"].task # "delete"
  /\ phase \in {"deleting", "gone"} => "create" \notin todo
  /\ phase = "gone" => todo = {}
  /\ mem["worker"].task = "delete" => "delete" \in todo

(* Without faults an HPA without a shadow is one that somebody is about to *)
(* give its shadow, or to remove. *)
HpaHasShadow ==
  faults = 0 /\ hpa /\ shadow = "none" => \E h \in Procs : pc[h] \in {"duplicate workload", "rm hpa"}

(* How far the delete handler is. *)
Removed == shadow = "none" /\ ~service /\ ~hpa
Emptied == Removed /\ bridged \subseteq late

Departing ==
  /\ pc["worker"] = "rm hpa" => shadow = "none"
  /\ pc["worker"] = "rm service" => shadow = "none" /\ ~hpa
  /\ pc["worker"] \in {"read target", "restore target", "list bridges"} => Removed
  /\ pc["worker"] = "rm bridge" => /\ Removed /\ mem["worker"].bridges \subseteq bridged
                                   /\ bridged \subseteq mem["worker"].bridges \cup late
  /\ pc["worker"] \in Ended => Emptied

Departure ==
  faults = 0 /\ phase \in {"deleting", "gone"} /\ "timer" \notin beside
  => /\ pc["timer"] = "idle"
     /\ mem["worker"].task = "delete" => Departing
     /\ todo = {} => pc["worker"] = "idle" /\ Emptied

MountInv ==
  /\ MountTypeOK /\ ProcsTyped /\ \A h \in Procs : OnCourse(h)
  /\ NoTarget /\ Owed /\ HpaHasShadow /\ Departure

-----------------------------------------------------------------------------
(* The types, in parts.                                                    *)

ObjectTyped ==
  /\ kind \in Kinds /\ sunset \in BOOLEAN
  /\ phase \in {"absent", "present", "deleting", "gone"}
  /\ state \in States /\ ever \subseteq {"ACTIVE", "MISSING"} /\ grace \in BOOLEAN
  /\ todo \subseteq {"create", "delete"}

PodsTyped ==
  /\ target \in BOOLEAN
  /\ image \in [Pods -> {"none", "original", "carrier"}]
  /\ up \in [Pods -> {"down", "running", "ready"}] /\ upstream \in [Pods -> BOOLEAN] /\ stale \subseteq Pods
  /\ restarted \in BOOLEAN
  /\ \A p \in Pods : upstream[p] => image[p] = "carrier"

CopyTyped ==
  /\ shadow \in {"none", "starting", "ready"} /\ service \in BOOLEAN /\ hpa \in BOOLEAN
  /\ store \in {"none", "original", "carrier"}

AskedTyped ==
  bridged \subseteq Bridges /\ late \subseteq bridged /\ beside \subseteq Procs \cup {"rollout"}

LEMMA TypesSplit == MountTypeOK <=> ObjectTyped /\ PodsTyped /\ CopyTyped /\ AskedTyped
  BY DEF MountTypeOK, ObjectTyped, PodsTyped, CopyTyped, AskedTyped

LEMMA TypesJoin ==
  ASSUME ObjectTyped', PodsTyped', CopyTyped', AskedTyped'
  PROVE  MountTypeOK'
  BY DEF MountTypeOK, ObjectTyped, PodsTyped, CopyTyped, AskedTyped

LEMMA IdleTyped ==
  Idle \in Memory /\ Idle.task = "none" /\ Idle.fresh = {} /\ Idle.named = {}
  BY DEF Idle, Memory, States

LEMMA ReplicasArePods == Replicas \subseteq Pods
  BY PodsAssumption DEF Replicas

-----------------------------------------------------------------------------
(* The lines of a handler.                                                 *)

LEMMA HasLeast ==
  ASSUME NEW S \in SUBSET (1..7), S # {}
  PROVE  \E k \in S : \A j \in S : k <= j
<1> SUFFICES ASSUME \A k \in S : \E j \in S : j < k PROVE FALSE
  OBVIOUS
<1>1. 1 \notin S
  OBVIOUS
<1>2. 2 \notin S
  BY <1>1
<1>3. 3 \notin S
  BY <1>1, <1>2
<1>4. 4 \notin S
  BY <1>1, <1>2, <1>3
<1>5. 5 \notin S
  BY <1>1, <1>2, <1>3, <1>4
<1>6. 6 \notin S
  BY <1>1, <1>2, <1>3, <1>4, <1>5
<1>7. 7 \notin S
  BY <1>1, <1>2, <1>3, <1>4, <1>5, <1>6
<1>8. PICK k \in S : k \in 1..7
  OBVIOUS
<1>9. k \in {1, 2, 3, 4, 5, 6, 7}
  BY <1>8
<1> QED
  BY <1>1, <1>2, <1>3, <1>4, <1>5, <1>6, <1>7, <1>9

(* Every line leads to a call of the machine's way, and only the last but  *)
(* one or the last ends the handler. *)
LEMMA LinesLead ==
  ASSUME NEW task \in {"create", "timer"}
  PROVE  /\ DOMAIN Lines[task] = 1..LastLine[task]
         /\ Lines[task][LastLine[task]].in = States
         /\ \A k \in 1..LastLine[task] :
               /\ Lines[task][k].do \in Lined \cup Ended
               /\ Lines[task][k].do \notin {"patch", "commit"}
               /\ k = LastLine[task] => Lines[task][k].do \in Ended
<1>1. CASE task = "create"
  <2>1. Lines[task] = Lines.create /\ LastLine[task] = 7
    BY <1>1 DEF Lines, LastLine
  <2>2. DOMAIN Lines.create = 1..7
    BY DEF Lines
  <2>3. /\ Lines.create[1].do = "duplicate hpa" /\ Lines.create[2].do = "shadow?"
        /\ Lines.create[3].do = "prepared?" /\ Lines.create[4].do = "restoring"
        /\ Lines.create[5].do = "restoring" /\ Lines.create[6].do = "done"
        /\ Lines.create[7].do = "raised" /\ Lines.create[7].in = States
    BY DEF Lines
  <2>4. \A k \in 1..7 : k \in {1, 2, 3, 4, 5, 6, 7}
    OBVIOUS
  <2> QED
    BY <2>1, <2>2, <2>3, <2>4 DEF Lined, Ended
<1>2. CASE task = "timer"
  <2>1. Lines[task] = Lines.timer /\ LastLine[task] = 6
    BY <1>2 DEF Lines, LastLine
  <2>2. DOMAIN Lines.timer = 1..6
    BY DEF Lines
  <2>3. /\ Lines.timer[1].do = "duplicate hpa" /\ Lines.timer[2].do = "restoring"
        /\ Lines.timer[3].do = "restoring" /\ Lines.timer[4].do = "prepared?"
        /\ Lines.timer[5].do = "intact?" /\ Lines.timer[6].do = "done"
        /\ Lines.timer[6].in = States
    BY DEF Lines
  <2>4. \A k \in 1..6 : k \in {1, 2, 3, 4, 5, 6}
    OBVIOUS
  <2> QED
    BY <2>1, <2>2, <2>3, <2>4 DEF Lined, Ended
<1> QED
  BY <1>1, <1>2

LEMMA LineFollows ==
  ASSUME NEW m \in Memory, m.task \in {"create", "timer"}, m.line < LastLine[m.task]
  PROVE  NextLine(m) \in 1..LastLine[m.task] /\ m.cur \in Lines[m.task][NextLine(m)].in
<1> DEFINE hit == {k \in DOMAIN Lines[m.task] : k > m.line /\ m.cur \in Lines[m.task][k].in}
<1>1. LastLine[m.task] \in 6..7 /\ m.line \in Nat /\ m.cur \in States
  BY DEF LastLine, Memory
<1>2. LastLine[m.task] \in hit /\ hit \subseteq 1..LastLine[m.task]
  BY <1>1, LinesLead
<1>3. hit \in SUBSET (1..7) /\ hit # {}
  BY <1>1, <1>2
<1>4. \A k \in hit : m.cur \in Lines[m.task][k].in
  OBVIOUS
<1> HIDE DEF hit
<1>5. \E k \in hit : \A j \in hit : k <= j
  BY <1>3, HasLeast
<1>6. NextLine(m) = CHOOSE k \in hit : \A j \in hit : k <= j
  BY DEF NextLine, hit
<1> QED
  BY <1>2, <1>4, <1>5, <1>6

-----------------------------------------------------------------------------
(* What every step inside a handler has in common.                         *)

(* Of what another handler does g feels no more than that its copies are   *)
(* out of date. *)
SameBut(g) ==
  /\ mem'[g] \in Memory
  /\ mem'[g].task = mem[g].task /\ mem'[g].goal = mem[g].goal /\ mem'[g].line = mem[g].line
  /\ mem'[g].pod = mem[g].pod /\ mem'[g].bridges = mem[g].bridges
  /\ mem'[g].fresh \subseteq mem[g].fresh

HandlerStep(h) ==
  /\ pc[h] # "idle"
  /\ pc' = [pc EXCEPT ![h] = pc'[h]] /\ pc'[h] \in Pcs
  /\ mem' = [g \in Procs |-> mem'[g]] /\ mem'[h] \in Memory
  /\ \A g \in Procs \ {h} : SameBut(g)
  /\ target \/ mem'[h].fresh \subseteq mem[h].fresh
  /\ OnCourse(h)'
  /\ \/ pc'[h] # "idle" /\ mem'[h].task = mem[h].task
     \/ pc'[h] = "idle" /\ pc[h] \in Ended /\ mem'[h].task = "none"
  /\ faults' \in 0..MaxFaults

LEMMA HandlerStepKeepsProcs ==
  ASSUME ProcsTyped, \A g \in Procs : OnCourse(g), NEW h \in Procs, HandlerStep(h)
  PROVE  ProcsTyped' /\ \A g \in Procs : OnCourse(g)'
<1>1. ProcsTyped'
  BY DEF ProcsTyped, HandlerStep, SameBut
<1>2. ASSUME NEW g \in Procs \ {h} PROVE OnCourse(g)'
  <2>1. pc'[g] = pc[g] /\ SameBut(g) /\ OnCourse(g)
    BY DEF ProcsTyped, HandlerStep
  <2> QED
    BY <2>1 DEF OnCourse, SameBut
<1> QED
  BY <1>1, <1>2 DEF HandlerStep

LEMMA FaultIsCounted ==
  ASSUME faults \in 0..MaxFaults, faults' = faults \/ Fault
  PROVE  faults' \in 0..MaxFaults
  BY LimitAssumption DEF Fault

(* A step that changes at most its own memory. *)
LEMMA OwnMoves ==
  ASSUME ProcsTyped, NEW h \in Procs, OnCourse(h), pc[h] # "idle",
         NEW call \in Pcs \ {"idle", "exists?", "patch", "commit"}, Goto(h, call),
         NEW m \in Memory, mem' = [mem EXCEPT ![h] = m],
         m.task = mem[h].task, target \/ m.fresh \subseteq mem[h].fresh,
         m.task = "delete" => m.goal = "terminate" /\ call \in Leaving \cup Ended,
         call \in Lined => m.task \in {"create", "timer"} /\ m.line < LastLine[m.task],
         faults' = faults \/ Fault
  PROVE  HandlerStep(h) /\ pc'[h] = call /\ mem'[h] = m
<1>1. pc' = [pc EXCEPT ![h] = call] /\ pc'[h] = call /\ mem'[h] = m
  BY DEF Goto, ProcsTyped
<1>2. \A g \in Procs \ {h} : SameBut(g)
  BY DEF ProcsTyped, SameBut
<1>3. OnCourse(h)'
  BY <1>1 DEF OnCourse
<1>4. faults' \in 0..MaxFaults
  BY FaultIsCounted DEF ProcsTyped
<1> QED
  BY <1>1, <1>2, <1>3, <1>4 DEF HandlerStep, ProcsTyped

LEMMA CallMoves ==
  ASSUME ProcsTyped, NEW h \in Procs, OnCourse(h), pc[h] \notin Ended \cup {"idle"},
         NEW call \in Pcs \ {"idle", "exists?", "patch", "commit"}, Goto(h, call), mem' = mem,
         call \in Lined => pc[h] \in Lined,
         pc[h] \in Leaving => call \in Leaving \cup Ended \cup {"missing"},
         call = "missing" => mem[h].goal = "missing",
         faults' = faults \/ Fault
  PROVE  HandlerStep(h) /\ pc'[h] = call
<1> DEFINE m == mem[h]
<1>1. mem' = [mem EXCEPT ![h] = m] /\ m \in Memory /\ m.task = mem[h].task
      /\ m.fresh \subseteq mem[h].fresh
  BY DEF ProcsTyped
<1>2. m.task = "delete" => m.goal = "terminate" /\ call \in Leaving \cup Ended
  BY DEF OnCourse
<1>3. call \in Lined => m.task \in {"create", "timer"} /\ m.line < LastLine[m.task]
  BY DEF OnCourse
<1>4. pc[h] # "idle"
  OBVIOUS
<1> HIDE DEF m
<1> QED
  BY ONLY <1>1, <1>2, <1>3, <1>4, OwnMoves, ProcsTyped, OnCourse(h), h \in Procs, Goto(h, call),
          call \in Pcs \ {"idle", "exists?", "patch", "commit"}, faults' = faults \/ Fault

-----------------------------------------------------------------------------
(* Every step inside a handler is one of those.                            *)

LEMMA AfterCalls ==
  ASSUME ProcsTyped, NEW h \in Procs
  PROVE  /\ AfterUninstall(h) \in {"missing", "list bridges"}
         /\ AfterUninstall(h) = "missing" <=> mem[h].goal = "missing"
         /\ Cleaned(h) \in Ended
  BY DEF AfterUninstall, Cleaned, Ended

LEMMA QuietStep ==
  ASSUME ProcsTyped, NEW h \in Procs, OnCourse(h),
         \/ DuplicateHpa(h) \/ DuplicateWorkload(h) \/ DuplicateService(h)
         \/ AskShadow(h) \/ AskReady(h) \/ CommitConfig(h)
         \/ RemoveWorkload(h) \/ RemoveHpa(h) \/ RemoveService(h)
  PROVE  HandlerStep(h)
<1>1. mem' = mem /\ faults' = faults /\ pc[h] \notin Ended \cup {"idle"}
  BY DEF DuplicateHpa, DuplicateWorkload, DuplicateService, AskShadow, AskReady, CommitConfig,
     RemoveWorkload, RemoveHpa, RemoveService, Ended
<1>2. CASE RemoveWorkload(h) \/ RemoveHpa(h) \/ RemoveService(h)
  <2>1. PICK call \in {"rm service", "rm hpa", "read target"} : Goto(h, call)
    BY <1>2 DEF RemoveWorkload, RemoveHpa, RemoveService
  <2> QED
    BY <1>1, <2>1, CallMoves DEF Pcs, Leaving, Lined, Ended
<1>3. CASE \/ DuplicateHpa(h) \/ DuplicateWorkload(h) \/ DuplicateService(h)
           \/ AskShadow(h) \/ AskReady(h) \/ CommitConfig(h)
  <2>1. pc[h] \in Lined
    BY <1>3 DEF DuplicateHpa, DuplicateWorkload, DuplicateService, AskShadow, AskReady, CommitConfig,
       Lined
  <2>2. PICK call \in {"duplicate workload", "unarranged", "duplicate service", "arranged", "raised",
                       "done", "installed?", "list pods", "restoring", "activate", "installed",
                       "store", "failed"} : Goto(h, call)
    <3>1. CASE DuplicateHpa(h) \/ DuplicateWorkload(h) \/ DuplicateService(h) \/ CommitConfig(h)
      BY <3>1 DEF DuplicateHpa, DuplicateWorkload, DuplicateService, CommitConfig
    <3>2. CASE AskShadow(h)
      BY <3>2 DEF AskShadow, AfterShadow
    <3>3. CASE AskReady(h)
      BY <3>3 DEF AskReady
    <3> QED
      BY <1>3, <3>1, <3>2, <3>3
  <2>3. pc[h] \notin Leaving
    BY <2>1 DEF Lined, Leaving
  <2> QED
    BY <1>1, <2>1, <2>2, <2>3, CallMoves DEF Pcs, Lined, Ended
<1> QED
  BY <1>2, <1>3

LEMMA FailingStep ==
  ASSUME ProcsTyped, NEW h \in Procs, OnCourse(h), CallFails(h)
  PROVE  HandlerStep(h)
<1>1. mem' = mem /\ (faults' = faults \/ Fault) /\ pc[h] \notin Ended \cup {"idle"}
  BY DEF CallFails, Ended
<1>2. PICK call \in CaughtAt(h) : Goto(h, call)
  BY DEF CallFails
<1>3. /\ call \in {"unarranged", "duplicate workload", "failed", "rm service", AfterUninstall(h),
                   Cleaned(h), "restoring", "raised"}
      /\ call \in Lined => pc[h] \in Lined
      /\ pc[h] \in Leaving => call \in {"rm service", AfterUninstall(h), Cleaned(h)}
      /\ call = "missing" => mem[h].goal = "missing"
  BY <1>2, AfterCalls DEF CaughtAt, Leaving, Lined, Ended
<1>4. call \in Pcs \ {"idle", "exists?", "patch", "commit"}
      /\ (pc[h] \in Leaving => call \in Leaving \cup Ended \cup {"missing"})
  BY <1>3, AfterCalls DEF Pcs, Leaving, Lined, Ended
<1> QED
  BY <1>1, <1>2, <1>3, <1>4, CallMoves

LEMMA ProceedMoves ==
  ASSUME ProcsTyped, NEW h \in Procs, OnCourse(h), pc[h] # "idle", faults' = faults,
         NEW m \in Memory, m.task = mem[h].task, m.task \in {"create", "timer"},
         m.fresh = mem[h].fresh,
         m.line < LastLine[m.task], Proceed(h, m)
  PROVE  HandlerStep(h) /\ pc'[h] \in Lined \cup Ended /\ pc'[h] \notin {"patch", "commit"}
<1> DEFINE k    == NextLine(m)
           call == Lines[m.task][k].do
           n    == [m EXCEPT !.line = k]
<1>1. k \in 1..LastLine[m.task]
  BY LineFollows
<1>2. LastLine[m.task] \in Nat
  BY DEF LastLine
<1>3. call \in (Lined \cup Ended) \ {"patch", "commit"} /\ (call \in Lined => k < LastLine[m.task])
  <2>1. Lined \cap Ended = {}
    BY DEF Lined, Ended
  <2> QED
    BY <1>1, <1>2, <2>1, LinesLead
<1>4. n \in Memory /\ n.task = m.task /\ n.line = k /\ n.fresh = m.fresh
  BY <1>1, <1>2 DEF Memory
<1>5. mem' = [mem EXCEPT ![h] = n] /\ Goto(h, call)
  BY DEF Proceed
<1>6. call \in Pcs \ {"idle", "exists?", "patch", "commit"}
  BY <1>3 DEF Pcs, Lined, Ended
<1> HIDE DEF k, call, n
<1>7. call \in Lined => n.task \in {"create", "timer"} /\ n.line < LastLine[n.task]
  BY <1>3, <1>4
<1>8. m.task # "delete" /\ (target \/ n.fresh \subseteq mem[h].fresh)
  BY <1>4
<1>9. HandlerStep(h) /\ pc'[h] = call
  BY ONLY ProcsTyped, h \in Procs, OnCourse(h), pc[h] # "idle", faults' = faults, m.task = mem[h].task,
          <1>4, <1>5, <1>6, <1>7, <1>8, OwnMoves, ZenonT(30)
<1> QED
  BY <1>3, <1>9

LEMMA MachineLeads ==
  /\ DOMAIN Machine = {"restoring", "missing", "recover", "installed", "arranged", "unarranged",
                       "failed", "impair", "activate"}
  /\ \A at \in DOMAIN Machine :
        /\ Machine[at].to \in States
        /\ Machine[at].then = "line" => at \in {"arranged", "impair", "activate"}
        /\ Machine[at].then # "line" =>
             /\ Machine[at].then \in {"duplicate hpa", "done", "ready?", "impair"}
             /\ Machine[at].then # "done" => at \in {"restoring", "installed", "unarranged", "failed"}
<1>1. DOMAIN Machine = {"restoring", "missing", "recover", "installed", "arranged", "unarranged",
                       "failed", "impair", "activate"}
  BY DEF Machine
<1>2. /\ Machine["restoring"].to = "RESTORING" /\ Machine["restoring"].then = "duplicate hpa"
      /\ Machine["missing"].to = "MISSING" /\ Machine["missing"].then = "done"
      /\ Machine["recover"].to = "PREPARING" /\ Machine["recover"].then = "done"
      /\ Machine["installed"].to = "INSTALLING" /\ Machine["installed"].then = "ready?"
      /\ Machine["arranged"].to = "PREPARING" /\ Machine["arranged"].then = "line"
      /\ Machine["unarranged"].to = "PREPARING" /\ Machine["unarranged"].then = "impair"
      /\ Machine["failed"].to = "INSTALLING" /\ Machine["failed"].then = "impair"
      /\ Machine["impair"].to = "ERROR" /\ Machine["impair"].then = "line"
      /\ Machine["activate"].to = "ACTIVE" /\ Machine["activate"].then = "line"
  BY DEF Machine
<1>3. ASSUME NEW at \in DOMAIN Machine
      PROVE  /\ Machine[at].to \in States
             /\ Machine[at].then = "line" => at \in {"arranged", "impair", "activate"}
             /\ Machine[at].then # "line" =>
                  /\ Machine[at].then \in {"duplicate hpa", "done", "ready?", "impair"}
                  /\ Machine[at].then # "done" => at \in {"restoring", "installed", "unarranged", "failed"}
  <2>1. CASE at \in {"restoring", "missing", "recover"}
    BY <1>2, <2>1 DEF States
  <2>2. CASE at \in {"installed", "arranged", "unarranged"}
    BY <1>2, <2>2 DEF States
  <2>3. CASE at \in {"failed", "impair", "activate"}
    BY <1>2, <2>3 DEF States
  <2> QED
    BY <1>1, <2>1, <2>2, <2>3
<1> QED
  BY <1>1, <1>3

LEMMA PersistStep ==
  ASSUME ProcsTyped, NEW h \in Procs, OnCourse(h), Persist(h)
  PROVE  HandlerStep(h) /\ state' \in States
<1> DEFINE to == Machine[pc[h]].to
           m  == [mem[h] EXCEPT !.cur = to]
<1>1. pc[h] \in {"restoring", "missing", "recover", "installed", "arranged", "unarranged", "failed",
                 "impair", "activate"}
  BY MachineLeads DEF Persist
<1>2. to \in States
  BY MachineLeads DEF Persist
<1>3. m \in Memory /\ m.task = mem[h].task /\ m.line = mem[h].line /\ m.goal = mem[h].goal
      /\ m.fresh = mem[h].fresh
  BY <1>2 DEF ProcsTyped, Memory
<1>4. state' = to /\ faults' = faults
  BY DEF Persist
<1>5. CASE Machine[pc[h]].then = "line"
  <2>1. pc[h] \in {"arranged", "impair", "activate"}
    BY <1>5, MachineLeads DEF Persist
  <2>2. pc[h] \in Lined /\ Proceed(h, m)
    BY <1>5, <2>1 DEF Persist, Lined
  <2>3. m.task \in {"create", "timer"} /\ m.line < LastLine[m.task]
    BY <1>3, <2>2 DEF OnCourse
  <2> HIDE DEF m
  <2> QED
    BY <1>1, <1>2, <1>3, <1>4, <2>2, <2>3, ProceedMoves
<1>6. CASE Machine[pc[h]].then # "line"
  <2> DEFINE call == Machine[pc[h]].then
  <2>0. pc[h] \in DOMAIN Machine
    BY DEF Persist
  <2>1. /\ call \in {"duplicate hpa", "done", "ready?", "impair"}
        /\ call # "done" => pc[h] \in Lined
    <3>1. {"restoring", "installed", "unarranged", "failed"} \subseteq Lined
      BY DEF Lined
    <3>2. /\ Machine[pc[h]].then \in {"duplicate hpa", "done", "ready?", "impair"}
          /\ Machine[pc[h]].then # "done" => pc[h] \in {"restoring", "installed", "unarranged", "failed"}
      BY ONLY <1>6, <2>0, MachineLeads, Zenon
    <3> QED
      BY ONLY <3>1, <3>2, Zenon
  <2>2. mem' = [mem EXCEPT ![h] = m] /\ Goto(h, call)
    BY <1>6 DEF Persist
  <2>3. call \in Pcs \ {"idle", "exists?", "patch", "commit"} /\ (call = "done" => call \in Ended)
        /\ (call = "done" => call \notin Lined)
    BY <2>1 DEF Pcs, Lined, Ended
  <2>4. call \in Lined => m.task \in {"create", "timer"} /\ m.line < LastLine[m.task]
    BY <1>3, <2>1, <2>3 DEF OnCourse
  <2>5. m.task # "delete"
    BY <1>1, <1>3 DEF OnCourse, Leaving, Ended
  <2> HIDE DEF m, call
  <2> QED
    BY <1>1, <1>2, <1>3, <1>4, <2>2, <2>3, <2>4, <2>5, OwnMoves
<1> QED
  BY <1>5, <1>6

LEMMA AskTargetStep ==
  ASSUME ProcsTyped, NEW h \in Procs, OnCourse(h), TargetExists(h)
  PROVE  HandlerStep(h) /\ pc'[h] \notin {"patch", "commit"}
<1>1. /\ pc[h] = "exists?" /\ mem[h].task = "timer" /\ mem[h].line = 0 /\ mem[h] \in Memory
      /\ faults' = faults \/ Fault
  BY DEF TargetExists, OnCourse, ProcsTyped
<1>2. PICK exists \in BOOLEAN : Answered(h, exists) /\ (exists => faults' = faults)
  <2>1. CASE Answered(h, target) /\ UNCHANGED faults
    <3>1. CASE target
      BY <2>1, <3>1 DEF Answered
    <3>2. CASE ~target
      BY <2>1, <3>2 DEF Answered
    <3> QED
      BY <3>1, <3>2
  <2> QED
    BY <2>1 DEF TargetExists
<1>3. CASE Proceed(h, mem[h]) /\ faults' = faults
  <2> DEFINE m == mem[h]
  <2>1. m \in Memory /\ m.task \in {"create", "timer"} /\ m.line < LastLine[m.task] /\ Proceed(h, m)
        /\ m.task = mem[h].task /\ m.fresh = mem[h].fresh
    BY <1>1, <1>3 DEF LastLine
  <2> HIDE DEF m
  <2> QED
    BY <1>1, <1>3, <2>1, ProceedMoves
<1>4. ASSUME NEW goal \in {"none", "missing", "terminate"}, NEW call \in {"recover", "rm workload", "done"},
             mem' = [mem EXCEPT ![h] = [mem[h] EXCEPT !.goal = goal]], Goto(h, call)
      PROVE  HandlerStep(h) /\ pc'[h] \notin {"patch", "commit"}
  <2> DEFINE m == [mem[h] EXCEPT !.goal = goal]
  <2>1. m \in Memory /\ m.task = "timer" /\ mem' = [mem EXCEPT ![h] = m] /\ m.fresh = mem[h].fresh
    BY <1>1, <1>4 DEF Memory
  <2>2. /\ call \in Pcs \ {"idle", "exists?", "patch", "commit"} /\ call \notin Lined
        /\ pc[h] # "idle" /\ m.task # "delete" /\ m.task = mem[h].task
    <3>1. /\ {"recover", "rm workload", "done"} \subseteq Pcs \ {"idle", "exists?", "patch", "commit"}
          /\ {"recover", "rm workload", "done"} \cap Lined = {}
      BY ONLY TRUE DEF Pcs, Leaving, Lined, Ended
    <3>2. pc[h] # "idle"
      BY <1>1
    <3> HIDE DEF m
    <3> QED
      BY ONLY call \in {"recover", "rm workload", "done"}, <1>1, <2>1, <3>1, <3>2
  <2> HIDE DEF m
  <2>3. /\ target \/ m.fresh \subseteq mem[h].fresh
        /\ m.task = "delete" => m.goal = "terminate" /\ call \in Leaving \cup Ended
        /\ call \in Lined => m.task \in {"create", "timer"} /\ m.line < LastLine[m.task]
        /\ faults' = faults \/ Fault
    BY <1>1, <2>1, <2>2
  <2>4. h \in Procs /\ ProcsTyped /\ OnCourse(h) /\ Goto(h, call)
    BY <1>4
  <2>5. HandlerStep(h) /\ pc'[h] = call
    BY ONLY <2>1, <2>2, <2>3, <2>4, OwnMoves
  <2> QED
    BY <2>2, <2>5
<1>5. mem' = mem => mem' = [mem EXCEPT ![h] = [mem[h] EXCEPT !.goal = mem[h].goal]]
                    /\ mem[h].goal \in {"none", "missing", "terminate"}
  BY DEF ProcsTyped, Memory
<1>6. CASE exists
  BY <1>2, <1>3, <1>4, <1>5, <1>6 DEF Answered
<1>7. CASE ~exists
  BY <1>2, <1>4, <1>5, <1>7 DEF Answered
<1> QED
  BY <1>6, <1>7

LEMMA FinishStep ==
  ASSUME ProcsTyped, NEW h \in Procs, OnCourse(h), Finish(h)
  PROVE  HandlerStep(h) /\ pc'[h] = "idle" /\ mem'[h] = Idle
<1>1. pc' = [pc EXCEPT ![h] = "idle"] /\ pc'[h] = "idle" /\ mem' = [mem EXCEPT ![h] = Idle]
      /\ mem'[h] = Idle /\ pc[h] \in Ended /\ pc[h] # "idle"
  BY DEF Finish, Goto, ProcsTyped, Ended
<1>2. \A g \in Procs \ {h} : SameBut(g)
  BY <1>1 DEF ProcsTyped, SameBut
<1>3. OnCourse(h)'
  BY <1>1, IdleTyped DEF OnCourse, Lined
<1> QED
  BY <1>1, <1>2, <1>3, IdleTyped DEF HandlerStep, ProcsTyped, Pcs, Finish

(* What is read is remembered. *)
LEMMA ReadingStep ==
  ASSUME MountTypeOK, ProcsTyped, NEW h \in Procs, OnCourse(h),
         ListPods(h) \/ ReadTarget(h) \/ ListBridges(h)
  PROVE  HandlerStep(h)
<1>1. mem[h] \in Memory /\ pc[h] # "idle" /\ faults' = faults
  BY DEF ProcsTyped, ListPods, ReadTarget, ListBridges
<1>2. CASE ListPods(h)
  <2>1. PICK call \in {"failed", "installed", "store"} : Goto(h, call)
    BY <1>2 DEF ListPods
  <2>2. Live \subseteq Pods /\ {p \in Live : image[p] = "carrier"} \subseteq Pods
    BY DEF Live
  <2>3. PICK m \in Memory : mem' = [mem EXCEPT ![h] = m] /\ m.task = mem[h].task /\ m.line = mem[h].line
                             /\ (target \/ m = mem[h])
    <3>1. CASE mem' = mem
      BY <1>1, <3>1 DEF ProcsTyped
    <3>2. CASE mem' # mem
      <4> DEFINE m == [mem[h] EXCEPT !.left = Live, !.named = Live, !.fresh = Live,
                                     !.carrying = {p \in Live : image[p] = "carrier"}]
      <4>1. m \in Memory /\ m.task = mem[h].task /\ m.line = mem[h].line
        BY <1>1, <2>2 DEF Memory
      <4>2. mem' = [mem EXCEPT ![h] = m] /\ target
        BY <1>2, <3>2 DEF ListPods, ProcsTyped
      <4> QED
        BY <4>1, <4>2
    <3> QED
      BY <3>1, <3>2
  <2>4. pc[h] \in Lined /\ pc[h] \notin Leaving \cup Ended /\ call \in Pcs \ {"idle", "exists?", "patch", "commit"}
    BY <1>2 DEF ListPods, Lined, Leaving, Ended, Pcs
  <2>5. mem[h].task \in {"create", "timer"} /\ mem[h].line < LastLine[mem[h].task]
    BY <2>4 DEF OnCourse
  <2> QED
    BY <1>1, <2>1, <2>3, <2>4, <2>5, OwnMoves
<1>3. CASE ReadTarget(h) \/ ListBridges(h)
  <2>1. PICK call \in {"restore target", AfterUninstall(h), Cleaned(h), "rm bridge"} : Goto(h, call)
    BY <1>3 DEF ReadTarget, ListBridges
  <2>2. pc[h] \in Leaving /\ call \in Pcs \ {"idle", "exists?", "patch", "commit"} /\ call \notin Lined
        /\ (mem[h].goal # "missing" => call \in Leaving \cup Ended)
    BY <1>3, <2>1, AfterCalls DEF ReadTarget, ListBridges, Lined, Leaving, Ended, Pcs
  <2>3. PICK m \in Memory : mem' = [mem EXCEPT ![h] = m] /\ m.task = mem[h].task /\ m.goal = mem[h].goal
                             /\ (target \/ m.fresh = mem[h].fresh)
    <3>1. CASE mem' = mem
      BY <1>1, <3>1 DEF ProcsTyped
    <3>2. CASE target /\ mem' = [mem EXCEPT ![h].fresh = {"target"}]
      <4> DEFINE m == [mem[h] EXCEPT !.fresh = {"target"}]
      <4>1. m \in Memory /\ m.task = mem[h].task /\ m.goal = mem[h].goal
        BY <1>1 DEF Memory
      <4>2. mem' = [mem EXCEPT ![h] = m]
        BY <3>2 DEF ProcsTyped
      <4> QED
        BY <3>2, <4>1, <4>2
    <3>3. CASE mem' = [mem EXCEPT ![h].bridges = bridged]
      <4> DEFINE m == [mem[h] EXCEPT !.bridges = bridged]
      <4>1. m \in Memory /\ m.task = mem[h].task /\ m.goal = mem[h].goal /\ m.fresh = mem[h].fresh
        BY <1>1 DEF Memory, MountTypeOK
      <4>2. mem' = [mem EXCEPT ![h] = m]
        BY <3>3 DEF ProcsTyped
      <4> QED
        BY <4>1, <4>2
    <3> QED
      BY <1>3, <3>1, <3>2, <3>3 DEF ReadTarget, ListBridges
  <2>4. m.task = "delete" => m.goal = "terminate"
    BY <2>3 DEF OnCourse
  <2> QED
    BY <1>1, <2>1, <2>2, <2>3, <2>4, OwnMoves
<1> QED
  BY <1>2, <1>3

LEMMA StoreStep ==
  ASSUME ProcsTyped, NEW h \in Procs, OnCourse(h), StoreOriginal(h)
  PROVE  HandlerStep(h)
<1>1. mem[h] \in Memory /\ pc[h] = "store" /\ faults' = faults
  BY DEF ProcsTyped, StoreOriginal
<1>2. PICK p \in mem[h].left :
         /\ mem' = [mem EXCEPT ![h].pod = p, ![h].left = @ \ {p}]
         /\ Goto(h, IF p \in mem[h].carrying THEN "commit" ELSE "patch")
  BY DEF StoreOriginal
<1> DEFINE m == [mem[h] EXCEPT !.pod = p, !.left = mem[h].left \ {p}]
<1>3. p \in Pods /\ m \in Memory /\ m.task = mem[h].task /\ m.line = mem[h].line /\ m.pod = p
      /\ m.fresh = mem[h].fresh
  BY <1>1 DEF Memory
<1>4. mem' = [mem EXCEPT ![h] = m]
  BY <1>2 DEF ProcsTyped
<1> HIDE DEF m
<1>5. mem'[h] = m /\ \A g \in Procs \ {h} : SameBut(g)
  BY <1>4 DEF ProcsTyped, SameBut
<1>6. pc' = [pc EXCEPT ![h] = pc'[h]] /\ pc'[h] \in {"patch", "commit"}
  BY <1>2 DEF Goto, ProcsTyped
<1>7. mem[h].task \in {"create", "timer"} /\ mem[h].line < LastLine[mem[h].task]
      /\ (mem[h].task = "create" => h = "worker") /\ (mem[h].task = "timer" => h = "timer")
  BY <1>1 DEF OnCourse, Lined
<1>8. OnCourse(h)'
  BY <1>3, <1>5, <1>6, <1>7 DEF OnCourse
<1>9. pc'[h] \in Pcs /\ faults' \in 0..MaxFaults
  BY <1>1, <1>6 DEF Pcs, Lined, ProcsTyped
<1> QED
  BY <1>1, <1>3, <1>4, <1>5, <1>6, <1>8, <1>9 DEF HandlerStep, ProcsTyped

(* A write makes the copies of the others stale. *)
LEMMA StaleCopies ==
  ASSUME ProcsTyped,
         NEW fresh, \A g \in Procs : fresh[g] \in SUBSET (Pods \cup {"target"}) /\ fresh[g] \subseteq mem[g].fresh,
         NEW named, \A g \in Procs : named[g] \subseteq mem[g].named,
         mem' = [g \in Procs |-> [mem[g] EXCEPT !.fresh = fresh[g], !.named = named[g]]]
  PROVE  \A g \in Procs : SameBut(g)
<1> SUFFICES ASSUME NEW g \in Procs PROVE SameBut(g)
  OBVIOUS
<1>1. mem[g] \in Memory
  BY DEF ProcsTyped
<1>2. mem'[g] = [mem[g] EXCEPT !.fresh = fresh[g], !.named = named[g]]
  OBVIOUS
<1>3. mem'[g] \in Memory /\ mem'[g].task = mem[g].task /\ mem'[g].goal = mem[g].goal
      /\ mem'[g].line = mem[g].line /\ mem'[g].pod = mem[g].pod /\ mem'[g].bridges = mem[g].bridges
      /\ mem'[g].fresh = fresh[g]
  BY <1>1, <1>2 DEF Memory
<1> QED
  BY <1>3 DEF SameBut

LEMMA OutdatedCopies ==
  ASSUME ProcsTyped, NEW p, NEW replaced \in BOOLEAN, Outdated(p, replaced)
  PROVE  /\ \A g \in Procs : SameBut(g)
         /\ mem' = [g \in Procs |-> mem'[g]]
<1> DEFINE fresh == [g \in Procs |-> mem[g].fresh \ {p, "target"}]
           named == [g \in Procs |-> IF replaced THEN mem[g].named \ {p} ELSE mem[g].named]
<1>1. mem' = [g \in Procs |-> [mem[g] EXCEPT !.fresh = fresh[g], !.named = named[g]]]
  BY DEF Outdated
<1>2. \A g \in Procs : /\ fresh[g] \in SUBSET (Pods \cup {"target"}) /\ fresh[g] \subseteq mem[g].fresh
                       /\ named[g] \subseteq mem[g].named
  BY DEF ProcsTyped, Memory
<1> HIDE DEF fresh, named
<1>3. \A g \in Procs : SameBut(g)
  BY <1>1, <1>2, StaleCopies
<1> QED
  BY <1>1, <1>3

(* A handler goes on after such a write. *)
LEMMA StaleMoves ==
  ASSUME ProcsTyped, NEW h \in Procs, OnCourse(h), pc[h] # "idle", faults' = faults,
         NEW call \in Pcs \ {"idle", "exists?"}, Goto(h, call),
         \A g \in Procs : SameBut(g), mem' = [g \in Procs |-> mem'[g]],
         call \in {"patch", "commit"} => pc[h] \in {"patch", "commit"},
         call \in Lined => pc[h] \in Lined,
         mem[h].task = "delete" => call \in Leaving \cup Ended
  PROVE  HandlerStep(h) /\ pc'[h] = call
<1>1. pc' = [pc EXCEPT ![h] = call] /\ pc'[h] = call
  BY DEF Goto, ProcsTyped
<1>2. SameBut(h)
  OBVIOUS
<1>3. OnCourse(h)'
  BY <1>1, <1>2 DEF OnCourse, SameBut
<1> QED
  BY <1>1, <1>2, <1>3 DEF HandlerStep, ProcsTyped, SameBut

LEMMA SameCopies ==
  ASSUME ProcsTyped, mem' = mem
  PROVE  /\ \A g \in Procs : SameBut(g)
         /\ mem' = [g \in Procs |-> mem'[g]]
  BY DEF ProcsTyped, SameBut

LEMMA PatchStep ==
  ASSUME ProcsTyped, NEW h \in Procs, OnCourse(h), PatchPod(h)
  PROVE  HandlerStep(h)
<1>1. pc[h] = "patch" /\ faults' = faults
  BY DEF PatchPod
<1>2. PICK call \in {"commit", "failed"} : Goto(h, call)
  BY DEF PatchPod
<1>3. (\A g \in Procs : SameBut(g)) /\ mem' = [g \in Procs |-> mem'[g]]
  <2>1. CASE Outdated(mem[h].pod, FALSE)
    BY <2>1, OutdatedCopies
  <2>2. CASE mem' = mem
    BY <2>2, SameCopies
  <2> QED
    BY <2>1, <2>2 DEF PatchPod
<1>4. call \in Pcs \ {"idle", "exists?"} /\ pc[h] \in Lined /\ pc[h] \notin Leaving \cup Ended /\ pc[h] # "idle"
  BY <1>1 DEF Pcs, Lined, Leaving, Ended
<1>5. mem[h].task # "delete"
  BY <1>4 DEF OnCourse
<1> QED
  BY <1>1, <1>2, <1>3, <1>4, <1>5, StaleMoves

LEMMA RestoreStep ==
  ASSUME ProcsTyped, NEW h \in Procs, OnCourse(h), RestoreTarget(h)
  PROVE  HandlerStep(h)
<1>1. pc[h] = "restore target" /\ faults' = faults
  BY DEF RestoreTarget
<1>2. PICK call \in {AfterUninstall(h)} : Goto(h, call)
  BY DEF RestoreTarget
<1>3. (\A g \in Procs : SameBut(g)) /\ mem' = [g \in Procs |-> mem'[g]]
  <2>1. CASE \E p \in Replicas : Outdated(p, FALSE)
    BY <2>1, OutdatedCopies
  <2>2. CASE mem' = mem
    BY <2>2, SameCopies
  <2>3. CASE mem' = [g \in Procs |-> [mem[g] EXCEPT !.fresh = @ \ {"target"}]]
    <3> DEFINE fresh == [g \in Procs |-> mem[g].fresh \ {"target"}]
               named == [g \in Procs |-> mem[g].named]
    <3>1. \A g \in Procs : [mem[g] EXCEPT !.fresh = fresh[g], !.named = named[g]]
                           = [mem[g] EXCEPT !.fresh = @ \ {"target"}]
      BY DEF ProcsTyped, Memory
    <3>2. mem' = [g \in Procs |-> [mem[g] EXCEPT !.fresh = fresh[g], !.named = named[g]]]
      BY <2>3, <3>1
    <3>3. \A g \in Procs : /\ fresh[g] \in SUBSET (Pods \cup {"target"}) /\ fresh[g] \subseteq mem[g].fresh
                           /\ named[g] \subseteq mem[g].named
      BY DEF ProcsTyped, Memory
    <3> HIDE DEF fresh, named
    <3>4. \A g \in Procs : SameBut(g)
      BY <3>2, <3>3, StaleCopies
    <3> QED
      BY <2>3, <3>4
  <2> QED
    BY <2>1, <2>2, <2>3 DEF RestoreTarget
<1>4. /\ call \in Pcs \ {"idle", "exists?"} /\ call \notin Lined /\ call \notin {"patch", "commit"}
      /\ pc[h] # "idle" /\ (mem[h].goal # "missing" => call \in Leaving \cup Ended)
  BY <1>1, <1>2, AfterCalls DEF Pcs, Lined, Leaving
<1>5. mem[h].task = "delete" => call \in Leaving \cup Ended
  BY <1>4 DEF OnCourse
<1> QED
  BY <1>1, <1>2, <1>3, <1>4, <1>5, StaleMoves

LEMMA RemoveBridgeStep ==
  ASSUME ProcsTyped, NEW h \in Procs, OnCourse(h), RemoveBridge(h)
  PROVE  HandlerStep(h)
<1>1. pc[h] = "rm bridge" /\ faults' = faults /\ mem[h] \in Memory
  BY DEF RemoveBridge, ProcsTyped
<1>2. PICK b \in mem[h].bridges, call \in {Cleaned(h), "rm bridge"} :
        mem' = [mem EXCEPT ![h].bridges = @ \ {b}] /\ Goto(h, call)
  BY DEF RemoveBridge
<1> DEFINE m == [mem[h] EXCEPT !.bridges = mem[h].bridges \ {b}]
<1>3. m \in Memory /\ m.task = mem[h].task /\ m.goal = mem[h].goal /\ m.fresh = mem[h].fresh
  BY <1>1 DEF Memory
<1>4. mem' = [mem EXCEPT ![h] = m]
  BY <1>2 DEF ProcsTyped
<1>5. m.task = "delete" => m.goal = "terminate"
  BY <1>3 DEF OnCourse
<1>6. call \in Pcs \ {"idle", "exists?", "patch", "commit"} /\ call \notin Lined /\ pc[h] # "idle"
      /\ call \in Leaving \cup Ended
  BY <1>1, <1>2, AfterCalls DEF Pcs, Lined, Leaving, Ended
<1> HIDE DEF m
<1> QED
  BY <1>1, <1>2, <1>3, <1>4, <1>5, <1>6, OwnMoves

LEMMA StepIsHandlerStep ==
  ASSUME MountTypeOK, ProcsTyped, NEW h \in Procs, OnCourse(h), Step(h) \/ CallFails(h)
  PROVE  HandlerStep(h)
  BY QuietStep, FailingStep, PersistStep, AskTargetStep, FinishStep, ReadingStep, StoreStep,
     PatchStep, RestoreStep, RemoveBridgeStep DEF Step

-----------------------------------------------------------------------------
(* Handlers that start, users, the cluster.                                *)

(* No handler moves. *)
Apart ==
  /\ pc' = pc /\ (faults' = faults \/ Fault)
  /\ mem' = [g \in Procs |-> mem'[g]]
  /\ \A g \in Procs : SameBut(g)

LEMMA ApartKeepsProcs ==
  ASSUME ProcsTyped, \A g \in Procs : OnCourse(g), Apart
  PROVE  ProcsTyped' /\ \A g \in Procs : OnCourse(g)'
<1>1. ProcsTyped'
  BY FaultIsCounted DEF ProcsTyped, Apart, SameBut
<1>2. ASSUME NEW g \in Procs PROVE OnCourse(g)'
  BY DEF OnCourse, SameBut, Apart
<1> QED
  BY <1>1, <1>2

LEMMA OutsideIsApart ==
  ASSUME ProcsTyped,
         \/ CreateObject \/ DeleteObject \/ RemoveFinalizer \/ ShadowUp \/ ShadowGoes \/ TargetGoes
         \/ TargetReturns \/ GracePasses \/ \E b \in Bridges : CreateBridge(b)
         \/ \E p \in Pods : PodUp(p) \/ Rollout(p) \/ PodGoes(p)
  PROVE  Apart
<1>1. CASE \/ CreateObject \/ DeleteObject \/ RemoveFinalizer \/ ShadowUp \/ ShadowGoes
           \/ TargetReturns \/ GracePasses \/ \E b \in Bridges : CreateBridge(b)
  <2>1. mem' = mem /\ pc' = pc /\ (faults' = faults \/ Fault)
    BY <1>1 DEF CreateObject, DeleteObject, RemoveFinalizer, ShadowUp, ShadowGoes, TargetReturns,
       GracePasses, CreateBridge
  <2> QED
    BY <2>1, SameCopies DEF Apart
<1>2. CASE \E p \in Pods : PodUp(p) \/ Rollout(p) \/ PodGoes(p)
  <2>1. PICK p \in Pods, replaced \in BOOLEAN : Outdated(p, replaced)
    BY <1>2 DEF PodUp, Rollout, PodGoes, Replaced
  <2>2. pc' = pc /\ (faults' = faults \/ Fault)
    BY <1>2 DEF PodUp, Rollout, PodGoes
  <2> QED
    BY <2>1, <2>2, OutdatedCopies DEF Apart
<1>3. CASE TargetGoes
  <2> DEFINE fresh == [g \in Procs |-> {}]
             named == [g \in Procs |-> {}]
  <2>1. mem' = [g \in Procs |-> [mem[g] EXCEPT !.fresh = fresh[g], !.named = named[g]]]
    BY <1>3 DEF TargetGoes
  <2>2. \A g \in Procs : /\ fresh[g] \in SUBSET (Pods \cup {"target"}) /\ fresh[g] \subseteq mem[g].fresh
                         /\ named[g] \subseteq mem[g].named
    OBVIOUS
  <2>3. mem' = [g \in Procs |-> mem'[g]] /\ pc' = pc /\ (faults' = faults \/ Fault)
    BY <1>3 DEF TargetGoes
  <2> HIDE DEF fresh, named
  <2>4. \A g \in Procs : SameBut(g)
    BY <2>1, <2>2, StaleCopies
  <2> QED
    BY <2>3, <2>4 DEF Apart
<1> QED
  BY <1>1, <1>2, <1>3

(* A handler starts. *)
Begins(h, task) ==
  /\ pc[h] = "idle" /\ task \in {"create", "delete", "timer"}
  /\ UNCHANGED <<fixed, mount, pods, copy, store, asked, faults>>
  /\ pc' = [pc EXCEPT ![h] = pc'[h]] /\ pc'[h] \in Pcs \ {"idle", "patch", "commit", "rm hpa"}
  /\ mem' = [mem EXCEPT ![h] = mem'[h]] /\ mem'[h] \in Memory /\ mem'[h].task = task
  /\ mem'[h].fresh = {}
  /\ OnCourse(h)'

LEMMA BegunTyped ==
  ASSUME MountTypeOK, NEW task \in {"create", "delete", "timer"}
  PROVE  /\ Begun(task) \in Memory /\ Begun(task).task = task /\ Begun(task).line = 0
         /\ Begun(task).fresh = {}
  BY DEF Begun, Idle, Memory, MountTypeOK

LEMMA StartCreateBegins ==
  ASSUME MountTypeOK, ProcsTyped, StartCreate
  PROVE  Begins("worker", "create")
<1> DEFINE m == Begun("create")
<1>1. m \in Memory /\ m.task = "create" /\ m.line = 0 /\ m.fresh = {}
  BY BegunTyped
<1>2. "worker" \in Procs /\ pc["worker"] = "idle"
      /\ UNCHANGED <<fixed, mount, pods, copy, store, asked, faults>>
  BY DEF Procs, StartCreate
<1>3. PICK k \in Nat, call \in Lined \cup Ended :
        /\ mem' = [mem EXCEPT !["worker"] = [m EXCEPT !.line = k]] /\ Goto("worker", call)
        /\ call \in Lined => k < LastLine["create"]
        /\ call \notin {"patch", "commit"}
  <2>1. CASE mem' = [mem EXCEPT !["worker"] = m] /\ Goto("worker", "done")
    <3>1. [m EXCEPT !.line = 0] = m
      BY <1>1 DEF Memory
    <3>2. "done" \in Ended /\ "done" \notin Lined
      BY DEF Ended, Lined
    <3>3. 0 \in Nat /\ "done" \in Lined \cup Ended
      BY <3>2
    <3> HIDE DEF m
    <3> USE <3>3
    <3> WITNESS 0 \in Nat, "done" \in Lined \cup Ended
    <3> QED
      BY <2>1, <3>1, <3>2
  <2>2. CASE Proceed("worker", m)
    <3> DEFINE j    == NextLine(m)
               next == Lines[m.task][j].do
    <3>1. LastLine["create"] = 7
      BY DEF LastLine
    <3>2. j \in 1..7 /\ j \in Nat
      BY <1>1, <3>1, LineFollows
    <3>3. Lined \cap Ended = {}
      BY DEF Lined, Ended
    <3>4. next \in Lined \cup Ended /\ next \notin {"patch", "commit"} /\ (next \in Lined => j < 7)
      BY <1>1, <3>1, <3>2, <3>3, LinesLead
    <3>5. mem' = [mem EXCEPT !["worker"] = [m EXCEPT !.line = j]] /\ Goto("worker", next)
      BY <2>2 DEF Proceed
    <3> HIDE DEF j, next, m
    <3> USE <3>2, <3>4
    <3> WITNESS j \in Nat, next \in Lined \cup Ended
    <3> QED
      BY <3>1, <3>4, <3>5
  <2> QED
    BY <2>1, <2>2 DEF StartCreate
<1>4. mem'["worker"] = [m EXCEPT !.line = k] /\ pc'["worker"] = call
      /\ pc' = [pc EXCEPT !["worker"] = call] /\ mem' = [mem EXCEPT !["worker"] = mem'["worker"]]
  BY <1>2, <1>3 DEF Goto, ProcsTyped
<1> HIDE DEF m
<1>5. mem'["worker"] \in Memory /\ mem'["worker"].task = "create" /\ mem'["worker"].line = k
      /\ mem'["worker"].fresh = {}
  BY <1>1, <1>4 DEF Memory
<1>6. call \in Pcs \ {"idle", "exists?", "patch", "commit", "rm hpa"}
  BY <1>3 DEF Pcs, Lined, Ended
<1>7. OnCourse("worker")'
  BY <1>3, <1>4, <1>5, <1>6 DEF OnCourse
<1> QED
  BY <1>2, <1>4, <1>5, <1>6, <1>7 DEF Begins

LEMMA StartOtherBegins ==
  ASSUME MountTypeOK, ProcsTyped, StartDelete \/ StartTimer
  PROVE  \/ StartDelete /\ Begins("worker", "delete") /\ pc'["worker"] = "rm workload"
         \/ StartTimer /\ Begins("timer", "timer")
<1>1. ASSUME NEW h \in Procs, NEW task \in {"delete", "timer"}, NEW goal \in {"none", "terminate"},
             NEW call \in {"rm workload", "exists?"},
             mem' = [mem EXCEPT ![h] = [Begun(task) EXCEPT !.goal = goal]], Goto(h, call),
             pc[h] = "idle", UNCHANGED <<fixed, mount, pods, copy, store, asked, faults>>,
             task = "delete" => h = "worker" /\ goal = "terminate" /\ call = "rm workload",
             task = "timer" => h = "timer"
      PROVE  Begins(h, task) /\ pc'[h] = call
  <2> DEFINE m == [Begun(task) EXCEPT !.goal = goal]
  <2>1. m \in Memory /\ m.task = task /\ m.line = 0 /\ m.goal = goal /\ m.fresh = {}
    BY BegunTyped, ZenonT(40) DEF Memory
  <2>2. mem'[h] = m /\ pc'[h] = call /\ pc' = [pc EXCEPT ![h] = call] /\ mem' = [mem EXCEPT ![h] = m]
    BY <1>1 DEF Goto, ProcsTyped
  <2> HIDE DEF m
  <2>3. call \in Pcs \ {"idle", "patch", "commit", "rm hpa"} /\ call \notin Lined
        /\ "rm workload" \in Leaving
    BY <1>1 DEF Pcs, Lined, Leaving
  <2>4. OnCourse(h)'
    BY <1>1, <2>1, <2>2, <2>3 DEF OnCourse
  <2> QED
    BY <1>1, <2>1, <2>2, <2>3, <2>4 DEF Begins
<1>2. CASE StartDelete
  BY <1>1, <1>2 DEF StartDelete, Procs
<1>3. CASE StartTimer
  BY <1>1, <1>3 DEF StartTimer, Procs
<1> QED
  BY <1>2, <1>3

LEMMA BeginsKeepsProcs ==
  ASSUME ProcsTyped, \A g \in Procs : OnCourse(g), NEW h \in Procs, NEW task, Begins(h, task)
  PROVE  ProcsTyped' /\ \A g \in Procs : OnCourse(g)'
<1>1. ProcsTyped'
  BY DEF ProcsTyped, Begins
<1>2. ASSUME NEW g \in Procs \ {h} PROVE OnCourse(g)'
  <2>1. pc'[g] = pc[g] /\ mem'[g] = mem[g] /\ OnCourse(g)
    BY DEF ProcsTyped, Begins
  <2> QED
    BY <2>1 DEF OnCourse
<1> QED
  BY <1>1, <1>2 DEF Begins

-----------------------------------------------------------------------------
(* Pods.                                                                   *)

(* A pod is changed while its target is there, or not at all. *)
PodChanges == PodsTyped' /\ target' = target /\ (image' = image \/ target)

LEMMA OnePodChanges ==
  ASSUME PodsTyped, NEW p \in Pods, NEW i \in {"none", "original", "carrier"},
         image' = [image EXCEPT ![p] = i], up' = [up EXCEPT ![p] = "down"],
         \/ upstream' = upstream /\ i = "carrier"
         \/ upstream' = [upstream EXCEPT ![p] = FALSE],
         stale' \subseteq stale, restarted' \in BOOLEAN, target' = target, target
  PROVE  PodChanges
<1>1. /\ image' \in [Pods -> {"none", "original", "carrier"}]
      /\ up' \in [Pods -> {"down", "running", "ready"}] /\ upstream' \in [Pods -> BOOLEAN]
      /\ stale' \subseteq Pods /\ target' \in BOOLEAN
  BY DEF PodsTyped
<1>2. \A q \in Pods : upstream'[q] => image'[q] = "carrier"
  <2> TAKE q \in Pods
  <2>1. CASE q = p
    BY <2>1 DEF PodsTyped
  <2>2. CASE q # p
    BY <2>2 DEF PodsTyped
  <2> QED
    BY <2>1, <2>2
<1> QED
  BY <1>1, <1>2 DEF PodChanges, PodsTyped

LEMMA NoPodChanges ==
  ASSUME PodsTyped, UNCHANGED pods
  PROVE  PodChanges
  BY DEF PodsTyped, pods, PodChanges

LEMMA HandlerChangesPods ==
  ASSUME MountTypeOK, ProcsTyped, NoTarget, NEW h \in Procs, OnCourse(h), Step(h) \/ CallFails(h)
  PROVE  PodChanges
<1> USE TypesSplit
<1>1. CASE PatchPod(h)
  <2>1. CASE mem[h].pod \in mem[h].fresh
    <3> DEFINE p == mem[h].pod
    <3>1. p \in Pods /\ target
      BY <1>1, <2>1 DEF OnCourse, NoTarget, PatchPod
    <3>2. /\ image' = [image EXCEPT ![p] = "carrier"] /\ up' = [up EXCEPT ![p] = "down"]
          /\ UNCHANGED <<target, upstream, stale, restarted>>
      BY <1>1, <2>1 DEF PatchPod
    <3> HIDE DEF p
    <3>3. restarted' \in BOOLEAN
      BY <3>2 DEF PodsTyped
    <3> QED
      BY <3>1, <3>2, <3>3, OnePodChanges
  <2>2. CASE mem[h].pod \notin mem[h].fresh
    BY <1>1, <2>2, NoPodChanges DEF PatchPod, pods
  <2> QED
    BY <2>1, <2>2
<1>2. CASE CommitConfig(h)
  <2>1. UNCHANGED <<target, image, up, stale, restarted>>
    BY <1>2 DEF CommitConfig
  <2>2. \/ upstream' = upstream
        \/ image[mem[h].pod] = "carrier" /\ upstream' = [upstream EXCEPT ![mem[h].pod] = TRUE]
    BY <1>2 DEF CommitConfig
  <2> QED
    BY <2>1, <2>2 DEF PodsTyped, PodChanges
<1>3. CASE RestoreTarget(h)
  <2>1. CASE UNCHANGED <<image, up, upstream, restarted>> /\ (stale' = stale \/ stale' = Live)
    BY <1>3, <2>1 DEF RestoreTarget, PodsTyped, PodChanges, Live
  <2>2. CASE ~(UNCHANGED <<image, up, upstream, restarted>> /\ (stale' = stale \/ stale' = Live))
    <3>1. PICK p \in Replicas :
            /\ image' = [image EXCEPT ![p] = store] /\ up' = [up EXCEPT ![p] = "down"]
            /\ upstream' = [upstream EXCEPT ![p] = FALSE]
            /\ UNCHANGED <<stale, target>> /\ restarted' = TRUE
      BY <1>3, <2>2 DEF RestoreTarget
    <3>2. target
      BY <1>3, <2>2 DEF RestoreTarget, NoTarget
    <3>3. p \in Pods /\ store \in {"none", "original", "carrier"}
      BY ReplicasArePods DEF CopyTyped
    <3> QED
      BY <3>1, <3>2, <3>3, OnePodChanges
  <2> QED
    BY <2>1, <2>2
<1>4. CASE ~(PatchPod(h) \/ CommitConfig(h) \/ RestoreTarget(h))
  <2>1. UNCHANGED pods
    BY <1>4 DEF Step, TargetExists, Finish, Persist, DuplicateHpa, DuplicateWorkload, DuplicateService,
       AskShadow, AskReady, ListPods, StoreOriginal, RemoveWorkload, RemoveHpa, RemoveService,
       ReadTarget, ListBridges, RemoveBridge, CallFails
  <2> QED
    BY <2>1, NoPodChanges
<1> QED
  BY <1>1, <1>2, <1>3, <1>4

LEMMA HandlerKeepsNoTarget ==
  ASSUME ProcsTyped, NoTarget, NEW h \in Procs, HandlerStep(h), PodChanges
  PROVE  NoTarget'
<1>1. \A g \in Procs : target \/ mem'[g].fresh \subseteq mem[g].fresh
  BY DEF HandlerStep, SameBut
<1> QED
  BY <1>1 DEF NoTarget, PodChanges

LEMMA OutsideChangesPods ==
  ASSUME MountTypeOK, ProcsTyped, NoTarget, Apart,
         \/ CreateObject \/ DeleteObject \/ RemoveFinalizer \/ ShadowUp \/ ShadowGoes \/ TargetGoes
         \/ TargetReturns \/ GracePasses \/ \E b \in Bridges : CreateBridge(b)
         \/ \E p \in Pods : PodUp(p) \/ Rollout(p) \/ PodGoes(p)
  PROVE  PodsTyped' /\ NoTarget'
<1> USE TypesSplit
<1>1. \A g \in Procs : mem'[g].fresh \subseteq mem[g].fresh
  BY DEF Apart, SameBut
<1>2. ASSUME PodChanges PROVE PodsTyped' /\ NoTarget'
  BY <1>1, <1>2 DEF PodChanges, NoTarget
<1>3. CASE \/ CreateObject \/ DeleteObject \/ RemoveFinalizer \/ ShadowUp \/ ShadowGoes
           \/ GracePasses \/ \E b \in Bridges : CreateBridge(b)
  <2>1. UNCHANGED pods
    BY <1>3 DEF CreateObject, DeleteObject, RemoveFinalizer, ShadowUp, ShadowGoes, GracePasses, CreateBridge
  <2> QED
    BY <1>2, <2>1, NoPodChanges
<1>4. ASSUME NEW p \in Pods, PodUp(p) PROVE PodsTyped' /\ NoTarget'
  <2>1. up' \in [Pods -> {"down", "running", "ready"}]
    BY <1>4 DEF PodUp, PodsTyped
  <2>2. UNCHANGED <<target, image, upstream, stale, restarted>>
    BY <1>4 DEF PodUp
  <2> QED
    BY <1>2, <2>1, <2>2 DEF PodChanges, PodsTyped
<1>5. ASSUME NEW p \in Pods, Rollout(p) \/ PodGoes(p) PROVE PodsTyped' /\ NoTarget'
  <2>1. /\ target /\ target' = target /\ stale' \subseteq stale
        /\ image' = [image EXCEPT ![p] = "original"] /\ up' = [up EXCEPT ![p] = "down"]
        /\ upstream' = [upstream EXCEPT ![p] = FALSE] /\ restarted' = restarted
    BY <1>5 DEF Rollout, PodGoes, Replaced
  <2>2. restarted' \in BOOLEAN
    BY <2>1 DEF PodsTyped
  <2> QED
    BY <1>2, <2>1, <2>2, OnePodChanges
<1>6. CASE TargetGoes
  <2>1. \A g \in Procs : mem'[g].fresh = {}
    BY <1>6 DEF TargetGoes, ProcsTyped, Memory
  <2>2. /\ target' = FALSE /\ stale' = {} /\ restarted' = FALSE
        /\ image' = [p \in Pods |-> "none"] /\ up' = [p \in Pods |-> "down"]
        /\ upstream' = [p \in Pods |-> FALSE]
    BY <1>6 DEF TargetGoes
  <2> QED
    BY <2>1, <2>2 DEF PodsTyped, NoTarget
<1>7. CASE TargetReturns
  <2>1. ~target /\ target' = TRUE /\ UNCHANGED <<up, upstream, stale, restarted>>
        /\ image' = [p \in Pods |-> IF p \in Replicas THEN "original" ELSE "none"]
    BY <1>7 DEF TargetReturns
  <2>2. \A p \in Pods : ~upstream[p]
    BY <2>1 DEF PodsTyped, NoTarget
  <2> QED
    BY <2>1, <2>2 DEF PodsTyped, NoTarget
<1> QED
  BY <1>3, <1>4, <1>5, <1>6, <1>7

-----------------------------------------------------------------------------
(* The object, the copy of the workload, and who asks.                     *)

LEMMA HandlerKeepsObject ==
  ASSUME MountTypeOK, ProcsTyped, NEW h \in Procs, OnCourse(h), Step(h) \/ CallFails(h)
  PROVE  /\ ObjectTyped' /\ CopyTyped' /\ AskedTyped'
         /\ UNCHANGED <<phase, beside>>
         /\ \/ todo' = todo
            \/ todo' = todo \ {mem[h].task} /\ Finish(h) /\ pc[h] = "done"
<1> USE TypesSplit
<1>1. UNCHANGED <<fixed, phase, beside>>
  BY DEF Step, TargetExists, Finish, Persist, DuplicateHpa, DuplicateWorkload, DuplicateService,
     AskShadow, AskReady, ListPods, StoreOriginal, PatchPod, CommitConfig, RemoveWorkload, RemoveHpa,
     RemoveService, ReadTarget, RestoreTarget, ListBridges, RemoveBridge, CallFails, mount, asked
<1>2. \/ todo' = todo
      \/ todo' = todo \ {mem[h].task} /\ Finish(h) /\ pc[h] = "done"
  BY DEF Step, TargetExists, Finish, Persist, DuplicateHpa, DuplicateWorkload, DuplicateService,
     AskShadow, AskReady, ListPods, StoreOriginal, PatchPod, CommitConfig, RemoveWorkload, RemoveHpa,
     RemoveService, ReadTarget, RestoreTarget, ListBridges, RemoveBridge, CallFails, mount
<1>3. state' \in States /\ ever' \subseteq {"ACTIVE", "MISSING"} /\ grace' \in BOOLEAN
  <2>1. CASE Persist(h)
    BY <2>1, PersistStep DEF Persist, ObjectTyped
  <2>2. CASE ~Persist(h)
    <3>1. UNCHANGED <<state, ever, grace>>
      BY <2>2 DEF Step, TargetExists, Finish, DuplicateHpa, DuplicateWorkload, DuplicateService,
         AskShadow, AskReady, ListPods, StoreOriginal, PatchPod, CommitConfig, RemoveWorkload, RemoveHpa,
         RemoveService, ReadTarget, RestoreTarget, ListBridges, RemoveBridge, CallFails, mount
    <3> QED
      BY <3>1 DEF ObjectTyped
  <2> QED
    BY <2>1, <2>2
<1>4. ObjectTyped'
  BY <1>1, <1>2, <1>3 DEF ObjectTyped, fixed
<1>5. CopyTyped'
  BY DEF Step, TargetExists, Finish, Persist, DuplicateHpa, DuplicateWorkload, DuplicateService,
     AskShadow, AskReady, ListPods, StoreOriginal, PatchPod, CommitConfig, RemoveWorkload, RemoveHpa,
     RemoveService, ReadTarget, RestoreTarget, ListBridges, RemoveBridge, CallFails, copy, CopyTyped
<1>6. AskedTyped'
  <2>1. UNCHANGED asked \/ \E b : bridged' = bridged \ {b} /\ late' = late \ {b} /\ beside' = beside
    BY DEF Step, TargetExists, Finish, Persist, DuplicateHpa, DuplicateWorkload, DuplicateService,
       AskShadow, AskReady, ListPods, StoreOriginal, PatchPod, CommitConfig, RemoveWorkload, RemoveHpa,
       RemoveService, ReadTarget, RestoreTarget, ListBridges, RemoveBridge, CallFails
  <2> QED
    BY <2>1 DEF AskedTyped, asked
<1> QED
  BY <1>1, <1>2, <1>4, <1>5, <1>6

LEMMA OutsideKeepsObject ==
  ASSUME MountTypeOK,
         \/ CreateObject \/ DeleteObject \/ RemoveFinalizer \/ ShadowUp \/ ShadowGoes \/ TargetGoes
         \/ TargetReturns \/ GracePasses \/ \E b \in Bridges : CreateBridge(b)
         \/ \E p \in Pods : PodUp(p) \/ Rollout(p) \/ PodGoes(p)
  PROVE  ObjectTyped' /\ CopyTyped' /\ AskedTyped'
<1> USE TypesSplit
<1>1. CASE CreateObject \/ DeleteObject \/ RemoveFinalizer \/ GracePasses
  BY <1>1, ZenonT(40) DEF CreateObject, DeleteObject, RemoveFinalizer, GracePasses, ObjectTyped, CopyTyped,
     AskedTyped, copy, asked, fixed
<1>2. CASE ShadowUp \/ ShadowGoes
  BY <1>2 DEF ShadowUp, ShadowGoes, ObjectTyped, CopyTyped, AskedTyped, mount, asked, fixed
<1>3. CASE \E b \in Bridges : CreateBridge(b)
  BY <1>3 DEF CreateBridge, ObjectTyped, CopyTyped, AskedTyped, mount, copy, fixed
<1>4. CASE TargetGoes \/ TargetReturns \/ \E p \in Pods : PodUp(p) \/ Rollout(p) \/ PodGoes(p)
  <2>1. UNCHANGED <<fixed, mount, copy, store, asked>>
    BY <1>4 DEF TargetGoes, TargetReturns, PodUp, Rollout, PodGoes
  <2> QED
    BY <2>1 DEF ObjectTyped, CopyTyped, AskedTyped, mount, copy, asked, fixed
<1> QED
  BY <1>1, <1>2, <1>3, <1>4

-----------------------------------------------------------------------------
(* What kopf owes.                                                         *)

LEMMA HandlerKeepsOwed ==
  ASSUME MountTypeOK, ProcsTyped, \A g \in Procs : OnCourse(g), Owed,
         NEW h \in Procs, Step(h) \/ CallFails(h)
  PROVE  Owed'
<1>1. HandlerStep(h) /\ (Finish(h) => mem'[h] = Idle)
  BY StepIsHandlerStep, FinishStep
<1>2. mem'["worker"].task \in {"none", mem["worker"].task}
  BY <1>1 DEF HandlerStep, SameBut, Procs
<1>3. /\ phase' = phase
      /\ \/ todo' = todo
         \/ todo' = todo \ {mem[h].task} /\ Finish(h)
  BY HandlerKeepsObject
<1>4. ASSUME mem'["worker"].task = "delete" PROVE "delete" \in todo'
  <2>1. mem["worker"].task = "delete" /\ "delete" \in todo
    BY <1>2, <1>4 DEF Owed
  <2>2. Finish(h) => h # "worker"
    BY <1>1, <1>4, IdleTyped
  <2>3. h # "worker" => mem[h].task # "delete"
    BY DEF OnCourse
  <2> QED
    BY <1>3, <2>1, <2>2, <2>3
<1> QED
  BY <1>2, <1>3, <1>4 DEF Owed

LEMMA OutsideKeepsOwed ==
  ASSUME MountTypeOK, Owed, Apart,
         \/ CreateObject \/ DeleteObject \/ RemoveFinalizer
         \/ UNCHANGED <<phase, todo>>
  PROVE  Owed'
<1>1. mem'["worker"].task = mem["worker"].task
  BY DEF Apart, SameBut, Procs
<1> QED
  BY <1>1 DEF Owed, CreateObject, DeleteObject, RemoveFinalizer, MountTypeOK

LEMMA BeginsKeepsOwed ==
  ASSUME MountTypeOK, ProcsTyped, \A g \in Procs : OnCourse(g), Owed, NEW h \in Procs, NEW task, Begins(h, task),
         task = "delete" => "delete" \in todo
  PROVE  Owed'
<1>1. UNCHANGED <<phase, todo>> /\ \A g \in Procs \ {h} : mem'[g] = mem[g]
  BY DEF Begins, mount, ProcsTyped
<1>2. "worker" \in Procs /\ mem'[h].task = task
  BY DEF Procs, Begins
<1>3. phase \in {"absent", "present", "deleting", "gone"}
  BY DEF MountTypeOK
<1> QED
  BY <1>1, <1>2, <1>3 DEF Owed

-----------------------------------------------------------------------------
(* Without faults: the HPA, and the deletion.                              *)

LEMMA NoFaultNow ==
  ASSUME ProcsTyped, faults' = faults \/ Fault, faults' = 0
  PROVE  faults = 0 /\ ~Fault
  BY LimitAssumption DEF Fault, ProcsTyped

LEMMA HandlerFaults ==
  ASSUME NEW h \in Procs, Step(h) \/ CallFails(h)
  PROVE  /\ faults' = faults \/ Fault
         /\ CallFails(h) => Fault
  BY DEF Step, TargetExists, Finish, Persist, DuplicateHpa, DuplicateWorkload, DuplicateService,
     AskShadow, AskReady, ListPods, StoreOriginal, PatchPod, CommitConfig, RemoveWorkload, RemoveHpa,
     RemoveService, ReadTarget, RestoreTarget, ListBridges, RemoveBridge, CallFails

LEMMA HandlerKeepsHpa ==
  ASSUME MountTypeOK, ProcsTyped, NEW h \in Procs, OnCourse(h), HpaHasShadow, Step(h) \/ CallFails(h)
  PROVE  HpaHasShadow'
<1> SUFFICES ASSUME faults' = 0, hpa', shadow' = "none"
             PROVE  \E g \in Procs : pc'[g] \in {"duplicate workload", "rm hpa"}
  BY DEF HpaHasShadow
<1>1. faults = 0 /\ Step(h) /\ HandlerStep(h)
  BY HandlerFaults, NoFaultNow, StepIsHandlerStep
<1>2. \A g \in Procs \ {h} : pc'[g] = pc[g]
  BY <1>1 DEF HandlerStep, ProcsTyped
<1>3. CASE DuplicateHpa(h)
  <2>1. CASE target
    BY <1>3, <2>1 DEF DuplicateHpa, Goto, ProcsTyped
  <2>2. CASE ~target
    <3>1. UNCHANGED <<hpa, shadow>> /\ pc[h] = "duplicate hpa"
      BY <1>3, <2>2 DEF DuplicateHpa
    <3> QED
      BY <1>1, <1>2, <3>1 DEF HpaHasShadow
  <2> QED
    BY <2>1, <2>2
<1>4. CASE DuplicateWorkload(h) \/ RemoveHpa(h)
  BY <1>4 DEF DuplicateWorkload, RemoveHpa, MountTypeOK
<1>5. CASE RemoveWorkload(h)
  <2>1. CASE shadow = "none"
    BY <1>1, <1>2, <1>5, <2>1 DEF HpaHasShadow, RemoveWorkload
  <2>2. CASE shadow # "none"
    BY <1>5, <2>2 DEF RemoveWorkload, Goto, ProcsTyped
  <2> QED
    BY <2>1, <2>2
<1>6. CASE ~(DuplicateHpa(h) \/ DuplicateWorkload(h) \/ RemoveHpa(h) \/ RemoveWorkload(h))
  <2>1. UNCHANGED <<hpa, shadow>> /\ pc[h] \notin {"duplicate workload", "rm hpa"}
    BY <1>1, <1>6 DEF Step, TargetExists, Finish, Persist, Machine, DuplicateService,
       AskShadow, AskReady, ListPods, StoreOriginal, PatchPod, CommitConfig,
       RemoveService, ReadTarget, RestoreTarget, ListBridges, RemoveBridge, copy
  <2> QED
    BY <1>1, <1>2, <2>1 DEF HpaHasShadow
<1> QED
  BY <1>3, <1>4, <1>5, <1>6

(* One step of the delete handler. *)
LEMMA DeletionGoesOn ==
  ASSUME MountTypeOK, ProcsTyped, OnCourse("worker"), HpaHasShadow, Departing,
         faults = 0, pc["timer"] = "idle", mem["worker"].task = "delete",
         Step("worker"), mem'["worker"].task = "delete"
  PROVE  Departing'
<1> DEFINE w == "worker"
<1>1. w \in Procs /\ mem[w].goal = "terminate" /\ pc[w] \in Leaving \cup Ended /\ mem[w] \in Memory
  BY DEF OnCourse, Procs, ProcsTyped
<1>2. AfterUninstall(w) = "list bridges" /\ Cleaned(w) = "done"
  BY <1>1 DEF AfterUninstall, Cleaned
<1>3. \A call : Goto(w, call) => pc'[w] = call
  BY <1>1 DEF Goto, ProcsTyped
<1>4. CASE RemoveWorkload(w)
  <2>1. shadow = "none" => ~hpa
    BY <1>4 DEF HpaHasShadow, RemoveWorkload, Procs
  <2>2. shadow' = "none" /\ UNCHANGED hpa /\ pc'[w] = IF shadow = "none" THEN "rm service" ELSE "rm hpa"
    BY <1>3, <1>4 DEF RemoveWorkload
  <2> QED
    BY <2>1, <2>2 DEF Departing, Ended
<1>5. CASE RemoveHpa(w)
  <2>1. pc[w] = "rm hpa" /\ ~hpa' /\ shadow' = shadow /\ pc'[w] = "rm service"
    BY <1>3, <1>5 DEF RemoveHpa
  <2> QED
    BY <2>1 DEF Departing, Ended
<1>6. CASE RemoveService(w)
  <2>1. pc[w] = "rm service" /\ ~service' /\ UNCHANGED <<shadow, hpa>> /\ pc'[w] = "read target"
    BY <1>3, <1>6 DEF RemoveService
  <2> QED
    BY <2>1 DEF Departing, Removed, Ended
<1>7. CASE ReadTarget(w) \/ RestoreTarget(w)
  <2>1. /\ pc[w] \in {"read target", "restore target"} /\ UNCHANGED copy
        /\ pc'[w] \in {"restore target", "list bridges"}
    BY <1>2, <1>3, <1>7 DEF ReadTarget, RestoreTarget
  <2> QED
    BY <2>1 DEF Departing, Removed, Ended, copy
<1>8. CASE ListBridges(w)
  <2>1. /\ pc[w] = "list bridges" /\ UNCHANGED <<copy, bridged, late>>
        /\ pc'[w] = IF bridged = {} THEN "done" ELSE "rm bridge"
    BY <1>2, <1>3, <1>8 DEF ListBridges, asked
  <2>2. mem'[w].bridges = bridged
    BY <1>1, <1>8 DEF ListBridges, ProcsTyped, Memory
  <2> QED
    BY <2>1, <2>2 DEF Departing, Removed, Emptied, Ended, copy
<1>9. CASE RemoveBridge(w)
  <2>1. PICK b \in mem[w].bridges :
          /\ bridged' = bridged \ {b} /\ late' = late \ {b}
          /\ mem' = [mem EXCEPT ![w].bridges = @ \ {b}]
          /\ pc'[w] = IF b \notin bridged \/ mem[w].bridges = {b} THEN "done" ELSE "rm bridge"
    BY <1>2, <1>3, <1>9 DEF RemoveBridge
  <2>2. /\ pc[w] = "rm bridge" /\ UNCHANGED copy
        /\ mem'[w].bridges = mem[w].bridges \ {b}
    BY <1>1, <1>9, <2>1 DEF RemoveBridge, ProcsTyped, Memory
  <2>3. mem[w].bridges \subseteq bridged /\ bridged \subseteq mem[w].bridges \cup late /\ Removed
    BY <2>2 DEF Departing
  <2>4. Removed' /\ mem'[w].bridges \subseteq bridged' /\ bridged' \subseteq mem'[w].bridges \cup late'
    BY <2>1, <2>2, <2>3 DEF Removed, copy
  <2>5. pc'[w] = "done" => bridged' \subseteq late'
    BY <2>1, <2>3
  <2> QED
    BY <2>1, <2>4, <2>5 DEF Departing, Emptied, Ended
<1>10. ~(\/ TargetExists(w) \/ Persist(w) \/ DuplicateHpa(w) \/ DuplicateWorkload(w)
         \/ DuplicateService(w) \/ AskShadow(w) \/ AskReady(w) \/ ListPods(w) \/ StoreOriginal(w)
         \/ PatchPod(w) \/ CommitConfig(w))
  BY <1>1, MachineLeads DEF TargetExists, Persist, DuplicateHpa, DuplicateWorkload, DuplicateService,
     AskShadow, AskReady, ListPods, StoreOriginal, PatchPod, CommitConfig, Leaving, Ended
<1>11. ~Finish(w)
  BY <1>1, FinishStep, IdleTyped
<1> QED
  BY <1>4, <1>5, <1>6, <1>7, <1>8, <1>9, <1>10, <1>11 DEF Step

LEMMA HandlerKeepsDeparture ==
  ASSUME MountTypeOK, ProcsTyped, \A g \in Procs : OnCourse(g), Owed, HpaHasShadow, Departure,
         NEW h \in Procs, Step(h) \/ CallFails(h)
  PROVE  Departure'
<1> SUFFICES ASSUME faults' = 0, phase' \in {"deleting", "gone"}, "timer" \notin beside'
             PROVE  /\ pc'["timer"] = "idle"
                    /\ mem'["worker"].task = "delete" => Departing'
                    /\ todo' = {} => pc'["worker"] = "idle" /\ Emptied'
  BY DEF Departure
<1>1. faults = 0 /\ Step(h) /\ HandlerStep(h)
  BY HandlerFaults, NoFaultNow, StepIsHandlerStep
<1>2. /\ UNCHANGED <<phase, beside>>
      /\ \/ todo' = todo
         \/ todo' = todo \ {mem[h].task} /\ Finish(h) /\ pc[h] = "done"
  BY HandlerKeepsObject
<1>3. /\ pc["timer"] = "idle"
      /\ mem["worker"].task = "delete" => Departing
      /\ todo = {} => pc["worker"] = "idle" /\ Emptied
  BY <1>1, <1>2 DEF Departure
<1>4. h = "worker" /\ todo # {}
  BY <1>1, <1>3 DEF HandlerStep, Procs
<1>5. pc'["timer"] = "idle"
  BY <1>1, <1>3, <1>4 DEF HandlerStep, ProcsTyped, Procs
<1>6. ASSUME mem'["worker"].task = "delete" PROVE Departing'
  <2>1. mem["worker"].task = "delete" /\ OnCourse("worker")
    BY <1>1, <1>4, <1>6 DEF HandlerStep, Procs
  <2> QED
    BY <1>1, <1>3, <1>4, <1>6, <2>1, DeletionGoesOn
<1>7. ASSUME todo' = {} PROVE pc'["worker"] = "idle" /\ Emptied'
  <2>1. Finish("worker") /\ pc["worker"] = "done" /\ todo \subseteq {mem["worker"].task}
    BY <1>2, <1>4, <1>7
  <2>2. "create" \notin todo /\ todo \subseteq {"create", "delete"}
    BY <1>2 DEF Owed, MountTypeOK
  <2>3. mem["worker"].task = "delete"
    BY <1>4, <2>1, <2>2
  <2>4. Emptied
    BY <1>3, <2>1, <2>3 DEF Departing, Ended
  <2>5. UNCHANGED <<copy, asked>> /\ pc'["worker"] = "idle"
    BY <2>1 DEF Finish, Goto, ProcsTyped, Procs
  <2> QED
    BY <2>4, <2>5 DEF Emptied, Removed, copy, asked
<1> QED
  BY <1>5, <1>6, <1>7

(* Handlers apart, no step but ShadowUp and CreateBridge changes what the  *)
(* delete handler has removed. *)
LEMMA OutsideKeepsHpa ==
  ASSUME MountTypeOK, ProcsTyped, Apart, HpaHasShadow,
         \/ CreateObject \/ DeleteObject \/ RemoveFinalizer \/ ShadowUp \/ ShadowGoes \/ TargetGoes
         \/ TargetReturns \/ GracePasses \/ \E b \in Bridges : CreateBridge(b)
         \/ \E p \in Pods : PodUp(p) \/ Rollout(p) \/ PodGoes(p)
  PROVE  HpaHasShadow'
<1>1. hpa' = hpa /\ (shadow' = "none" => shadow = "none")
  BY DEF CreateObject, DeleteObject, RemoveFinalizer, ShadowUp, ShadowGoes, TargetGoes, TargetReturns,
     GracePasses, CreateBridge, PodUp, Rollout, PodGoes, copy
<1>2. pc' = pc /\ (faults' = faults \/ Fault)
  BY DEF Apart
<1>3. faults' = 0 => faults = 0
  BY <1>2, NoFaultNow
<1> QED
  BY <1>1, <1>2, <1>3 DEF HpaHasShadow

LEMMA OutsideKeepsDeparture ==
  ASSUME MountTypeOK, ProcsTyped, Apart, Owed, Departure,
         \/ CreateObject \/ DeleteObject \/ RemoveFinalizer \/ ShadowUp \/ ShadowGoes \/ TargetGoes
         \/ TargetReturns \/ GracePasses \/ \E b \in Bridges : CreateBridge(b)
         \/ \E p \in Pods : PodUp(p) \/ Rollout(p) \/ PodGoes(p)
  PROVE  Departure'
<1> SUFFICES ASSUME faults' = 0, phase' \in {"deleting", "gone"}, "timer" \notin beside'
             PROVE  /\ pc'["timer"] = "idle"
                    /\ mem'["worker"].task = "delete" => Departing'
                    /\ todo' = {} => pc'["worker"] = "idle" /\ Emptied'
  BY DEF Departure
<1>1. /\ pc' = pc /\ mem'["worker"].task = mem["worker"].task
      /\ mem'["worker"].bridges = mem["worker"].bridges /\ (faults' = faults \/ Fault)
  BY DEF Apart, SameBut, Procs
<1>2. faults = 0 /\ ~Fault
  BY <1>1, NoFaultNow
<1>3. CASE DeleteObject
  <2>1. /\ phase = "present" /\ todo' = {"delete"}
        /\ {h \in Procs : pc[h] # "idle"} \subseteq beside'
    BY <1>3 DEF DeleteObject
  <2>2. pc["timer"] = "idle" /\ mem["worker"].task # "delete"
    BY <2>1 DEF Owed, Procs
  <2> QED
    BY <1>1, <2>1, <2>2
<1>4. CASE ~DeleteObject
  <2>1. ~CreateObject /\ UNCHANGED <<todo, beside, service, hpa>> /\ phase \in {"deleting", "gone"}
    BY <1>4 DEF CreateObject, RemoveFinalizer, ShadowUp, ShadowGoes, TargetGoes, TargetReturns,
       GracePasses, CreateBridge, PodUp, Rollout, PodGoes, mount, copy, asked
  <2>2. /\ shadow = "none" => shadow' = "none"
        /\ \/ UNCHANGED <<bridged, late>>
           \/ \E b : bridged' = bridged \cup {b} /\ late' = late \cup {b}
    BY <1>4, <2>1 DEF RemoveFinalizer, ShadowUp, ShadowGoes, TargetGoes, TargetReturns,
       GracePasses, CreateBridge, PodUp, Rollout, PodGoes, copy, asked
  <2>3. /\ pc["timer"] = "idle"
        /\ mem["worker"].task = "delete" => Departing
        /\ todo = {} => pc["worker"] = "idle" /\ Emptied
    BY <1>2, <2>1 DEF Departure
  <2>4. (Removed => Removed') /\ (Emptied => Emptied')
    BY <2>1, <2>2 DEF Removed, Emptied
  <2>5. Departing => Departing'
    BY <1>1, <2>1, <2>2, <2>4 DEF Departing
  <2> QED
    BY <1>1, <2>1, <2>3, <2>4, <2>5
<1> QED
  BY <1>3, <1>4

LEMMA BeginsKeepsHpa ==
  ASSUME ProcsTyped, NEW h \in Procs, NEW task, Begins(h, task), HpaHasShadow
  PROVE  HpaHasShadow'
<1>1. UNCHANGED <<shadow, hpa, faults>> /\ \A g \in Procs \ {h} : pc'[g] = pc[g]
  BY DEF Begins, copy, ProcsTyped
<1>2. pc[h] \notin {"duplicate workload", "rm hpa"}
  BY DEF Begins
<1> QED
  BY <1>1, <1>2 DEF HpaHasShadow

LEMMA BeginsKeepsDeparture ==
  ASSUME MountTypeOK, ProcsTyped, Owed, Departure, StartCreate \/ StartDelete \/ StartTimer
  PROVE  Departure'
<1> SUFFICES ASSUME faults' = 0, phase' \in {"deleting", "gone"}, "timer" \notin beside'
             PROVE  /\ pc'["timer"] = "idle"
                    /\ mem'["worker"].task = "delete" => Departing'
                    /\ todo' = {} => pc'["worker"] = "idle" /\ Emptied'
  BY DEF Departure
<1>1. UNCHANGED <<faults, phase, todo, beside>>
  BY DEF StartCreate, StartDelete, StartTimer, mount, asked
<1>2. ~StartCreate /\ ~StartTimer
  BY <1>1 DEF Owed, StartCreate, StartTimer
<1>3. pc'["worker"] = "rm workload" /\ Begins("worker", "delete")
  BY <1>2, StartOtherBegins
<1>4. pc'["timer"] = "idle"
  BY <1>1, <1>3 DEF Begins, Departure, ProcsTyped, Procs
<1>5. todo' # {}
  BY <1>1, <1>2 DEF StartDelete
<1> QED
  BY <1>3, <1>4, <1>5 DEF Departing, Ended

-----------------------------------------------------------------------------
(* Every step keeps the invariant.                                         *)

LEMMA InitInv == Init => MountInv
<1> SUFFICES ASSUME Init PROVE MountInv
  OBVIOUS
<1>1. MountTypeOK
  BY KindsAssumption DEF Init, MountTypeOK, States
<1>2. ProcsTyped
  BY IdleTyped, LimitAssumption DEF Init, ProcsTyped, Pcs
<1>3. ASSUME NEW h \in Procs
      PROVE  pc[h] = "idle" /\ mem[h] = Idle /\ OnCourse(h)
  BY <1>3, IdleTyped DEF Init, OnCourse, Lined
<1>4. NoTarget /\ HpaHasShadow /\ Departure
  BY DEF Init, NoTarget, HpaHasShadow, Departure
<1>5. Owed
  <2>1. mem["worker"].task = "none"
    BY <1>3, IdleTyped DEF Procs
  <2> QED
    BY <2>1 DEF Init, Owed
<1> QED
  BY <1>1, <1>2, <1>3, <1>4, <1>5 DEF MountInv

LEMMA HandlerKeepsInv ==
  ASSUME MountInv, NEW h \in Procs, Step(h) \/ CallFails(h)
  PROVE  MountInv'
<1> USE DEF MountInv
<1>1. HandlerStep(h)
  BY StepIsHandlerStep
<1>2. ProcsTyped' /\ \A g \in Procs : OnCourse(g)'
  BY <1>1, HandlerStepKeepsProcs
<1>3. PodChanges
  BY HandlerChangesPods
<1>4. MountTypeOK'
  BY <1>3, HandlerKeepsObject, TypesJoin DEF PodChanges
<1>5. NoTarget'
  BY <1>1, <1>3, HandlerKeepsNoTarget
<1>6. Owed' /\ HpaHasShadow' /\ Departure'
  BY HandlerKeepsOwed, HandlerKeepsHpa, HandlerKeepsDeparture
<1> QED
  BY <1>2, <1>4, <1>5, <1>6

LEMMA OutsideKeepsInv ==
  ASSUME MountInv,
         \/ CreateObject \/ DeleteObject \/ RemoveFinalizer \/ ShadowUp \/ ShadowGoes \/ TargetGoes
         \/ TargetReturns \/ GracePasses \/ \E b \in Bridges : CreateBridge(b)
         \/ \E p \in Pods : PodUp(p) \/ Rollout(p) \/ PodGoes(p)
  PROVE  MountInv'
<1> USE DEF MountInv
<1>1. Apart
  BY OutsideIsApart
<1>2. ProcsTyped' /\ \A g \in Procs : OnCourse(g)'
  BY <1>1, ApartKeepsProcs
<1>3. PodsTyped' /\ NoTarget'
  BY <1>1, OutsideChangesPods
<1>4. MountTypeOK'
  BY <1>3, OutsideKeepsObject, TypesJoin
<1>5. \/ CreateObject \/ DeleteObject \/ RemoveFinalizer
      \/ UNCHANGED <<phase, todo>>
  BY DEF ShadowUp, ShadowGoes, TargetGoes, TargetReturns, GracePasses, CreateBridge, PodUp, Rollout,
     PodGoes, mount
<1>6. Owed'
  BY <1>1, <1>5, OutsideKeepsOwed
<1>7. HpaHasShadow' /\ Departure'
  BY <1>1, OutsideKeepsHpa, OutsideKeepsDeparture
<1> QED
  BY <1>2, <1>3, <1>4, <1>6, <1>7

LEMMA StartKeepsInv ==
  ASSUME MountInv, StartCreate \/ StartDelete \/ StartTimer
  PROVE  MountInv'
<1> USE DEF MountInv
<1>1. PICK h \in Procs, task \in {"create", "delete", "timer"} :
         Begins(h, task) /\ (task = "delete" => "delete" \in todo)
  BY StartCreateBegins, StartOtherBegins DEF Procs, StartDelete
<1>2. ProcsTyped' /\ \A g \in Procs : OnCourse(g)'
  BY <1>1, BeginsKeepsProcs
<1>3. UNCHANGED <<fixed, mount, pods, copy, store, asked, faults>>
  BY <1>1 DEF Begins
<1>4. MountTypeOK'
  BY <1>3 DEF MountTypeOK, fixed, mount, pods, copy, asked
<1>5. NoTarget'
  <2>1. mem'[h].fresh = {} /\ \A g \in Procs \ {h} : mem'[g] = mem[g]
    BY <1>1 DEF Begins, ProcsTyped
  <2> QED
    BY <1>3, <2>1 DEF NoTarget, pods
<1>6. Owed' /\ HpaHasShadow' /\ Departure'
  BY <1>1, BeginsKeepsOwed, BeginsKeepsHpa, BeginsKeepsDeparture
<1> QED
  BY <1>2, <1>4, <1>5, <1>6

(* A restart forgets the handlers, and counts as a fault. *)
LEMMA RestartKeepsInv ==
  ASSUME MountInv, Restart
  PROVE  MountInv'
<1> USE DEF MountInv
<1>1. /\ UNCHANGED <<fixed, phase, state, ever, grace, pods, copy, store, asked>> /\ Fault
      /\ pc' = [h \in Procs |-> "idle"] /\ mem' = [h \in Procs |-> Idle]
  BY DEF Restart
<1>2. /\ phase = "present" => todo' = {"create"}
      /\ phase = "deleting" => todo' = {"delete"}
      /\ phase \in {"absent", "gone"} => todo' = {}
  BY DEF Restart
<1>3. MountTypeOK'
  BY <1>1, <1>2 DEF MountTypeOK, fixed, pods, copy, asked
<1>4. ProcsTyped'
  BY <1>1, IdleTyped, FaultIsCounted DEF ProcsTyped, Pcs
<1>5. ASSUME NEW h \in Procs
      PROVE  mem'[h] = Idle /\ OnCourse(h)'
  BY <1>1, <1>5, IdleTyped DEF OnCourse, Lined
<1>6. NoTarget'
  BY <1>1, <1>5, IdleTyped DEF NoTarget, pods
<1>7. Owed'
  <2>1. mem'["worker"].task = "none"
    BY <1>5, IdleTyped DEF Procs
  <2> QED
    BY <1>1, <1>2, <2>1 DEF Owed, MountTypeOK
<1>8. faults' # 0
  BY <1>1, NoFaultNow
<1> QED
  BY <1>3, <1>4, <1>5, <1>6, <1>7, <1>8 DEF HpaHasShadow, Departure

LEMMA NextKeepsInv == MountInv /\ [Next]_vars => MountInv'
<1> SUFFICES ASSUME MountInv, [Next]_vars PROVE MountInv'
  OBVIOUS
<1>1. CASE UNCHANGED vars
  <2>1. UNCHANGED <<fixed, mount, pods, copy, store, asked, pc, mem, faults>>
    BY <1>1 DEF vars
  <2>2. MountTypeOK' /\ ProcsTyped'
    BY <2>1 DEF MountInv, MountTypeOK, ProcsTyped, fixed, mount, pods, copy, asked
  <2>3. ASSUME NEW h \in Procs PROVE OnCourse(h)'
    BY <2>1 DEF MountInv, OnCourse
  <2>4. NoTarget' /\ Owed' /\ HpaHasShadow'
    BY <2>1 DEF MountInv, NoTarget, Owed, HpaHasShadow, mount, pods, copy
  <2>5. Departure'
    BY <2>1 DEF MountInv, Departure, Departing, Emptied, Removed, mount, copy, asked
  <2> QED
    BY <2>2, <2>3, <2>4, <2>5 DEF MountInv
<1>2. CASE \E h \in Procs : Step(h) \/ CallFails(h)
  BY <1>2, HandlerKeepsInv
<1>3. CASE StartCreate \/ StartDelete \/ StartTimer
  BY <1>3, StartKeepsInv
<1>4. CASE Restart
  BY <1>4, RestartKeepsInv
<1>5. CASE \/ CreateObject \/ DeleteObject \/ RemoveFinalizer \/ ShadowUp \/ ShadowGoes \/ TargetGoes
           \/ TargetReturns \/ GracePasses \/ \E b \in Bridges : CreateBridge(b)
           \/ \E p \in Pods : PodUp(p) \/ Rollout(p) \/ PodGoes(p)
  BY <1>5, OutsideKeepsInv
<1> QED
  BY <1>1, <1>2, <1>3, <1>4, <1>5 DEF Next, Dispatch, Cluster

(* The inductive invariant: what kopf owes, where every handler is, what   *)
(* it remembers, and how far a deletion has come.                          *)
THEOREM MountInvariant == Spec => []MountInv
<1>1. Init => MountInv
  BY InitInv
<1>2. MountInv /\ [Next]_vars => MountInv'
  BY NextKeepsInv
<1> QED
  BY <1>1, <1>2, PTL DEF Spec

(* Types; and Carrier's configuration is only ever in a pod that runs      *)
(* Carrier: whatever replaces or restores a container takes it away.       *)
THEOREM MountTypes == Spec => []MountTypeOK
<1>1. MountInv => MountTypeOK
  BY DEF MountInv
<1> QED
  BY <1>1, MountInvariant, PTL

(* Where no call failed and no timer was at work when the mount was        *)
(* deleted: what delete() has removed nobody creates again, and kopf takes *)
(* the finalizer away when all is removed, so a mount that has gone leaves *)
(* no shadow, service or HPA, and only bridges that came too late.         *)
THEOREM DeletedLeavesNothing == Spec => []GoneLeavesNothing
<1>1. MountInv => GoneLeavesNothing
  <2> SUFFICES ASSUME MountInv, phase = "gone", Undisturbed, "timer" \notin beside
               PROVE  shadow = "none" /\ ~service /\ ~hpa /\ bridged \subseteq late
    BY DEF GoneLeavesNothing
  <2>1. todo = {} /\ faults = 0
    BY DEF MountInv, Owed, Undisturbed
  <2> QED
    BY <2>1 DEF MountInv, Departure, Emptied, Removed
<1> QED
  BY <1>1, MountInvariant, PTL
=============================================================================
