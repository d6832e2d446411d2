------------------------ MODULE TargetHealth_proofs ------------------------
(***************************************************************************)
(* Proofs about the health monitor: for every set of agents,               *)
(* configurations and goroutine slots, a path is probed by exactly the one *)
(* loop the monitor means to run, and the generation keeps results of an   *)
(* earlier configuration out of the verdict.                               *)
(***************************************************************************)
EXTENDS TargetHealth, FiniteSetTheorems, TLAPS

(* The states the monitor and the loops start from are well formed. *)
LEMMA NewStates ==
    /\ Unknown \in Checks
    /\ NoPath \in PathStates
    /\ NoLoop \in LoopStates
<1>1. Unknown \in Checks
  BY ThresholdAssumption DEF Unknown, Checks
<1>2. NoPath \in PathStates
  BY <1>1 DEF NoPath, PathStates
<1>3. NoLoop \in LoopStates
  BY DEF NoLoop, LoopStates, LoopStages, Targets
<1> QED
  BY <1>1, <1>2, <1>3

(* A new loop gets a free slot. *)
LEMMA NewSlotFree == ASSUME NEW p, FreeSlots(p) # {} PROVE NewSlot(p) \in FreeSlots(p)
  BY DEF NewSlot

(* The records of a check keep it well formed. *)
LEMMA CheckResultType ==
    ASSUME NEW check \in Checks, NEW r PROVE CheckResult(check, r) \in Checks
<1> DEFINE up   == Min({HealthyThreshold, check.up + 1})
           down == Min({UnhealthyThreshold, check.down + 1})
<1>1. up \in 0..HealthyThreshold
  BY ThresholdAssumption DEF Min, Checks
<1>2. down \in 0..UnhealthyThreshold
  BY ThresholdAssumption DEF Min, Checks
<1> HIDE DEF up, down
<1>3. CheckResult(check, r) =
        CASE r = "ok" ->
               [status |-> IF up = HealthyThreshold THEN "healthy" ELSE check.status,
                up |-> up, down |-> 0, cooling |-> FALSE]
          [] r = "fail" ->
               [status |-> IF down = UnhealthyThreshold THEN "unhealthy" ELSE check.status,
                up |-> 0, down |-> down, cooling |-> check.cooling]
          [] OTHER -> check
  BY DEF CheckResult, up, down
<1> QED
  BY <1>1, <1>2, <1>3, ThresholdAssumption DEF Checks

(* An agent's connection or disconnection changes neither the path's loop  *)
(* nor its generation.                                                     *)
Same(s, t) == t.running = s.running /\ t.cancel = s.cancel /\ t.generation = s.generation

LEMMA ConnectionType ==
    ASSUME NEW s \in PathStates
    PROVE  /\ Connected(s) \in PathStates /\ Same(s, Connected(s))
           /\ Disconnected(s) \in PathStates /\ Same(s, Disconnected(s))
<1>1. Unknown \in Checks /\ s.check \in Checks
  BY NewStates DEF PathStates
<1>2. [Unknown EXCEPT !.cooling = s.check.cooling] \in Checks
  BY <1>1 DEF Checks
<1>3. Connected(s) \in PathStates /\ Same(s, Connected(s))
  BY <1>1 DEF Connected, PathStates, Same
<1>4. Disconnected(s) \in PathStates /\ Same(s, Disconnected(s))
  BY <1>2 DEF Disconnected, PathStates, Same
<1> QED
  BY <1>3, <1>4

(* What a step changes of the loops when it writes one of them. *)
LoopWritten(p, i, l) ==
    /\ loops' \in [Paths -> [Slots -> LoopStates]]
    /\ loops'[p][i] = l
    /\ \A q \in Paths, j \in Slots : q # p \/ j # i => loops'[q][j] = loops[q][j]

LEMMA LoopWrite ==
    ASSUME HealthTypeOK, NEW p \in Paths, NEW i \in Slots, NEW l \in LoopStates,
           loops' = [loops EXCEPT ![p][i] = l]
    PROVE  LoopWritten(p, i, l)
<1>1. loops \in [Paths -> [Slots -> LoopStates]] /\ loops[p] \in [Slots -> LoopStates]
  BY DEF HealthTypeOK
<1> QED
  BY <1>1 DEF LoopWritten

(* Leaving a loop, moving it on and letting it wait write well formed      *)
(* states.                                                                 *)
LEMMA LoopMoves ==
    ASSUME HealthTypeOK, NEW p \in Paths, NEW i \in Slots, NEW stage \in LoopStages
    PROVE  /\ Exits(p, i) => LoopWritten(p, i, NoLoop)
           /\ Goes(p, i, stage) => LoopWritten(p, i, [loops[p][i] EXCEPT !.stage = stage])
           /\ Waits(p, i) =>
                \/ loops[p][i].cancelled /\ LoopWritten(p, i, NoLoop)
                \/ LoopWritten(p, i, [loops[p][i] EXCEPT !.stage = "wait", !.seen = NoConfig,
                                                         !.result = "none"])
<1>1. loops[p][i] \in LoopStates
  BY DEF HealthTypeOK
<1>2. Exits(p, i) => LoopWritten(p, i, NoLoop)
  BY NewStates, LoopWrite DEF Exits
<1>3. Goes(p, i, stage) => LoopWritten(p, i, [loops[p][i] EXCEPT !.stage = stage])
  <2>1. [loops[p][i] EXCEPT !.stage = stage] \in LoopStates
    BY <1>1 DEF LoopStates
  <2> QED
    BY <2>1, LoopWrite DEF Goes
<1>4. Waits(p, i) =>
         \/ loops[p][i].cancelled /\ LoopWritten(p, i, NoLoop)
         \/ LoopWritten(p, i, [loops[p][i] EXCEPT !.stage = "wait", !.seen = NoConfig,
                                                  !.result = "none"])
  <2>1. [loops[p][i] EXCEPT !.stage = "wait", !.seen = NoConfig, !.result = "none"] \in LoopStates
    BY <1>1 DEF LoopStates, LoopStages, Targets
  <2> QED
    BY <1>2, <2>1, LoopWrite DEF Waits
<1> QED
  BY <1>2, <1>3, <1>4

(* No path's loop, generation or configuration changes. *)
PathsSame ==
    /\ target' = target
    /\ path' \in [Paths -> PathStates]
    /\ \A q \in Paths : Same(path[q], path'[q])

(* A loop step ends the loop, which was cancelled or found itself          *)
(* superseded, or moves it on; a direct loop probes with the target it     *)
(* read.                                                                   *)
LoopMoved(p, i) ==
    LET l == loops[p][i]
        m == loops'[p][i]
    IN  /\ l.stage # "free"
        /\ \A q \in Paths, j \in Slots : q # p \/ j # i => loops'[q][j] = loops[q][j]
        /\ \/ /\ m = NoLoop
              /\ \/ l.cancelled
                 \/ ~path[p].running
                 \/ p = Direct /\ path[p].generation # l.generation
           \/ /\ m.stage # "free"
              /\ m.generation = l.generation
              /\ m.cancelled = l.cancelled
              /\ m.orphan = l.orphan
              /\ p = Direct /\ m.stage \in {"probe", "record"} =>
                    m.seen = target \/ (l.stage \in {"probe", "record"} /\ m.seen = l.seen)

LEMMA LoopEffect ==
    ASSUME HealthTypeOK, NEW p \in Paths, NEW i \in Slots, Loop(p, i)
    PROVE  HealthTypeOK' /\ PathsSame /\ LoopMoved(p, i)
<1> DEFINE l == loops[p][i]
<1> USE DEF monitorVars, worldVars, hubState, proxyVars
<1>0. l \in LoopStates /\ path[p] \in PathStates /\ path[p].check \in Checks
  BY DEF HealthTypeOK, PathStates
<1>a. ASSUME UNCHANGED <<worldVars, hubState, proxyVars>>, PathsSame,
             loops' \in [Paths -> [Slots -> LoopStates]]
      PROVE  HealthTypeOK'
  BY <1>a DEF HealthTypeOK, PathsSame
<1>b. UNCHANGED monitorVars => PathsSame
  BY DEF PathsSame, HealthTypeOK, Same
<1>c. ASSUME l.stage # "free", l.cancelled, LoopWritten(p, i, NoLoop) PROVE LoopMoved(p, i)
  BY <1>c DEF LoopMoved, LoopWritten
<1>d. \A s : LoopWritten(p, i, s) => loops' \in [Paths -> [Slots -> LoopStates]]
  BY DEF LoopWritten
<1>e. ASSUME l.stage # "free", Waits(p, i)
      PROVE  LoopMoved(p, i) /\ loops' \in [Paths -> [Slots -> LoopStates]]
  <2>1. CASE l.cancelled /\ LoopWritten(p, i, NoLoop)
    BY <1>c, <1>d, <1>e, <2>1
  <2>2. CASE LoopWritten(p, i, [l EXCEPT !.stage = "wait", !.seen = NoConfig, !.result = "none"])
    BY <1>0, <1>d, <1>e, <2>2 DEF LoopMoved, LoopWritten, LoopStates
  <2> QED
    BY <1>e, <2>1, <2>2, LoopMoves DEF LoopStages
<1>1. CASE p = Direct /\ CheckDirect(i)
  <2>1. l.stage = "check" /\ UNCHANGED <<monitorVars, worldVars, hubState, proxyVars>>
    BY <1>1 DEF CheckDirect
  <2>2. CASE path[Direct].running /\ path[Direct].generation = l.generation
    <3>1. loops' = [loops EXCEPT ![p][i] = [l EXCEPT !.seen = target, !.stage = "probe"]]
      BY <1>1, <2>2 DEF CheckDirect
    <3>2. [l EXCEPT !.seen = target, !.stage = "probe"] \in LoopStates
      BY <1>0 DEF LoopStates, LoopStages, HealthTypeOK
    <3>3. LoopWritten(p, i, [l EXCEPT !.seen = target, !.stage = "probe"])
      BY <3>1, <3>2, LoopWrite
    <3>4. LoopMoved(p, i)
      BY <1>0, <2>1, <3>3 DEF LoopMoved, LoopWritten, LoopStates
    <3> QED
      BY <1>a, <1>b, <1>d, <2>1, <3>3, <3>4
  <2>3. CASE ~(path[Direct].running /\ path[Direct].generation = l.generation)
    <3>1. Exits(p, i)
      BY <1>1, <2>3 DEF CheckDirect
    <3>2. LoopWritten(p, i, NoLoop)
      BY <3>1, LoopMoves DEF LoopStages
    <3>3. LoopMoved(p, i)
      BY <1>1, <2>1, <2>3, <3>2 DEF LoopMoved, LoopWritten
    <3> QED
      BY <1>a, <1>b, <1>d, <2>1, <3>2, <3>3
  <2> QED
    BY <2>2, <2>3
<1>2. CASE p # Direct /\ CheckAgent(p, i)
  <2>1. l.stage = "check" /\ UNCHANGED <<monitorVars, worldVars, hubState, proxyVars>>
    BY <1>2 DEF CheckAgent
  <2>2. CASE path[p].running
    <3>1. StageOf(p) \in LoopStages /\ StageOf(p) # "free"
      BY DEF StageOf, LoopStages
    <3>2. LoopWritten(p, i, [l EXCEPT !.stage = StageOf(p)])
      BY <1>2, <2>2, <3>1, LoopMoves DEF CheckAgent
    <3>3. LoopMoved(p, i)
      BY <1>0, <1>2, <2>1, <3>1, <3>2 DEF LoopMoved, LoopWritten, LoopStates
    <3> QED
      BY <1>a, <1>b, <1>d, <2>1, <3>2, <3>3
  <2>3. CASE ~path[p].running
    <3>1. LoopWritten(p, i, NoLoop)
      BY <1>2, <2>3, LoopMoves DEF CheckAgent, LoopStages
    <3>2. LoopMoved(p, i)
      BY <2>1, <2>3, <3>1 DEF LoopMoved, LoopWritten
    <3> QED
      BY <1>a, <1>b, <1>d, <2>1, <3>1, <3>2
  <2> QED
    BY <2>2, <2>3
<1>3. CASE p # Direct /\ Observe(p, i)
  <2>1. /\ l.stage \in {"cordoned", "absent", "present"}
        /\ UNCHANGED <<target, worldVars, hubState, proxyVars>>
        /\ IF l.stage = "present" THEN Goes(p, i, "probe") ELSE Waits(p, i)
    BY <1>3 DEF Observe
  <2>2. PathsSame
    <3>1. \/ path' = path
          \/ path' = [path EXCEPT ![p] = Connected(path[p])]
          \/ path' = [path EXCEPT ![p] = Disconnected(path[p])]
          \/ path' = [path EXCEPT ![p] = [path[p] EXCEPT !.exists = TRUE]]
      BY <1>3 DEF Observe
    <3>2. [path[p] EXCEPT !.exists = TRUE] \in PathStates /\ Same(path[p], [path[p] EXCEPT !.exists = TRUE])
      BY <1>0 DEF PathStates, Same
    <3>3. \A q \in Paths : Same(path[q], path[q])
      BY DEF Same
    <3>4. path \in [Paths -> PathStates]
      BY DEF HealthTypeOK
    <3>5. \A s \in PathStates : Same(path[p], s) /\ path' = [path EXCEPT ![p] = s] => PathsSame
      BY <2>1, <3>3, <3>4 DEF PathsSame
    <3> QED
      BY <1>0, <1>b, <2>1, <3>1, <3>2, <3>5, ConnectionType
  <2>3. CASE l.stage = "present"
    <3>1. LoopWritten(p, i, [l EXCEPT !.stage = "probe"])
      BY <2>1, <2>3, LoopMoves DEF LoopStages
    <3>2. LoopMoved(p, i)
      BY <1>0, <1>3, <2>1, <3>1 DEF LoopMoved, LoopWritten, LoopStates
    <3> QED
      BY <1>a, <1>d, <2>1, <2>2, <3>1, <3>2
  <2>4. CASE l.stage # "present"
    BY <1>a, <1>e, <2>1, <2>2, <2>4
  <2> QED
    BY <2>3, <2>4
<1>4. ASSUME NEW r \in {"ok", "fail", "skip"}, Probe(p, i, r)
      PROVE  HealthTypeOK' /\ PathsSame /\ LoopMoved(p, i)
  <2>1. l.stage = "probe" /\ UNCHANGED <<monitorVars, worldVars, hubState, proxyVars>>
    BY <1>4 DEF Probe
  <2>2. loops' = [loops EXCEPT ![p][i] = [l EXCEPT !.result = r, !.stage = "record"]]
    BY <1>4 DEF Probe
  <2>3. [l EXCEPT !.result = r, !.stage = "record"] \in LoopStates
    BY <1>0 DEF LoopStates, LoopStages
  <2>4. LoopWritten(p, i, [l EXCEPT !.result = r, !.stage = "record"])
    BY <2>2, <2>3, LoopWrite
  <2>5. LoopMoved(p, i)
    BY <1>0, <2>1, <2>4 DEF LoopMoved, LoopWritten, LoopStates
  <2> QED
    BY <1>a, <1>b, <1>d, <2>1, <2>4, <2>5
<1>5. CASE Record(p, i)
  <2>1. l.stage = "record" /\ Waits(p, i) /\ UNCHANGED <<target, worldVars, hubState, proxyVars>>
    BY <1>5 DEF Record
  <2>2. PathsSame
    <3> DEFINE s == [path[p] EXCEPT !.exists = TRUE, !.check = CheckResult(path[p].check, l.result)]
    <3>1. path' = path \/ path' = [path EXCEPT ![p] = s]
      BY <1>5 DEF Record
    <3>2. CheckResult(path[p].check, l.result) \in Checks
      BY <1>0, CheckResultType
    <3>3. s \in PathStates /\ Same(path[p], s)
      BY <1>0, <3>2 DEF PathStates, Same
    <3> HIDE DEF s
    <3> QED
      BY <1>b, <2>1, <3>1, <3>3 DEF PathsSame, HealthTypeOK, Same
  <2> QED
    BY <1>a, <1>e, <2>1, <2>2
<1>6. CASE Tick(p, i)
  <2>1. l.stage = "wait" /\ UNCHANGED <<monitorVars, worldVars, hubState, proxyVars>>
    BY <1>6 DEF Tick
  <2>2. LoopWritten(p, i, [l EXCEPT !.stage = "check"])
    BY <1>6, LoopMoves DEF Tick, LoopStages
  <2>3. LoopMoved(p, i)
    BY <1>0, <2>1, <2>2 DEF LoopMoved, LoopWritten, LoopStates
  <2> QED
    BY <1>a, <1>b, <1>d, <2>1, <2>2, <2>3
<1>7. CASE WaitCancelled(p, i)
  <2>1. /\ l.stage = "wait" /\ l.cancelled
        /\ UNCHANGED <<monitorVars, worldVars, hubState, proxyVars>>
    BY <1>7 DEF WaitCancelled
  <2>2. LoopWritten(p, i, NoLoop)
    BY <1>7, LoopMoves DEF WaitCancelled, LoopStages
  <2> QED
    BY <1>a, <1>b, <1>c, <1>d, <2>1, <2>2
<1> QED
  BY <1>1, <1>2, <1>3, <1>4, <1>5, <1>6, <1>7 DEF Loop

(* A loop of the target's own state carries a generation the monitor has   *)
(* reached, the running loop the current one; and a direct loop of the     *)
(* current generation probes with the current configuration.               *)
GenerationInv ==
    /\ path[Direct].running =>
          /\ target # NoConfig
          /\ \A i \in Slots : path[Direct].cancel = i =>
                loops[Direct][i].generation = path[Direct].generation
    /\ \A i \in Slots : LET l == loops[Direct][i] IN
          l.stage # "free" /\ ~l.orphan =>
             /\ l.generation <= path[Direct].generation
             /\ l.stage \in {"probe", "record"} /\ path[Direct].running
                   /\ l.generation = path[Direct].generation => l.seen = target

HealthInv == HealthTypeOK /\ GenerationInv /\ OneLoopPerPath

(* OneLoopPerPath, one slot at a time. *)
Live(l) == l.stage # "free" /\ ~l.cancelled

OneLoop(p) ==
    /\ path[p].running => path[p].cancel \in Slots
    /\ \A i \in Slots : Live(loops[p][i]) <=> path[p].running /\ path[p].cancel = i

LEMMA OneLoopEquiv == OneLoopPerPath <=> \A p \in Paths : OneLoop(p)
<1>1. ASSUME OneLoopPerPath, NEW p \in Paths PROVE OneLoop(p)
  BY <1>1 DEF OneLoopPerPath, OneLoop, Live
<1>2. ASSUME \A p \in Paths : OneLoop(p) PROVE OneLoopPerPath
  <2> SUFFICES ASSUME NEW p \in Paths
               PROVE  {i \in Slots : loops[p][i].stage # "free" /\ ~loops[p][i].cancelled}
                         = (IF path[p].running THEN {path[p].cancel} ELSE {})
    BY DEF OneLoopPerPath
  <2>1. OneLoop(p)
    BY <1>2
  <2> QED
    BY <2>1 DEF OneLoop, Live
<1> QED
  BY <1>1, <1>2

LEMMA OneLoopEquivNext == OneLoopPerPath' <=> \A p \in Paths : OneLoop(p)'
<1>1. OneLoopPerPath' <=> (\A p \in Paths : OneLoop(p))'
  BY OneLoopEquiv, PTL
<1> QED
  BY <1>1

(* A step that leaves configuration, generations and loops alone keeps     *)
(* the rest of the invariant.                                              *)
LEMMA QuietStep ==
    ASSUME HealthInv, PathsSame, loops' = loops
    PROVE  GenerationInv' /\ OneLoopPerPath'
<1>0. Direct \in Paths
  BY DEF Paths
<1>1. Same(path[Direct], path'[Direct]) /\ target' = target
  BY <1>0 DEF PathsSame
<1>2. GenerationInv'
  BY <1>1 DEF HealthInv, GenerationInv, Same
<1>3. OneLoopPerPath'
  BY DEF HealthInv, PathsSame, OneLoopPerPath, Same
<1> QED
  BY <1>2, <1>3

(* A loop step keeps it, for the loop that a path runs is not cancelled,   *)
(* is not superseded, and so does not end.                                 *)
LEMMA LoopStep ==
    ASSUME HealthInv, NEW p \in Paths, NEW i \in Slots, PathsSame, LoopMoved(p, i)
    PROVE  GenerationInv' /\ OneLoopPerPath'
<1>0. Direct \in Paths
  BY DEF Paths
<1>1. /\ \A q \in Paths : Same(path[q], path'[q])
      /\ target' = target
  BY DEF PathsSame
<1>a. \A q \in Paths, j \in Slots : q # p \/ j # i => loops'[q][j] = loops[q][j]
  BY DEF LoopMoved
<1>b. NoLoop.stage = "free"
  BY DEF NoLoop
<1>2. GenerationInv'
  <2>1. ASSUME path'[Direct].running, NEW j \in Slots, path'[Direct].cancel = j
        PROVE  loops'[Direct][j].generation = path'[Direct].generation
    <3>1. loops[Direct][j].generation = path[Direct].generation /\ Live(loops[Direct][j])
      BY <1>0, <1>1, <2>1, OneLoopEquiv DEF HealthInv, GenerationInv, OneLoop, Same
    <3>2. loops'[Direct][j].generation = loops[Direct][j].generation
      BY <1>0, <1>1, <1>a, <2>1, <3>1 DEF LoopMoved, Live, Same
    <3> QED
      BY <1>0, <1>1, <3>1, <3>2 DEF Same
  <2>2. ASSUME NEW j \in Slots, loops'[Direct][j].stage # "free", ~loops'[Direct][j].orphan
        PROVE  /\ loops'[Direct][j].generation <= path'[Direct].generation
               /\ loops'[Direct][j].stage \in {"probe", "record"} /\ path'[Direct].running
                     /\ loops'[Direct][j].generation = path'[Direct].generation
                     => loops'[Direct][j].seen = target'
    <3>0. Same(path[Direct], path'[Direct])
      BY <1>0, <1>1
    <3>1. CASE Direct # p \/ j # i
      BY <1>0, <1>1, <1>a, <2>2, <3>0, <3>1 DEF HealthInv, GenerationInv, Same
    <3>2. CASE Direct = p /\ j = i
      BY <1>1, <1>b, <2>2, <3>0, <3>2 DEF HealthInv, GenerationInv, LoopMoved, Same
    <3> QED
      BY <3>1, <3>2
  <2> QED
    BY <1>0, <1>1, <2>1, <2>2 DEF HealthInv, GenerationInv, Same
<1>3. ASSUME NEW q \in Paths PROVE OneLoop(q)'
  <2>1. OneLoop(q) /\ Same(path[q], path'[q])
    BY <1>1, OneLoopEquiv DEF HealthInv
  <2>2. ASSUME NEW j \in Slots PROVE Live(loops'[q][j]) <=> Live(loops[q][j])
    <3>1. CASE q # p \/ j # i
      BY <1>a, <3>1
    <3>2. CASE q = p /\ j = i
      <4>1. Live(loops[p][i]) => path[p].running /\ path[p].cancel = i
        BY <2>1, <3>2 DEF OneLoop
      <4>2. p = Direct /\ Live(loops[p][i]) => path[p].generation = loops[p][i].generation
        BY <4>1 DEF HealthInv, GenerationInv
      <4>3. CASE loops'[p][i] = NoLoop
        <5>1. ~Live(loops[p][i])
          BY <1>b, <4>1, <4>2, <4>3 DEF LoopMoved, Live
        <5>2. ~Live(loops'[p][i])
          BY <1>b, <4>3 DEF Live
        <5> QED
          BY <3>2, <5>1, <5>2
      <4>4. CASE loops'[p][i] # NoLoop
        <5>1. Live(loops'[p][i]) <=> Live(loops[p][i])
          BY <4>4 DEF LoopMoved, Live
        <5> QED
          BY <3>2, <5>1
      <4> QED
        BY <4>3, <4>4
    <3> QED
      BY <3>1, <3>2
  <2> QED
    BY <2>1, <2>2 DEF OneLoop, Same
<1> QED
  BY <1>2, <1>3, OneLoopEquivNext

(* The reconcile of a path: its slots are written one by one. *)
LEMMA DesiredPaths == ASSUME NEW c \in Configs, NEW on PROVE Desired(c, on) \subseteq Paths
  BY ConfigAssumption DEF Desired, Paths

(* How often a path is stopped or started counts as 0 or 1. *)
LEMMA CountOne ==
    ASSUME NEW p, NEW S PROVE Cardinality({p} \cap S) = IF p \in S THEN 1 ELSE 0
<1>1. CASE p \in S
  <2>1. {p} \cap S = {p}
    BY <1>1
  <2> QED
    BY <1>1, <2>1, FS_Singleton
<1>2. CASE p \notin S
  <2>1. {p} \cap S = {}
    BY <1>2
  <2> QED
    BY <1>2, <2>1, FS_EmptySet
<1> QED
  BY <1>1, <1>2

(* What a reconcile makes of the running loop of path p, and of the        *)
(* generation of the direct one.                                           *)
LEMMA ReconciledPath ==
    ASSUME HealthTypeOK, NEW c \in Configs, NEW on \in BOOLEAN, NEW p \in Paths,
           p \in Started(c, on) => FreeSlots(p) # {}
    PROVE  /\ Reconciled(c, on, p) \in PathStates
           /\ Reconciled(c, on, p).running <=> p \in Desired(c, on)
           /\ p \in Started(c, on) =>
                 Reconciled(c, on, p).cancel = NewSlot(p) /\ NewSlot(p) \in FreeSlots(p)
           /\ p \in Desired(c, on) \ Started(c, on) =>
                 Reconciled(c, on, p).cancel = path[p].cancel
           /\ p = Direct => Reconciled(c, on, p).generation =
                 path[p].generation + (IF p \in Stopped(c, on) THEN 1 ELSE 0)
                                    + (IF p \in Started(c, on) THEN 1 ELSE 0)
<1>0. path[p] \in PathStates /\ path[p].generation \in Nat /\ path[p].check \in Checks
  BY DEF HealthTypeOK, PathStates
<1>1. p \in Started(c, on) => NewSlot(p) \in FreeSlots(p) /\ NewSlot(p) \in Slots
  BY NewSlotFree DEF FreeSlots
<1>2. CASE p = Direct
  <2> DEFINE gen == path[p].generation + Cardinality({p} \cap Stopped(c, on))
                                       + Cardinality({p} \cap Started(c, on))
             can == IF p \in Started(c, on) THEN NewSlot(p)
                    ELSE IF p \in Stopped(c, on) THEN 0 ELSE path[p].cancel
             che == IF c.checked THEN path[p].check ELSE Unknown
             run == p \in Desired(c, on)
  <2>1. gen = path[p].generation + (IF p \in Stopped(c, on) THEN 1 ELSE 0)
                                 + (IF p \in Started(c, on) THEN 1 ELSE 0)
    BY CountOne
  <2>2. gen \in Nat
    BY <1>0, <2>1
  <2>3. can \in Slots \cup {0}
    BY <1>0, <1>1 DEF PathStates
  <2>4. che \in Checks
    BY <1>0, NewStates
  <2>5. run \in BOOLEAN
    OBVIOUS
  <2>6. p \in Desired(c, on) \ Started(c, on) => can = path[p].cancel
    BY DEF Started
  <2>7. Reconciled(c, on, p) = [path[p] EXCEPT !.exists = TRUE, !.running = run, !.cancel = can,
                                               !.generation = gen, !.check = che]
    BY <1>2 DEF Reconciled
  <2>8. p \in Started(c, on) => can = NewSlot(p)
    OBVIOUS
  <2>9. run <=> p \in Desired(c, on)
    OBVIOUS
  <2> HIDE DEF gen, can, che, run
  <2>10. Reconciled(c, on, p) \in PathStates
    BY <1>0, <2>2, <2>3, <2>4, <2>5, <2>7 DEF PathStates
  <2>11. /\ Reconciled(c, on, p).cancel = can
         /\ Reconciled(c, on, p).generation = gen
         /\ Reconciled(c, on, p).running = run
    BY <1>0, <2>7 DEF PathStates
  <2> QED
    BY <1>1, <2>1, <2>6, <2>8, <2>9, <2>10, <2>11
<1>3. CASE p # Direct /\ p \in Desired(c, on)
  <2> DEFINE can == IF p \in Started(c, on) THEN NewSlot(p) ELSE path[p].cancel
  <2>1. can \in Slots \cup {0}
    BY <1>0, <1>1 DEF PathStates
  <2>2. Reconciled(c, on, p) = [path[p] EXCEPT !.exists = TRUE, !.running = TRUE, !.cancel = can]
    BY <1>3 DEF Reconciled
  <2>3. Reconciled(c, on, p).cancel = can /\ Reconciled(c, on, p).running = TRUE
    BY <1>0, <2>2 DEF PathStates
  <2>4. Reconciled(c, on, p) \in PathStates
    BY <1>0, <2>1, <2>2 DEF PathStates
  <2> QED
    BY <1>1, <1>3, <2>3, <2>4
<1>4. CASE p # Direct /\ p \notin Desired(c, on)
  <2>1. Reconciled(c, on, p) = NoPath /\ p \notin Started(c, on)
    BY <1>4 DEF Reconciled, Started
  <2>2. NoPath.running = FALSE
    BY DEF NoPath
  <2> QED
    BY <1>4, <2>1, <2>2, NewStates
<1> QED
  BY <1>2, <1>3, <1>4

(* What it makes of the loop in slot i of path p. *)
LEMMA ReconciledLoop ==
    ASSUME HealthTypeOK, NEW c \in Configs, NEW on \in BOOLEAN, NEW p \in Paths, NEW i \in Slots,
           p \in Started(c, on) => FreeSlots(p) # {}
    PROVE  LET old == loops[p][i]
               new == ReconciledLoops(c, on, p)[i]
           IN  /\ new \in LoopStates
               /\ p \in Started(c, on) /\ i = NewSlot(p) =>
                     /\ new.stage = "check" /\ ~new.cancelled
                     /\ new.generation = Reconciled(c, on, p).generation
               /\ ~(p \in Started(c, on) /\ i = NewSlot(p)) =>
                     /\ new.cancelled <=> old.cancelled \/ (p \in Stopped(c, on) /\ path[p].cancel = i)
                     /\ new.stage = old.stage /\ new.generation = old.generation
                     /\ new.orphan = old.orphan /\ new.seen = old.seen
<1> DEFINE old == loops[p][i]
           new == ReconciledLoops(c, on, p)[i]
           fresh == p \in Started(c, on) /\ i = NewSlot(p)
           ends == p \in Stopped(c, on) /\ path[p].cancel = i
           gen == Reconciled(c, on, p).generation
<1>0. old \in LoopStates /\ NoLoop \in LoopStates
  BY NewStates DEF HealthTypeOK
<1>1. gen \in Nat
  BY ReconciledPath DEF PathStates
<1>2. ends \in BOOLEAN
  OBVIOUS
<1>3. new = IF fresh THEN [NoLoop EXCEPT !.stage = "check", !.generation = gen]
            ELSE [old EXCEPT !.cancelled = old.cancelled \/ ends]
  BY DEF ReconciledLoops
<1>5. old.cancelled \in BOOLEAN
  BY <1>0 DEF LoopStates
<1>6. NoLoop.cancelled = FALSE
  BY DEF NoLoop
<1> HIDE DEF ends, gen, new, old, fresh
<1> DEFINE can == old.cancelled \/ ends
<1>7. can \in BOOLEAN /\ (can <=> old.cancelled \/ ends)
  OBVIOUS
<1>8. new = IF fresh THEN [NoLoop EXCEPT !.stage = "check", !.generation = gen]
            ELSE [old EXCEPT !.cancelled = can]
  BY <1>3
<1> HIDE DEF can
<1>9. new \in LoopStates
  BY <1>0, <1>1, <1>7, <1>8 DEF LoopStates, LoopStages
<1>10. fresh => new.stage = "check" /\ ~new.cancelled /\ new.generation = gen
  BY <1>0, <1>6, <1>8 DEF LoopStates
<1>11. ~fresh => /\ new.cancelled = can
                 /\ new.stage = old.stage /\ new.generation = old.generation
                 /\ new.orphan = old.orphan /\ new.seen = old.seen
  BY <1>0, <1>8 DEF LoopStates
<1>12. ~fresh => (new.cancelled <=> old.cancelled \/ ends)
  BY <1>7, <1>11
<1> QED
  BY <1>9, <1>10, <1>11, <1>12 DEF old, new, fresh, ends, gen

LEMMA ReconcileStep ==
    ASSUME HealthInv, NEW c \in Configs, NEW on \in BOOLEAN, ReconcileTarget(c, on)
    PROVE  /\ target' \in Targets
           /\ path' \in [Paths -> PathStates]
           /\ loops' \in [Paths -> [Slots -> LoopStates]]
           /\ GenerationInv'
           /\ OneLoopPerPath'
<1>0. Direct \in Paths /\ HealthTypeOK /\ Desired(c, on) \subseteq Paths /\ c # NoConfig
  BY DesiredPaths, ConfigAssumption DEF Paths, HealthInv
<1>1. /\ \A p \in Paths : p \in Started(c, on) => FreeSlots(p) # {}
      /\ target' = c
      /\ path' = [p \in Paths |-> Reconciled(c, on, p)]
      /\ loops' = [p \in Paths |-> ReconciledLoops(c, on, p)]
  BY DEF ReconcileTarget
<1>2. target' \in Targets
  BY <1>1 DEF Targets
<1>3. path' \in [Paths -> PathStates]
  BY <1>0, <1>1, ReconciledPath
<1>4. \A p \in Paths : ReconciledLoops(c, on, p) \in [Slots -> LoopStates]
  <2> SUFFICES ASSUME NEW p \in Paths PROVE ReconciledLoops(c, on, p) \in [Slots -> LoopStates]
    OBVIOUS
  <2>1. \A i \in Slots : ReconciledLoops(c, on, p)[i] \in LoopStates
    BY <1>0, <1>1, ReconciledLoop
  <2>2. \E f : ReconciledLoops(c, on, p) = [i \in Slots |-> f[i]]
    <3> DEFINE f == ReconciledLoops(c, on, p)
    <3>1. ReconciledLoops(c, on, p) = [i \in Slots |-> f[i]]
      BY DEF ReconciledLoops
    <3> QED
      BY <3>1
  <2> QED
    BY <2>1, <2>2
<1>5. loops' \in [Paths -> [Slots -> LoopStates]]
  BY <1>1, <1>4
<1>6. ASSUME NEW p \in Paths PROVE OneLoop(p)'
  <2> DEFINE fresh(i) == p \in Started(c, on) /\ i = NewSlot(p)
             ends(i)  == p \in Stopped(c, on) /\ path[p].cancel = i
             started  == p \in Started(c, on)
             stopped  == p \in Stopped(c, on)
             desired  == p \in Desired(c, on)
  <2>1. OneLoop(p)
    BY OneLoopEquiv DEF HealthInv
  <2>2. /\ path'[p].running <=> desired
        /\ started => path'[p].cancel = NewSlot(p) /\ NewSlot(p) \in FreeSlots(p)
        /\ desired /\ ~started => path'[p].cancel = path[p].cancel
    BY <1>0, <1>1, ReconciledPath
  <2>3. /\ stopped => path[p].running
        /\ started <=> desired /\ (~path[p].running \/ stopped)
        /\ path[p].running /\ ~desired => stopped
    BY DEF Stopped, Started
  <2>4. ASSUME NEW i \in Slots
        PROVE  Live(loops'[p][i]) <=> path'[p].running /\ path'[p].cancel = i
    <3>1. loops'[p][i] = ReconciledLoops(c, on, p)[i]
      BY <1>1
    <3>2. CASE started /\ i = NewSlot(p)
      <4>1. Live(loops'[p][i])
        BY <1>0, <1>1, <3>1, <3>2, ReconciledLoop DEF Live
      <4> QED
        BY <2>2, <2>3, <3>2, <4>1
    <3>3. CASE ~(started /\ i = NewSlot(p))
      <4>1. /\ loops'[p][i].cancelled <=> loops[p][i].cancelled \/ (stopped /\ path[p].cancel = i)
            /\ loops'[p][i].stage = loops[p][i].stage
        BY <1>0, <1>1, <3>1, <3>3, ReconciledLoop
      <4>2. Live(loops'[p][i]) <=> path[p].running /\ path[p].cancel = i /\ ~stopped
        BY <2>1, <4>1 DEF OneLoop, Live
      <4> HIDE DEF started, stopped, desired
      <4> QED
        BY <2>2, <2>3, <3>3, <4>2
    <3> QED
      BY <3>2, <3>3
  <2>5. path'[p].running => path'[p].cancel \in Slots
    <3>1. started => NewSlot(p) \in Slots
      BY <2>2 DEF FreeSlots
    <3> HIDE DEF started, stopped, desired
    <3> QED
      BY <2>1, <2>2, <2>3, <3>1 DEF OneLoop
  <2> QED
    BY <2>4, <2>5 DEF OneLoop
<1>7. GenerationInv'
  <2> DEFINE started == Direct \in Started(c, on)
             stopped == Direct \in Stopped(c, on)
             desired == Direct \in Desired(c, on)
             gen     == path[Direct].generation
             gen2    == path'[Direct].generation
  <2>1. /\ path'[Direct].running <=> desired
        /\ started => path'[Direct].cancel = NewSlot(Direct)
        /\ desired /\ ~started => path'[Direct].cancel = path[Direct].cancel
        /\ gen2 = gen + (IF stopped THEN 1 ELSE 0) + (IF started THEN 1 ELSE 0)
    BY <1>0, <1>1, ReconciledPath
  <2>2. /\ started <=> desired /\ (~path[Direct].running \/ stopped)
        /\ path[Direct].running /\ c # target => stopped
    BY <1>0 DEF Stopped, Started
  <2>3. gen \in Nat /\ gen2 \in Nat
    BY <1>0, <1>3 DEF HealthTypeOK, PathStates
  <2>a. ASSUME NEW i \in Slots
        PROVE  /\ loops'[Direct][i] = ReconciledLoops(c, on, Direct)[i]
               /\ loops[Direct][i].generation \in Nat
    BY <1>0, <1>1 DEF HealthTypeOK, LoopStates
  <2>4. ASSUME NEW i \in Slots, path'[Direct].running, path'[Direct].cancel = i
        PROVE  loops'[Direct][i].generation = gen2
    <3>1. CASE started
      BY <1>0, <1>1, <2>1, <2>a, <2>4, <3>1, ReconciledLoop
    <3>2. CASE ~started
      <4>1. path[Direct].running /\ path[Direct].cancel = i /\ ~stopped
        BY <2>1, <2>2, <2>4, <3>2
      <4>2. loops'[Direct][i].generation = loops[Direct][i].generation
        BY <1>0, <1>1, <2>a, <3>2, ReconciledLoop
      <4> QED
        BY <2>1, <2>3, <3>2, <4>1, <4>2 DEF HealthInv, GenerationInv
    <3> QED
      BY <3>1, <3>2
  <2>5. ASSUME NEW i \in Slots, loops'[Direct][i].stage # "free", ~loops'[Direct][i].orphan
        PROVE  /\ loops'[Direct][i].generation <= gen2
               /\ loops'[Direct][i].stage \in {"probe", "record"} /\ path'[Direct].running
                     /\ loops'[Direct][i].generation = gen2 => loops'[Direct][i].seen = c
    <3>1. CASE started /\ i = NewSlot(Direct)
      <4>1. loops'[Direct][i].stage = "check" /\ loops'[Direct][i].generation = gen2
        BY <1>0, <1>1, <2>a, <3>1, ReconciledLoop
      <4> QED
        BY <2>3, <4>1
    <3>2. CASE ~(started /\ i = NewSlot(Direct))
      <4>1. /\ loops'[Direct][i].stage = loops[Direct][i].stage
            /\ loops'[Direct][i].generation = loops[Direct][i].generation
            /\ loops'[Direct][i].orphan = loops[Direct][i].orphan
            /\ loops'[Direct][i].seen = loops[Direct][i].seen
        BY <1>0, <1>1, <2>a, <3>2, ReconciledLoop
      <4>2. /\ loops[Direct][i].generation <= gen
            /\ loops[Direct][i].stage \in {"probe", "record"} /\ path[Direct].running
                  /\ loops[Direct][i].generation = gen => loops[Direct][i].seen = target
        BY <2>5, <4>1 DEF HealthInv, GenerationInv
      <4> HIDE DEF started, stopped, desired, gen, gen2
      <4> QED
        BY <2>1, <2>2, <2>3, <2>a, <4>1, <4>2
    <3> QED
      BY <3>1, <3>2
  <2> QED
    BY <1>0, <1>1, <2>4, <2>5 DEF GenerationInv
<1> QED
  BY <1>2, <1>3, <1>5, <1>6, <1>7, OneLoopEquivNext

(* A reconcile that no longer has the target leaves every loop cancelled,  *)
(* and the ones that still run without a state.                            *)
LEMMA ForgetStep ==
    ASSUME HealthInv, Forget
    PROVE  /\ target' \in Targets
           /\ path' \in [Paths -> PathStates]
           /\ loops' \in [Paths -> [Slots -> LoopStates]]
           /\ GenerationInv'
           /\ OneLoopPerPath'
<1>0. Direct \in Paths /\ HealthTypeOK
  BY DEF Paths, HealthInv
<1>1. target' \in Targets
  BY DEF Forget, Targets
<1>2. path' \in [Paths -> PathStates] /\ \A p \in Paths : path'[p].running = FALSE
  BY NewStates DEF Forget, NoPath
<1>3. ASSUME NEW p \in Paths, NEW i \in Slots
      PROVE  /\ loops'[p][i] \in LoopStates
             /\ loops'[p][i].stage = loops[p][i].stage
             /\ loops'[p][i].orphan <=> loops[p][i].stage # "free"
             /\ loops'[p][i].cancelled <=> loops[p][i].cancelled \/ path[p].cancel = i
  <2> DEFINE can == loops[p][i].cancelled \/ path[p].cancel = i
             orp == loops[p][i].stage # "free"
  <2>1. loops[p][i] \in LoopStates
    BY <1>0 DEF HealthTypeOK
  <2>2. loops'[p][i] = [loops[p][i] EXCEPT !.cancelled = can, !.orphan = orp]
    BY DEF Forget
  <2>3. can \in BOOLEAN /\ orp \in BOOLEAN
    OBVIOUS
  <2>4. (can <=> loops[p][i].cancelled \/ path[p].cancel = i) /\ (orp <=> loops[p][i].stage # "free")
    OBVIOUS
  <2> HIDE DEF can, orp
  <2>5. loops'[p][i] \in LoopStates
    BY <2>1, <2>2, <2>3 DEF LoopStates
  <2>6. /\ loops'[p][i].stage = loops[p][i].stage
        /\ loops'[p][i].orphan = orp
        /\ loops'[p][i].cancelled = can
    BY <2>1, <2>2 DEF LoopStates
  <2> QED
    BY <2>4, <2>5, <2>6
<1>4. loops' \in [Paths -> [Slots -> LoopStates]]
  <2>1. loops' = [p \in Paths |-> [i \in Slots |-> loops'[p][i]]]
    BY DEF Forget
  <2> QED
    BY <1>3, <2>1
<1>5. GenerationInv'
  BY <1>0, <1>2, <1>3 DEF GenerationInv
<1>6. ASSUME NEW p \in Paths PROVE OneLoop(p)'
  <2>1. OneLoop(p)
    BY OneLoopEquiv DEF HealthInv
  <2>2. \A i \in Slots : ~Live(loops'[p][i])
    BY <1>3, <2>1 DEF OneLoop, Live
  <2> QED
    BY <1>2, <2>2 DEF OneLoop
<1> QED
  BY <1>1, <1>2, <1>4, <1>5, <1>6, OneLoopEquivNext

LEMMA HealthInvInit == HealthInit => HealthInv
<1> SUFFICES ASSUME HealthInit PROVE HealthInv
  OBVIOUS
<1>0. Direct \in Paths
  BY DEF Paths
<1>1. HealthTypeOK
  <2>1. target \in Targets
    BY DEF HealthInit, Targets
  <2>2. path \in [Paths -> PathStates] /\ loops \in [Paths -> [Slots -> LoopStates]]
    BY NewStates DEF HealthInit
  <2>3. NotRefreshing \in [busy : BOOLEAN, config : Configs \cup {NoConfig}, active : BOOLEAN]
    BY DEF NotRefreshing
  <2>4. 0 \in 0..MaxConnections /\ 0 \in 0..MaxReconciles
    BY HealthBoundAssumption
  <2> HIDE DEF Paths
  <2> QED
    BY <2>1, <2>2, <2>3, <2>4 DEF HealthInit, HealthTypeOK
<1>2. GenerationInv
  BY <1>0 DEF HealthInit, GenerationInv, NoPath, NoLoop
<1>3. OneLoopPerPath
  BY DEF HealthInit, OneLoopPerPath, NoPath, NoLoop
<1> QED
  BY <1>1, <1>2, <1>3 DEF HealthInv

(* A write of one path's state that leaves its loop alone. *)
LEMMA PathWrite ==
    ASSUME HealthTypeOK, NEW p \in Paths, NEW s \in PathStates, Same(path[p], s),
           target' = target, path' = path \/ path' = [path EXCEPT ![p] = s]
    PROVE  PathsSame
<1>1. path \in [Paths -> PathStates]
  BY DEF HealthTypeOK
<1>2. \A q \in Paths : Same(path[q], path[q])
  BY DEF Same
<1> QED
  BY <1>1, <1>2 DEF PathsSame

(* Every step keeps the invariant. *)
LEMMA HealthInvNext == HealthInv /\ [HealthNext]_healthVars => HealthInv'
<1> SUFFICES ASSUME HealthInv, [HealthNext]_healthVars PROVE HealthInv'
  OBVIOUS
<1> USE DEF monitorVars, worldVars, hubState, proxyVars
<1>0. Direct \in Paths /\ HealthTypeOK /\ Agents \subseteq Paths
  BY DEF Paths, HealthInv
<1>a. \A p \in Paths : path[p] \in PathStates /\ path[p].check \in Checks
  BY <1>0 DEF HealthTypeOK, PathStates
<1>b. UNCHANGED monitorVars => PathsSame
  BY <1>0 DEF PathsSame, HealthTypeOK, Same
<1>1. ASSUME NEW p \in Paths, NEW i \in Slots, Loop(p, i) PROVE HealthInv'
  BY <1>0, <1>1, LoopEffect, LoopStep DEF HealthInv
<1>2. CASE BeginRequest
  <2> DEFINE s == [path[Direct] EXCEPT !.exists = TRUE]
  <2>1. s \in PathStates /\ Same(path[Direct], s)
    BY <1>0, <1>a DEF PathStates, Same
  <2>2. /\ target = NoConfig /\ target' = BareConfig
        /\ path' = [path EXCEPT ![Direct] = s]
        /\ UNCHANGED <<loops, worldVars, hubState, proxyVars>>
    BY <1>2 DEF BeginRequest
  <2> HIDE DEF s
  <2>3. path' \in [Paths -> PathStates] /\ \A q \in Paths : Same(path[q], path'[q])
    BY <1>0, <2>1, <2>2 DEF HealthTypeOK, Same
  <2>4. HealthTypeOK'
    BY <1>0, <2>2, <2>3 DEF HealthTypeOK, Targets
  <2>5. ~path[Direct].running /\ ~path'[Direct].running
    BY <1>0, <2>2, <2>3 DEF HealthInv, GenerationInv, Same
  <2>6. GenerationInv'
    BY <1>0, <2>2, <2>3, <2>5 DEF HealthInv, GenerationInv, Same
  <2>7. OneLoopPerPath'
    BY <2>2, <2>3 DEF HealthInv, OneLoopPerPath, Same
  <2> QED
    BY <2>4, <2>6, <2>7 DEF HealthInv
<1>3. ASSUME NEW p \in Paths, MarkPassive(p) PROVE HealthInv'
  <2> DEFINE cool == [path[p].check EXCEPT !.cooling = TRUE]
             s == IF target.checked THEN [path[p] EXCEPT !.exists = TRUE, !.check = cool]
                                    ELSE [path[p] EXCEPT !.check = Unknown]
  <2>1. cool \in Checks
    BY <1>a DEF Checks
  <2>2. path' = [path EXCEPT ![p] = s] /\ UNCHANGED <<target, loops, worldVars, hubState, proxyVars>>
    BY <1>3 DEF MarkPassive
  <2> HIDE DEF cool
  <2>3. s \in PathStates /\ Same(path[p], s)
    BY <1>a, <2>1, NewStates DEF PathStates, Same
  <2> HIDE DEF s
  <2>4. PathsSame
    BY <1>0, <2>2, <2>3, PathWrite
  <2> QED
    BY <1>0, <2>2, <2>4, QuietStep DEF HealthInv, HealthTypeOK, PathsSame
<1>4. ASSUME NEW p \in Paths, CooldownEnds(p) PROVE HealthInv'
  <2> DEFINE cool == [path[p].check EXCEPT !.cooling = FALSE]
             s == [path[p] EXCEPT !.check = cool]
  <2>1. cool \in Checks
    BY <1>a DEF Checks
  <2>2. path' = [path EXCEPT ![p] = s] /\ UNCHANGED <<target, loops, worldVars, hubState, proxyVars>>
    BY <1>4 DEF CooldownEnds
  <2> HIDE DEF cool
  <2>3. s \in PathStates /\ Same(path[p], s)
    BY <1>a, <2>1 DEF PathStates, Same
  <2> HIDE DEF s
  <2>4. PathsSame
    BY <1>0, <2>2, <2>3, PathWrite
  <2> QED
    BY <1>0, <2>2, <2>4, QuietStep DEF HealthInv, HealthTypeOK, PathsSame
<1>5. ASSUME NEW a \in Agents, NEW e \in {"connected", "disconnected"}, HubChanges(a, e)
      PROVE  HealthInv'
  <2>1. UNCHANGED <<monitorVars, loops, worldVars, proxyVars>>
    BY <1>5 DEF HubChanges
  <2>2. connected' \subseteq Agents /\ connections' \in 0..MaxConnections
        /\ pending' \in [Agents -> {"none", "connected", "disconnected"}]
    BY <1>0, <1>5, HealthBoundAssumption DEF HubChanges, HealthTypeOK
  <2>3. HealthTypeOK'
    BY <1>0, <2>1, <2>2 DEF HealthTypeOK
  <2> QED
    BY <1>b, <2>1, <2>3, QuietStep DEF HealthInv
<1>6. ASSUME NEW a \in Agents, Notify(a) PROVE HealthInv'
  <2>1. UNCHANGED <<target, loops, worldVars, connected, connections, proxyVars>>
    BY <1>6 DEF Notify
  <2>2. \/ path' = path
        \/ path' = [path EXCEPT ![a] = Connected(path[a])]
        \/ path' = [path EXCEPT ![a] = Disconnected(path[a])]
    BY <1>6 DEF Notify
  <2>3. PathsSame
    BY <1>0, <1>a, <1>b, <2>1, <2>2, ConnectionType, PathWrite
  <2>4. pending' \in [Agents -> {"none", "connected", "disconnected"}]
    BY <1>0, <1>6 DEF Notify, HealthTypeOK
  <2> QED
    BY <1>0, <2>1, <2>3, <2>4, QuietStep DEF HealthInv, HealthTypeOK, PathsSame
<1>7. ASSUME NEW c \in Configs \cup {NoConfig}, NEW start \in BOOLEAN, Refresh(c, start)
      PROVE  HealthInv'
  <2>1. UNCHANGED <<monitorVars, loops, worldVars, hubState, stopping>>
    BY <1>7 DEF Refresh
  <2>2. active' \in BOOLEAN
    BY <1>7 DEF Refresh
  <2>3. refreshing' \in [busy : BOOLEAN, config : Configs \cup {NoConfig}, active : BOOLEAN]
    BY <1>7, <2>2 DEF Refresh
  <2>4. reconciles' \in 0..MaxReconciles
    BY <1>0, <1>7, HealthBoundAssumption DEF Refresh, HealthTypeOK
  <2>5. HealthTypeOK'
    BY <1>0, <2>1, <2>2, <2>3, <2>4 DEF HealthTypeOK
  <2> QED
    BY <1>b, <2>1, <2>5, QuietStep DEF HealthInv
<1>8. CASE ReconcileHealth
  <2>1. /\ UNCHANGED <<worldVars, hubState, active, stopping, reconciles>>
        /\ refreshing' = NotRefreshing
        /\ IF refreshing.config = NoConfig THEN Forget
           ELSE ReconcileTarget(refreshing.config, refreshing.active)
    BY <1>8 DEF ReconcileHealth
  <2>2. /\ refreshing.config \in Configs \cup {NoConfig}
        /\ refreshing.active \in BOOLEAN
    BY <1>0 DEF HealthTypeOK
  <2>3. refreshing' \in [busy : BOOLEAN, config : Configs \cup {NoConfig}, active : BOOLEAN]
    BY <2>1 DEF NotRefreshing
  <2>4. /\ target' \in Targets
        /\ path' \in [Paths -> PathStates]
        /\ loops' \in [Paths -> [Slots -> LoopStates]]
        /\ GenerationInv'
        /\ OneLoopPerPath'
    BY <2>1, <2>2, ForgetStep, ReconcileStep
  <2>5. HealthTypeOK'
    BY <1>0, <2>1, <2>3, <2>4 DEF HealthTypeOK
  <2> QED
    BY <2>4, <2>5 DEF HealthInv
<1>9. CASE StopProxy
  <2>1. UNCHANGED <<monitorVars, loops, worldVars, hubState, refreshing, reconciles>>
        /\ active' = FALSE /\ stopping' = TRUE
    BY <1>9 DEF StopProxy
  <2>2. HealthTypeOK'
    BY <1>0, <2>1 DEF HealthTypeOK
  <2> QED
    BY <1>b, <2>1, <2>2, QuietStep DEF HealthInv
<1>10. CASE StopMonitor
  <2>1. /\ UNCHANGED <<worldVars, hubState, active, refreshing, reconciles>>
        /\ stopping' = FALSE /\ Forget
    BY <1>10 DEF StopMonitor
  <2>2. HealthTypeOK'
    BY <1>0, <2>1, ForgetStep DEF HealthTypeOK
  <2> QED
    BY <2>1, <2>2, ForgetStep DEF HealthInv
<1>11. CASE World
  <2>1. UNCHANGED <<monitorVars, loops, hubState, proxyVars>>
    BY <1>11 DEF World
  <2>2. origin' \in Answers /\ cordoned' \subseteq Cordonable
    BY <1>0, <1>11 DEF World, HealthTypeOK
  <2>3. HealthTypeOK'
    BY <1>0, <2>1, <2>2 DEF HealthTypeOK
  <2> QED
    BY <1>b, <2>1, <2>3, QuietStep DEF HealthInv
<1>12. CASE UNCHANGED healthVars
  <2>1. HealthTypeOK'
    BY <1>0, <1>12 DEF HealthTypeOK, healthVars
  <2> QED
    BY <1>b, <1>12, <2>1, QuietStep DEF HealthInv, healthVars
<1> QED
  BY <1>1, <1>2, <1>3, <1>4, <1>5, <1>6, <1>7, <1>8, <1>9, <1>10, <1>11, <1>12
     DEF HealthNext

(* The invariant holds in every reachable state. *)
THEOREM HealthInvHolds == HealthSpec => []HealthInv
  BY HealthInvInit, HealthInvNext, PTL DEF HealthSpec

(* The monitor's and the loops' states are well formed. *)
THEOREM HealthTypeCorrect == HealthSpec => []HealthTypeOK
  BY HealthInvHolds, PTL DEF HealthInv

(* For every number of agents, configurations and goroutines: a path that  *)
(* the monitor means to probe is probed by exactly one loop that is not    *)
(* cancelled, and no other path by any.                                    *)
THEOREM HealthOneLoopPerPath == HealthSpec => []OneLoopPerPath
  BY HealthInvHolds, PTL DEF HealthInv

(* A direct result that changes the verdict was recorded for the           *)
(* generation of its loop, so it was obtained with the configuration the   *)
(* target has, or by a loop whose state was removed.                       *)
LEMMA CountedIsCurrent ==
    ASSUME HealthInv, [HealthNext]_healthVars, NEW i \in Slots, CountedDirect(i)
    PROVE  loops[Direct][i].seen = target \/ loops[Direct][i].orphan
<1> USE DEF monitorVars, worldVars, hubState, proxyVars
<1>0. Direct \in Paths /\ HealthTypeOK
  BY DEF Paths, HealthInv
<1>1. /\ loops[Direct][i].stage = "record"
      /\ loops'[Direct][i].stage # "record"
      /\ path'[Direct].check # path[Direct].check
  BY DEF CountedDirect
<1>2. ASSUME NEW p \in Paths, NEW j \in Slots, Loop(p, j)
      PROVE  loops[Direct][i].seen = target \/ loops[Direct][i].orphan
  <2>1. p = Direct /\ j = i
    BY <1>0, <1>1, <1>2, LoopEffect DEF LoopMoved
  <2>2. Record(Direct, i)
    BY <1>1, <1>2, <2>1
       DEF Loop, CheckDirect, CheckAgent, Observe, Probe, Tick, WaitCancelled
  <2>3. CountsForGeneration(i)
    BY <1>1, <2>2 DEF Record
  <2> QED
    BY <1>1, <2>3 DEF CountsForGeneration, HealthInv, GenerationInv
<1>3. ASSUME NEW c \in Configs, NEW on \in BOOLEAN, ReconcileTarget(c, on) PROVE FALSE
  <2>1. Direct \in Started(c, on) => FreeSlots(Direct) # {}
    BY <1>3 DEF ReconcileTarget
  <2>2. loops'[Direct][i] = ReconciledLoops(c, on, Direct)[i]
    BY <1>0, <1>3 DEF ReconcileTarget
  <2>3. ~(Direct \in Started(c, on) /\ i = NewSlot(Direct))
    BY <1>1, <2>1, NewSlotFree DEF FreeSlots
  <2> QED
    BY <1>0, <1>1, <2>1, <2>2, <2>3, ReconciledLoop
<1>4. CASE Forget
  <2>1. loops[Direct][i] \in LoopStates
    BY <1>0 DEF HealthTypeOK
  <2>2. loops'[Direct][i].stage = loops[Direct][i].stage
    BY <1>0, <1>4, <2>1 DEF Forget, LoopStates
  <2> QED
    BY <1>1, <2>2
<1>5. CASE ReconcileHealth
  <2>1. refreshing.config \in Configs \cup {NoConfig} /\ refreshing.active \in BOOLEAN
    BY <1>0 DEF HealthTypeOK
  <2> QED
    BY <1>3, <1>4, <1>5, <2>1 DEF ReconcileHealth
<1>6. CASE StopMonitor
  BY <1>4, <1>6 DEF StopMonitor
<1>7. CASE loops' = loops
  BY <1>1, <1>7
<1> QED
  BY <1>2, <1>5, <1>6, <1>7
     DEF HealthNext, healthVars, BeginRequest, MarkPassive, CooldownEnds, HubChanges, Notify,
         Refresh, StopProxy, World

(* For every number of configurations and goroutines: the generation keeps *)
(* a result that was obtained with an earlier configuration from counting  *)
(* for the current one, as long as the state is the same.                  *)
THEOREM HealthStaleResultDropped == HealthSpec => StaleResultDropped
<1>1. HealthInv /\ [HealthNext]_healthVars =>
        [\A i \in Slots : CountedDirect(i) =>
            loops[Direct][i].seen = target \/ loops[Direct][i].orphan]_healthVars
  BY CountedIsCurrent
<1> QED
  BY <1>1, HealthInvHolds, PTL DEF HealthSpec, StaleResultDropped
=============================================================================
