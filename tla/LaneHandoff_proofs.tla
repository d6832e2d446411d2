------------------------- MODULE LaneHandoff_proofs -------------------------
(***************************************************************************)
(* Proofs about the handoff of a lane: for every number of attempts,       *)
(* streams and faults, a handoff cuts no session with streams on it.       *)
(***************************************************************************)
EXTENDS LaneHandoff, TLAPS

(* What an attempt's handler has done is what its session, its owner and   *)
(* its message show.                                                       *)
ProgressInv ==
    \A a \in Attempts :
        /\ peer[a] = "dialing" => host[a] = "idle"
        /\ peer[a] = "ready" => host[a] \in {"watched", "ended"}
        /\ held[a] \in {"serving", "draining"} => host[a] \in {"published", "fenced", "watched"}
        /\ mail[a] # "none" => peer[a] \in {"waiting", "acked"}
        /\ mail[a] = "ack" => peer[a] = "acked"
        /\ mail[a] = "commit" => peer[a] = "acked" /\ host[a] = "watched"
        /\ host[a] \in {"published", "fenced"} /\ link[a] = "up" => peer[a] = "acked"

(* Streams are opened on a wire that is up, and the streams of a session   *)
(* stay within their bound on their way from the wire to the agent.        *)
WireInv ==
    \A a \in Attempts :
        /\ streams[a].flying > 0 => link[a] = "up"
        /\ streams[a].flying + streams[a].open <= MaxStreams
        /\ host[a] \in {"idle", "ended"} => link[a] # "up"

(* Attempt p is beyond its own publication; it is out of routing; and no   *)
(* opening is on its way to the agent.                                     *)
Past(p)   == host[p] \notin {"idle", "prepared"}
Retired(p) == Past(p) /\ held[p] # "serving"
Quiet(p)  == Retired(p) /\ streams[p].flying = 0

(* A replacement that is published has retired its predecessor; one that   *)
(* is fenced, or whose agent may have the commit, has silenced it.         *)
FenceInv ==
    \A a \in Attempts : replaces[a] \in Attempts =>
        /\ replaces[a] # a
        /\ host[a] = "prepared" => Past(replaces[a])
        /\ host[a] = "published" => Retired(replaces[a])
        /\ host[a] = "fenced" \/ mail[a] = "commit" \/ peer[a] = "ready" => Quiet(replaces[a])

(* The supervisor's replacement is for its serving attempt, and the        *)
(* attempt that it drains is quiet.                                        *)
SupervisorInv ==
    /\ supervisor.at # "backoff" => supervisor.current \in Attempts
    /\ supervisor.at = "replacing" =>
          /\ supervisor.next \in Attempts
          /\ replaces[supervisor.next] = supervisor.current
    /\ supervisor.at = "draining" => supervisor.old \in Attempts /\ Quiet(supervisor.old)

HandoffInv == HandoffTypeOK /\ ProgressInv /\ WireInv /\ FenceInv /\ SupervisorInv

(* Every step keeps the types. *)
LEMMA HandoffTypeNext ==
    HandoffTypeOK /\ WireInv /\ SupervisorInv /\ [HandoffNext]_handoffVars => HandoffTypeOK'
<1> SUFFICES ASSUME HandoffTypeOK, WireInv, SupervisorInv, [HandoffNext]_handoffVars PROVE HandoffTypeOK'
  OBVIOUS
<1>1. ASSUME NEW a \in Attempts, Redial(a) PROVE HandoffTypeOK'
  BY <1>1, HandoffBoundAssumption DEF HandoffTypeOK, Redial, Start, Backoff, OptAttempt, SupervisorStates
<1>2. ASSUME NEW a \in Attempts, Timer(a) PROVE HandoffTypeOK'
  BY <1>2, HandoffBoundAssumption DEF HandoffTypeOK, Timer, Start, OptAttempt, SupervisorStates
<1>3. CASE Supervise
  <2> DEFINE s == supervisor
  <2>0. s \in SupervisorStates /\ NoAttempt \in OptAttempt
    BY DEF HandoffTypeOK, OptAttempt
  <2>1. \/ supervisor' = [s EXCEPT !.at = "serving"]
        \/ supervisor' = [s EXCEPT !.at = "serving", !.next = NoAttempt]
        \/ supervisor' = [at |-> "draining", current |-> s.next, next |-> NoAttempt,
                          old |-> s.current]
        \/ supervisor' = Backoff
        \/ supervisor' = [s EXCEPT !.at = "serving", !.old = NoAttempt]
    BY <1>3 DEF Supervise
  <2>2. /\ [s EXCEPT !.at = "serving"] \in SupervisorStates
        /\ [s EXCEPT !.at = "serving", !.next = NoAttempt] \in SupervisorStates
        /\ [s EXCEPT !.at = "serving", !.old = NoAttempt] \in SupervisorStates
    BY <2>0 DEF SupervisorStates
  <2>3. [at |-> "draining", current |-> s.next, next |-> NoAttempt, old |-> s.current]
           \in SupervisorStates
    BY <2>0 DEF SupervisorStates
  <2>4. Backoff \in SupervisorStates
    BY <2>0 DEF SupervisorStates, Backoff
  <2>5. supervisor' \in SupervisorStates
    BY <2>1, <2>2, <2>3, <2>4
  <2> QED
    BY <1>3, <2>5 DEF HandoffTypeOK, Supervise
<1>4. CASE Return
  BY <1>4, HandoffBoundAssumption DEF HandoffTypeOK, Return, Backoff, OptAttempt, SupervisorStates
<1>5. CASE CancelOld
  BY <1>5, HandoffBoundAssumption DEF HandoffTypeOK, CancelOld, Sever, NoStreams
<1>6. ASSUME NEW a \in Attempts, Acknowledge(a) PROVE HandoffTypeOK'
  BY <1>6, HandoffBoundAssumption DEF HandoffTypeOK, Acknowledge
<1>7. ASSUME NEW a \in Attempts, Ready(a) PROVE HandoffTypeOK'
  BY <1>7, HandoffBoundAssumption DEF HandoffTypeOK, Ready, CommitArrived
<1>8. ASSUME NEW a \in Attempts, PeerEnds(a) PROVE HandoffTypeOK'
  BY <1>8, HandoffBoundAssumption DEF HandoffTypeOK, PeerEnds, Sever, Fault, NoStreams
<1>9. ASSUME NEW a \in Attempts, Prepare(a) PROVE HandoffTypeOK'
  BY <1>9, HandoffBoundAssumption DEF HandoffTypeOK, Prepare
<1>10. ASSUME NEW a \in Attempts, Deny(a) PROVE HandoffTypeOK'
  BY <1>10, HandoffBoundAssumption DEF HandoffTypeOK, Deny, Fault
<1>11. ASSUME NEW a \in Attempts, PublishLane(a) PROVE HandoffTypeOK'
  BY <1>11, HandoffBoundAssumption DEF HandoffTypeOK, PublishLane
<1>12. ASSUME NEW a \in Attempts, Fence(a) PROVE HandoffTypeOK'
  BY <1>12, HandoffBoundAssumption DEF HandoffTypeOK, Fence
<1>13. ASSUME NEW a \in Attempts, WriteCommit(a) PROVE HandoffTypeOK'
  BY <1>13, HandoffBoundAssumption DEF HandoffTypeOK, WriteCommit
<1>14. ASSUME NEW a \in Attempts, HostFails(a) PROVE HandoffTypeOK'
  BY <1>14, HandoffBoundAssumption DEF HandoffTypeOK, HostFails, CloseOwner, Sever, Fault, NoStreams
<1>15. ASSUME NEW a \in Attempts, Watch(a) PROVE HandoffTypeOK'
  BY <1>15, HandoffBoundAssumption DEF HandoffTypeOK, Watch, Sever, NoStreams
<1>16. ASSUME NEW a \in Attempts, OpenStream(a) PROVE HandoffTypeOK'
  BY <1>16, HandoffBoundAssumption DEF HandoffTypeOK, OpenStream
<1>17. ASSUME NEW a \in Attempts, StreamArrives(a) PROVE HandoffTypeOK'
  <2>0. \A b \in Attempts : streams[b] \in [flying : 0..MaxStreams, open : 0..MaxStreams]
    BY DEF HandoffTypeOK
  <2>1. /\ streams[a].flying > 0 /\ streams[a].flying + streams[a].open <= MaxStreams
        /\ streams' = [streams EXCEPT ![a] = [flying |-> streams[a].flying - 1,
                                              open |-> streams[a].open + 1]]
    BY <1>17 DEF StreamArrives, WireInv
  <2>2. [flying |-> streams[a].flying - 1, open |-> streams[a].open + 1]
           \in [flying : 0..MaxStreams, open : 0..MaxStreams]
    BY <2>0, <2>1, HandoffBoundAssumption
  <2> QED
    BY <1>17, <2>1, <2>2 DEF HandoffTypeOK, StreamArrives
<1>18. ASSUME NEW a \in Attempts, StreamEnds(a) PROVE HandoffTypeOK'
  BY <1>18, HandoffBoundAssumption DEF HandoffTypeOK, StreamEnds
<1>19. ASSUME NEW a \in Attempts, LoseWire(a) PROVE HandoffTypeOK'
  BY <1>19, HandoffBoundAssumption DEF HandoffTypeOK, LoseWire, Sever, Fault, NoStreams
<1>20. CASE UNCHANGED handoffVars
  BY <1>20 DEF HandoffTypeOK, handoffVars
<1> QED
  BY <1>1, <1>2, <1>3, <1>4, <1>5, <1>6, <1>7, <1>8, <1>9, <1>10, <1>11, <1>12, <1>13,
     <1>14, <1>15, <1>16, <1>17, <1>18, <1>19, <1>20
     DEF HandoffNext, PeerStep, HostStep

(* Every step keeps what an attempt's progress implies. *)
LEMMA ProgressNext ==
    HandoffTypeOK /\ ProgressInv /\ [HandoffNext]_handoffVars => ProgressInv'
<1> SUFFICES ASSUME HandoffTypeOK, ProgressInv, [HandoffNext]_handoffVars PROVE ProgressInv'
  OBVIOUS
<1>1. ASSUME NEW a \in Attempts, Redial(a) PROVE ProgressInv'
  BY <1>1 DEF HandoffTypeOK, ProgressInv, Redial, Start, Unused
<1>2. ASSUME NEW a \in Attempts, Timer(a) PROVE ProgressInv'
  BY <1>2 DEF HandoffTypeOK, ProgressInv, Timer, Start, Unused
<1>3. CASE Supervise
  BY <1>3 DEF HandoffTypeOK, ProgressInv, Supervise
<1>4. CASE Return
  BY <1>4 DEF HandoffTypeOK, ProgressInv, Return
<1>5. CASE CancelOld
  BY <1>5 DEF HandoffTypeOK, ProgressInv, CancelOld, Sever
<1>6. ASSUME NEW a \in Attempts, Acknowledge(a) PROVE ProgressInv'
  BY <1>6 DEF HandoffTypeOK, ProgressInv, Acknowledge
<1>7. ASSUME NEW a \in Attempts, Ready(a) PROVE ProgressInv'
  BY <1>7 DEF HandoffTypeOK, ProgressInv, Ready, CommitArrived
<1>8. ASSUME NEW a \in Attempts, PeerEnds(a) PROVE ProgressInv'
  BY <1>8 DEF HandoffTypeOK, ProgressInv, PeerEnds, Sever, Fault
<1>9. ASSUME NEW a \in Attempts, Prepare(a) PROVE ProgressInv'
  BY <1>9 DEF HandoffTypeOK, ProgressInv, Prepare
<1>10. ASSUME NEW a \in Attempts, Deny(a) PROVE ProgressInv'
  BY <1>10 DEF HandoffTypeOK, ProgressInv, Deny, Fault
<1>11. ASSUME NEW a \in Attempts, PublishLane(a) PROVE ProgressInv'
  BY <1>11 DEF HandoffTypeOK, ProgressInv, PublishLane
<1>12. ASSUME NEW a \in Attempts, Fence(a) PROVE ProgressInv'
  BY <1>12 DEF HandoffTypeOK, ProgressInv, Fence
<1>13. ASSUME NEW a \in Attempts, WriteCommit(a) PROVE ProgressInv'
  BY <1>13 DEF HandoffTypeOK, ProgressInv, WriteCommit
<1>14. ASSUME NEW a \in Attempts, HostFails(a) PROVE ProgressInv'
  BY <1>14 DEF HandoffTypeOK, ProgressInv, HostFails, CloseOwner, Sever, Fault
<1>15. ASSUME NEW a \in Attempts, Watch(a) PROVE ProgressInv'
  BY <1>15 DEF HandoffTypeOK, ProgressInv, Watch, Sever
<1>16. ASSUME NEW a \in Attempts, OpenStream(a) PROVE ProgressInv'
  BY <1>16 DEF HandoffTypeOK, ProgressInv, OpenStream
<1>17. ASSUME NEW a \in Attempts, StreamArrives(a) PROVE ProgressInv'
  BY <1>17 DEF HandoffTypeOK, ProgressInv, StreamArrives
<1>18. ASSUME NEW a \in Attempts, StreamEnds(a) PROVE ProgressInv'
  BY <1>18 DEF HandoffTypeOK, ProgressInv, StreamEnds
<1>19. ASSUME NEW a \in Attempts, LoseWire(a) PROVE ProgressInv'
  BY <1>19 DEF HandoffTypeOK, ProgressInv, LoseWire, Sever, Fault
<1>20. CASE UNCHANGED handoffVars
  BY <1>20 DEF HandoffTypeOK, ProgressInv, handoffVars
<1> QED
  BY <1>1, <1>2, <1>3, <1>4, <1>5, <1>6, <1>7, <1>8, <1>9, <1>10, <1>11, <1>12, <1>13,
     <1>14, <1>15, <1>16, <1>17, <1>18, <1>19, <1>20
     DEF HandoffNext, PeerStep, HostStep

(* Every step keeps streams on wires that are up. *)
LEMMA WireNext ==
    HandoffTypeOK /\ ProgressInv /\ WireInv /\ [HandoffNext]_handoffVars => WireInv'
<1> SUFFICES ASSUME HandoffTypeOK, ProgressInv, WireInv, [HandoffNext]_handoffVars PROVE WireInv'
  OBVIOUS
<1>1. ASSUME NEW a \in Attempts, Redial(a) PROVE WireInv'
  BY <1>1 DEF HandoffTypeOK, WireInv, Redial, Start, Unused
<1>2. ASSUME NEW a \in Attempts, Timer(a) PROVE WireInv'
  BY <1>2 DEF HandoffTypeOK, WireInv, Timer, Start, Unused
<1>3. CASE Supervise
  BY <1>3 DEF HandoffTypeOK, WireInv, Supervise
<1>4. CASE Return
  BY <1>4 DEF HandoffTypeOK, WireInv, Return
<1>5. CASE CancelOld
  BY <1>5 DEF HandoffTypeOK, WireInv, CancelOld, Sever, NoStreams
<1>6. ASSUME NEW a \in Attempts, Acknowledge(a) PROVE WireInv'
  BY <1>6 DEF HandoffTypeOK, WireInv, Acknowledge
<1>7. ASSUME NEW a \in Attempts, Ready(a) PROVE WireInv'
  BY <1>7 DEF HandoffTypeOK, WireInv, Ready, CommitArrived
<1>8. ASSUME NEW a \in Attempts, PeerEnds(a) PROVE WireInv'
  <2>0. \A b \in Attempts : streams[b] \in [flying : 0..MaxStreams, open : 0..MaxStreams]
    BY DEF HandoffTypeOK
  <2>1. /\ link' = [link EXCEPT ![a] = IF link[a] = "up" THEN "cut" ELSE link[a]]
        /\ streams' = [streams EXCEPT ![a] = NoStreams]
    BY <1>8 DEF PeerEnds, Sever
  <2>2. ASSUME NEW b \in Attempts
        PROVE  /\ streams'[b] = IF b = a THEN NoStreams ELSE streams[b]
               /\ link'[b] = IF b # a THEN link[b] ELSE IF link[a] = "up" THEN "cut" ELSE link[a]
    BY <2>1 DEF HandoffTypeOK
  <2>3. ASSUME NEW b \in Attempts
        PROVE  host'[b] = host[b] \/ b = a
    BY <1>8 DEF PeerEnds, HandoffTypeOK
  <2>4. NoStreams.flying = 0 /\ NoStreams.open = 0
    BY DEF NoStreams
  <2> QED
    BY <2>0, <2>2, <2>3, <2>4, HandoffBoundAssumption DEF WireInv
<1>9. ASSUME NEW a \in Attempts, Prepare(a) PROVE WireInv'
  BY <1>9 DEF HandoffTypeOK, WireInv, Prepare
<1>10. ASSUME NEW a \in Attempts, Deny(a) PROVE WireInv'
  BY <1>10 DEF HandoffTypeOK, WireInv, Deny, Fault
<1>11. ASSUME NEW a \in Attempts, PublishLane(a) PROVE WireInv'
  BY <1>11 DEF HandoffTypeOK, WireInv, PublishLane
<1>12. ASSUME NEW a \in Attempts, Fence(a) PROVE WireInv'
  BY <1>12 DEF HandoffTypeOK, WireInv, Fence
<1>13. ASSUME NEW a \in Attempts, WriteCommit(a) PROVE WireInv'
  BY <1>13 DEF HandoffTypeOK, WireInv, WriteCommit
<1>14. ASSUME NEW a \in Attempts, HostFails(a) PROVE WireInv'
  <2>0. \A b \in Attempts : streams[b] \in [flying : 0..MaxStreams, open : 0..MaxStreams]
    BY DEF HandoffTypeOK
  <2>1. /\ link' = [link EXCEPT ![a] = IF link[a] = "up" THEN "cut" ELSE link[a]]
        /\ streams' = [streams EXCEPT ![a] = NoStreams]
    BY <1>14 DEF HostFails, Sever
  <2>2. ASSUME NEW b \in Attempts
        PROVE  /\ streams'[b] = IF b = a THEN NoStreams ELSE streams[b]
               /\ link'[b] = IF b # a THEN link[b] ELSE IF link[a] = "up" THEN "cut" ELSE link[a]
    BY <2>1 DEF HandoffTypeOK
  <2>3. ASSUME NEW b \in Attempts
        PROVE  host'[b] = host[b] \/ b = a
    BY <1>14 DEF HostFails, HandoffTypeOK
  <2>4. NoStreams.flying = 0 /\ NoStreams.open = 0
    BY DEF NoStreams
  <2> QED
    BY <2>0, <2>2, <2>3, <2>4, HandoffBoundAssumption DEF WireInv
<1>15. ASSUME NEW a \in Attempts, Watch(a) PROVE WireInv'
  <2>0. \A b \in Attempts : streams[b] \in [flying : 0..MaxStreams, open : 0..MaxStreams]
    BY DEF HandoffTypeOK
  <2>1. /\ link' = [link EXCEPT ![a] = IF link[a] = "up" THEN "cut" ELSE link[a]]
        /\ streams' = [streams EXCEPT ![a] = NoStreams]
    BY <1>15 DEF Watch, Sever
  <2>2. ASSUME NEW b \in Attempts
        PROVE  /\ streams'[b] = IF b = a THEN NoStreams ELSE streams[b]
               /\ link'[b] = IF b # a THEN link[b] ELSE IF link[a] = "up" THEN "cut" ELSE link[a]
    BY <2>1 DEF HandoffTypeOK
  <2>3. ASSUME NEW b \in Attempts
        PROVE  host'[b] = host[b] \/ b = a
    BY <1>15 DEF Watch, HandoffTypeOK
  <2>4. NoStreams.flying = 0 /\ NoStreams.open = 0
    BY DEF NoStreams
  <2> QED
    BY <2>0, <2>2, <2>3, <2>4, HandoffBoundAssumption DEF WireInv
<1>16. ASSUME NEW a \in Attempts, OpenStream(a) PROVE WireInv'
  <2>0. \A b \in Attempts : streams[b] \in [flying : 0..MaxStreams, open : 0..MaxStreams]
    BY DEF HandoffTypeOK
  <2>1. /\ streams'[a].flying = streams[a].flying + 1 /\ streams'[a].open = streams[a].open
        /\ \A b \in Attempts \ {a} : streams'[b] = streams[b]
        /\ UNCHANGED <<host, link>>
    BY <1>16, <2>0 DEF HandoffTypeOK, OpenStream
  <2>2. link[a] = "up" /\ streams[a].flying + streams[a].open < MaxStreams
    BY <1>16 DEF OpenStream
  <2>3. streams[a].flying \in Nat /\ streams[a].open \in Nat /\ MaxStreams \in Nat
    BY <2>0, HandoffBoundAssumption
  <2>4. ASSUME NEW b \in Attempts
        PROVE  /\ streams'[b].flying > 0 => link'[b] = "up"
               /\ streams'[b].flying + streams'[b].open <= MaxStreams
               /\ host'[b] \in {"idle", "ended"} => link'[b] # "up"
    BY <2>0, <2>1, <2>2, <2>3 DEF WireInv
  <2> QED
    BY <2>4 DEF WireInv
<1>17. ASSUME NEW a \in Attempts, StreamArrives(a) PROVE WireInv'
  <2>0. \A b \in Attempts : streams[b] \in [flying : 0..MaxStreams, open : 0..MaxStreams]
    BY DEF HandoffTypeOK
  <2>1. /\ streams'[a].flying = streams[a].flying - 1 /\ streams'[a].open = streams[a].open + 1
        /\ \A b \in Attempts \ {a} : streams'[b] = streams[b]
        /\ UNCHANGED <<host, link>>
    BY <1>17, <2>0 DEF HandoffTypeOK, StreamArrives
  <2>2. streams[a].flying > 0
    BY <1>17 DEF StreamArrives
  <2>3. streams[a].flying \in Nat /\ streams[a].open \in Nat /\ MaxStreams \in Nat
    BY <2>0, HandoffBoundAssumption
  <2>4. ASSUME NEW b \in Attempts
        PROVE  /\ streams'[b].flying > 0 => link'[b] = "up"
               /\ streams'[b].flying + streams'[b].open <= MaxStreams
               /\ host'[b] \in {"idle", "ended"} => link'[b] # "up"
    BY <2>0, <2>1, <2>2, <2>3 DEF WireInv
  <2> QED
    BY <2>4 DEF WireInv
<1>18. ASSUME NEW a \in Attempts, StreamEnds(a) PROVE WireInv'
  <2>0. \A b \in Attempts : streams[b] \in [flying : 0..MaxStreams, open : 0..MaxStreams]
    BY DEF HandoffTypeOK
  <2>1. /\ streams'[a].flying = streams[a].flying /\ streams'[a].open = streams[a].open - 1
        /\ \A b \in Attempts \ {a} : streams'[b] = streams[b]
        /\ UNCHANGED <<host, link>>
    BY <1>18, <2>0 DEF HandoffTypeOK, StreamEnds
  <2>2. streams[a].open > 0
    BY <1>18 DEF StreamEnds
  <2>3. streams[a].flying \in Nat /\ streams[a].open \in Nat /\ MaxStreams \in Nat
    BY <2>0, HandoffBoundAssumption
  <2>4. ASSUME NEW b \in Attempts
        PROVE  /\ streams'[b].flying > 0 => link'[b] = "up"
               /\ streams'[b].flying + streams'[b].open <= MaxStreams
               /\ host'[b] \in {"idle", "ended"} => link'[b] # "up"
    BY <2>0, <2>1, <2>2, <2>3 DEF WireInv
  <2> QED
    BY <2>4 DEF WireInv
<1>19. ASSUME NEW a \in Attempts, LoseWire(a) PROVE WireInv'
  <2>0. \A b \in Attempts : streams[b] \in [flying : 0..MaxStreams, open : 0..MaxStreams]
    BY DEF HandoffTypeOK
  <2>1. /\ link' = [link EXCEPT ![a] = IF link[a] = "up" THEN "cut" ELSE link[a]]
        /\ streams' = [streams EXCEPT ![a] = NoStreams]
    BY <1>19 DEF LoseWire, Sever
  <2>2. ASSUME NEW b \in Attempts
        PROVE  /\ streams'[b] = IF b = a THEN NoStreams ELSE streams[b]
               /\ link'[b] = IF b # a THEN link[b] ELSE IF link[a] = "up" THEN "cut" ELSE link[a]
    BY <2>1 DEF HandoffTypeOK
  <2>3. ASSUME NEW b \in Attempts
        PROVE  host'[b] = host[b] \/ b = a
    BY <1>19 DEF LoseWire, HandoffTypeOK
  <2>4. NoStreams.flying = 0 /\ NoStreams.open = 0
    BY DEF NoStreams
  <2> QED
    BY <2>0, <2>2, <2>3, <2>4, HandoffBoundAssumption DEF WireInv
<1>20. CASE UNCHANGED handoffVars
  BY <1>20 DEF HandoffTypeOK, WireInv, handoffVars
<1> QED
  BY <1>1, <1>2, <1>3, <1>4, <1>5, <1>6, <1>7, <1>8, <1>9, <1>10, <1>11, <1>12, <1>13,
     <1>14, <1>15, <1>16, <1>17, <1>18, <1>19, <1>20
     DEF HandoffNext, PeerStep, HostStep

(* A new attempt for predecessor p disturbs no replacement: nobody that    *)
(* matters replaces the attempt whose name it takes.                       *)
LEMMA StartFence ==
    ASSUME HandoffTypeOK, ProgressInv, FenceInv, NEW a \in Attempts, NEW p, p # a,
           Start(a, p), UNCHANGED <<held, mail, streams>>
    PROVE  FenceInv'
<1>1. /\ peer[a] \in {"idle", "ended"}
      /\ peer' = [peer EXCEPT ![a] = "dialing"]
      /\ host' = [host EXCEPT ![a] = "idle"]
      /\ replaces' = [b \in Attempts |-> IF b = a THEN p ELSE IF replaces[b] = a THEN NoAttempt
                                         ELSE replaces[b]]
      /\ \A b \in Attempts : replaces[b] = a => peer[b] \in {"idle", "ended"}
                                             /\ host[b] \in {"idle", "ended", "watched"}
  BY DEF Start, Unused
<1>2. mail'[a] = "none" /\ peer'[a] = "dialing" /\ host'[a] = "idle" /\ replaces'[a] = p
  BY <1>1 DEF HandoffTypeOK, ProgressInv
<1>3. \A b \in Attempts \ {a} : /\ peer'[b] = peer[b] /\ host'[b] = host[b] /\ held'[b] = held[b]
                                /\ mail'[b] = mail[b] /\ streams'[b] = streams[b]
                                /\ replaces'[b] \in Attempts =>
                                     replaces'[b] = replaces[b] /\ replaces[b] # a
  BY <1>1, AttemptAssumption DEF HandoffTypeOK
<1>4. ASSUME NEW b \in Attempts, replaces'[b] \in Attempts
      PROVE  /\ replaces'[b] # b
             /\ host'[b] = "prepared" => Past(replaces[b])'
             /\ host'[b] = "published" => Retired(replaces[b])'
             /\ host'[b] = "fenced" \/ mail'[b] = "commit" \/ peer'[b] = "ready"
                   => Quiet(replaces[b])'
  <2>1. CASE b = a
    BY <1>2, <2>1
  <2>2. CASE b # a
    <3>1. PICK q \in Attempts : q = replaces'[b]
      BY <1>4
    <3>2. q = replaces[b] /\ q # a
      BY <1>3, <2>2, <3>1
    <3>3. /\ Past(q) => Past(q)'
          /\ Retired(q) => Retired(q)'
          /\ Quiet(q) => Quiet(q)'
      BY <1>3, <3>2 DEF Past, Retired, Quiet
    <3> QED
      BY <1>3, <2>2, <3>1, <3>2, <3>3 DEF FenceInv, Past, Retired, Quiet
  <2> QED
    BY <2>1, <2>2
<1> QED
  BY <1>4 DEF FenceInv

(* Every step keeps the predecessors of published and fenced replacements
   retired and quiet. *)
LEMMA FenceNext ==
    HandoffTypeOK /\ ProgressInv /\ WireInv /\ FenceInv /\ SupervisorInv /\ [HandoffNext]_handoffVars => FenceInv'
<1> SUFFICES ASSUME HandoffTypeOK, ProgressInv, WireInv, FenceInv, SupervisorInv, [HandoffNext]_handoffVars PROVE FenceInv'
  OBVIOUS
<1>1. ASSUME NEW a \in Attempts, Redial(a) PROVE FenceInv'
  <2>1. Start(a, NoAttempt) /\ UNCHANGED <<held, mail, streams>>
    BY <1>1 DEF Redial
  <2>2. NoAttempt # a
    BY <1>1, AttemptAssumption DEF Redial, Start, Unused
  <2> QED
    BY <2>1, <2>2, StartFence DEF HandoffTypeOK
<1>2. ASSUME NEW a \in Attempts, Timer(a) PROVE FenceInv'
  <2>1. Start(a, supervisor.current) /\ UNCHANGED <<held, mail, streams>>
    BY <1>2 DEF Timer
  <2>2. supervisor.current # a
    BY <1>2, AttemptAssumption DEF Timer, Start, Unused
  <2> QED
    BY <2>1, <2>2, StartFence DEF HandoffTypeOK
<1>3. CASE Supervise
  BY <1>3 DEF HandoffTypeOK, FenceInv, Past, Retired, Quiet, Supervise
<1>4. CASE Return
  BY <1>4 DEF HandoffTypeOK, FenceInv, Past, Retired, Quiet, Return
<1>5. CASE CancelOld
  BY <1>5 DEF HandoffTypeOK, FenceInv, Past, Retired, Quiet, CancelOld, Sever, NoStreams
<1>6. ASSUME NEW a \in Attempts, Acknowledge(a) PROVE FenceInv'
  BY <1>6 DEF HandoffTypeOK, FenceInv, Past, Retired, Quiet, Acknowledge
<1>7. ASSUME NEW a \in Attempts, Ready(a) PROVE FenceInv'
  BY <1>7 DEF HandoffTypeOK, FenceInv, Past, Retired, Quiet, Ready, CommitArrived
<1>8. ASSUME NEW a \in Attempts, PeerEnds(a) PROVE FenceInv'
  BY <1>8 DEF HandoffTypeOK, FenceInv, Past, Retired, Quiet, PeerEnds, Sever, Fault, NoStreams
<1>9. ASSUME NEW a \in Attempts, Prepare(a) PROVE FenceInv'
  <2>1. /\ peer[a] = "dialing" /\ Admits(a)
        /\ \A b \in Attempts \ {a} : /\ peer'[b] = peer[b] /\ host'[b] = host[b]
                                     /\ held'[b] = held[b] /\ mail'[b] = mail[b]
        /\ peer'[a] = "waiting" /\ host'[a] = "prepared" /\ mail'[a] = "ready"
        /\ UNCHANGED <<replaces, streams>>
    BY <1>9 DEF HandoffTypeOK, Prepare
  <2>2. ~Past(a)
    BY <2>1 DEF ProgressInv, Past
  <2>3. \A p \in Attempts : /\ Past(p) => Past(p)'
                            /\ Retired(p) => Retired(p)'
                            /\ Quiet(p) => Quiet(p)'
    BY <2>1, <2>2 DEF Past, Retired, Quiet
  <2>4. replaces[a] \in Attempts => Past(replaces[a])
    BY <2>1, AttemptAssumption
       DEF Admits, HandoffPredecessor, ServingOwner, Linked, ProgressInv, Past
  <2>5. ASSUME NEW b \in Attempts, replaces[b] \in Attempts
        PROVE  /\ replaces[b] # b
               /\ host'[b] = "prepared" => Past(replaces[b])'
               /\ host'[b] = "published" => Retired(replaces[b])'
               /\ host'[b] = "fenced" \/ mail'[b] = "commit" \/ peer'[b] = "ready"
                     => Quiet(replaces[b])'
    BY <2>1, <2>3, <2>4, <2>5 DEF FenceInv
  <2> QED
    BY <2>1, <2>5 DEF FenceInv
<1>10. ASSUME NEW a \in Attempts, Deny(a) PROVE FenceInv'
  BY <1>10 DEF HandoffTypeOK, FenceInv, Past, Retired, Quiet, Deny, Fault
<1>11. ASSUME NEW a \in Attempts, PublishLane(a) PROVE FenceInv'
  BY <1>11 DEF HandoffTypeOK, FenceInv, Past, Retired, Quiet, PublishLane
<1>12. ASSUME NEW a \in Attempts, Fence(a) PROVE FenceInv'
  <2>1. /\ host[a] = "published" /\ replaces[a] # NoAttempt
        /\ link[replaces[a]] = "up" => streams[replaces[a]].flying = 0
        /\ host' = [host EXCEPT ![a] = "fenced"]
        /\ UNCHANGED <<peer, held, link, mail, replaces, streams>>
    BY <1>12 DEF Fence
  <2>2. \A b \in Attempts : host'[b] = IF b = a THEN "fenced" ELSE host[b]
    BY <2>1 DEF HandoffTypeOK
  <2>3. \A p \in Attempts : Past(p) => Past(p)'
    BY <2>2 DEF Past
  <2>4. \A p \in Attempts : (Retired(p) => Retired(p)') /\ (Quiet(p) => Quiet(p)')
    BY <2>1, <2>3 DEF Retired, Quiet
  <2>5. replaces[a] \in Attempts => Quiet(replaces[a])
    <3> SUFFICES ASSUME replaces[a] \in Attempts PROVE streams[replaces[a]].flying = 0
      BY <2>1 DEF FenceInv, Quiet
    <3>1. streams[replaces[a]].flying \in 0..MaxStreams
      BY DEF HandoffTypeOK
    <3> QED
      BY <2>1, <3>1, HandoffBoundAssumption DEF WireInv
  <2>6. \A b \in Attempts : replaces'[b] = replaces[b] /\ mail'[b] = mail[b] /\ peer'[b] = peer[b]
    BY <2>1
  <2> QED
    BY <2>1, <2>2, <2>3, <2>4, <2>5, <2>6 DEF FenceInv
<1>13. ASSUME NEW a \in Attempts, WriteCommit(a) PROVE FenceInv'
  <2>1. /\ host[a] = "fenced" \/ (host[a] = "published" /\ replaces[a] = NoAttempt)
        /\ host' = [host EXCEPT ![a] = "watched"]
        /\ \A b \in Attempts \ {a} : mail'[b] = mail[b]
        /\ UNCHANGED <<peer, held, replaces, streams>>
    BY <1>13 DEF HandoffTypeOK, WriteCommit
  <2>2. \A b \in Attempts : host'[b] = IF b = a THEN "watched" ELSE host[b]
    BY <2>1 DEF HandoffTypeOK
  <2>3. \A p \in Attempts : /\ Past(p) => Past(p)'
                            /\ Retired(p) => Retired(p)'
                            /\ Quiet(p) => Quiet(p)'
    BY <2>1, <2>2 DEF Past, Retired, Quiet
  <2>4. replaces[a] \in Attempts => Quiet(replaces[a])
    BY <2>1, AttemptAssumption DEF FenceInv
  <2>5. ASSUME NEW b \in Attempts, replaces[b] \in Attempts
        PROVE  /\ replaces[b] # b
               /\ host'[b] = "prepared" => Past(replaces[b])'
               /\ host'[b] = "published" => Retired(replaces[b])'
               /\ host'[b] = "fenced" \/ mail'[b] = "commit" \/ peer'[b] = "ready"
                     => Quiet(replaces[b])'
    BY <2>1, <2>2, <2>3, <2>4, <2>5 DEF FenceInv
  <2> QED
    BY <2>1, <2>5 DEF FenceInv
<1>14. ASSUME NEW a \in Attempts, HostFails(a) PROVE FenceInv'
  BY <1>14 DEF HandoffTypeOK, FenceInv, Past, Retired, Quiet, HostFails, CloseOwner, Sever, Fault, NoStreams
<1>15. ASSUME NEW a \in Attempts, Watch(a) PROVE FenceInv'
  BY <1>15 DEF HandoffTypeOK, FenceInv, Past, Retired, Quiet, Watch, Sever, NoStreams
<1>16. ASSUME NEW a \in Attempts, OpenStream(a) PROVE FenceInv'
  BY <1>16 DEF HandoffTypeOK, FenceInv, Past, Retired, Quiet, OpenStream
<1>17. ASSUME NEW a \in Attempts, StreamArrives(a) PROVE FenceInv'
  BY <1>17 DEF HandoffTypeOK, FenceInv, Past, Retired, Quiet, StreamArrives
<1>18. ASSUME NEW a \in Attempts, StreamEnds(a) PROVE FenceInv'
  BY <1>18 DEF HandoffTypeOK, FenceInv, Past, Retired, Quiet, StreamEnds
<1>19. ASSUME NEW a \in Attempts, LoseWire(a) PROVE FenceInv'
  BY <1>19 DEF HandoffTypeOK, FenceInv, Past, Retired, Quiet, LoseWire, Sever, Fault, NoStreams
<1>20. CASE UNCHANGED handoffVars
  BY <1>20 DEF HandoffTypeOK, FenceInv, Past, Retired, Quiet, handoffVars
<1> QED
  BY <1>1, <1>2, <1>3, <1>4, <1>5, <1>6, <1>7, <1>8, <1>9, <1>10, <1>11, <1>12, <1>13,
     <1>14, <1>15, <1>16, <1>17, <1>18, <1>19, <1>20
     DEF HandoffNext, PeerStep, HostStep

(* Every step keeps the supervisor's attempts. *)
LEMMA SupervisorNext ==
    HandoffTypeOK /\ ProgressInv /\ FenceInv /\ SupervisorInv /\ [HandoffNext]_handoffVars => SupervisorInv'
<1> SUFFICES ASSUME HandoffTypeOK, ProgressInv, FenceInv, SupervisorInv, [HandoffNext]_handoffVars PROVE SupervisorInv'
  OBVIOUS
<1>1. ASSUME NEW a \in Attempts, Redial(a) PROVE SupervisorInv'
  BY <1>1 DEF HandoffTypeOK, SupervisorStates, SupervisorInv, Past, Retired, Quiet, Redial, Start, Unused, Backoff
<1>2. ASSUME NEW a \in Attempts, Timer(a) PROVE SupervisorInv'
  BY <1>2 DEF HandoffTypeOK, SupervisorStates, SupervisorInv, Past, Retired, Quiet, Timer, Start, Unused
<1>3. CASE Supervise
  <2> DEFINE s == supervisor
  <2>0. /\ UNCHANGED <<peer, host, held, replaces, streams>>
        /\ s \in SupervisorStates
    BY <1>3 DEF HandoffTypeOK, Supervise
  <2>1. CASE s.at = "replacing" /\ peer[s.next] = "ready"
             /\ supervisor' = [at |-> "draining", current |-> s.next, next |-> NoAttempt,
                               old |-> s.current]
    <3>1. s.next \in Attempts /\ s.current \in Attempts /\ replaces[s.next] = s.current
      BY <2>1 DEF SupervisorInv
    <3>2. Quiet(s.current)
      BY <2>1, <3>1 DEF FenceInv
    <3> QED
      BY <2>0, <2>1, <3>1, <3>2 DEF SupervisorInv, Past, Retired, Quiet
  <2>2. CASE \/ s.at # "backoff" /\ supervisor' = [s EXCEPT !.at = "serving"]
             \/ s.at # "backoff" /\ supervisor' = [s EXCEPT !.at = "serving", !.next = NoAttempt]
             \/ s.at # "backoff" /\ supervisor' = [s EXCEPT !.at = "serving", !.old = NoAttempt]
             \/ supervisor' = Backoff
    <3>1. Backoff.at = "backoff"
      BY DEF Backoff
    <3>2. supervisor'.at = "backoff" \/ (supervisor'.at = "serving" /\ supervisor'.current \in Attempts)
      BY <2>0, <2>2, <3>1 DEF SupervisorInv, SupervisorStates
    <3> QED
      BY <3>2 DEF SupervisorInv
  <2> QED
    BY <1>3, <2>1, <2>2 DEF Supervise
<1>4. CASE Return
  BY <1>4 DEF HandoffTypeOK, SupervisorStates, SupervisorInv, Past, Retired, Quiet, Return, Backoff
<1>5. CASE CancelOld
  BY <1>5 DEF HandoffTypeOK, SupervisorStates, SupervisorInv, Past, Retired, Quiet, CancelOld, Sever, NoStreams
<1>6. ASSUME NEW a \in Attempts, Acknowledge(a) PROVE SupervisorInv'
  BY <1>6 DEF HandoffTypeOK, SupervisorStates, SupervisorInv, Past, Retired, Quiet, Acknowledge
<1>7. ASSUME NEW a \in Attempts, Ready(a) PROVE SupervisorInv'
  BY <1>7 DEF HandoffTypeOK, SupervisorStates, SupervisorInv, Past, Retired, Quiet, Ready, CommitArrived
<1>8. ASSUME NEW a \in Attempts, PeerEnds(a) PROVE SupervisorInv'
  BY <1>8 DEF HandoffTypeOK, SupervisorStates, SupervisorInv, Past, Retired, Quiet, PeerEnds, Sever, Fault, NoStreams
<1>9. ASSUME NEW a \in Attempts, Prepare(a) PROVE SupervisorInv'
  <2>1. /\ peer[a] = "dialing" /\ UNCHANGED <<replaces, streams, supervisor>>
        /\ \A b \in Attempts \ {a} : host'[b] = host[b] /\ held'[b] = held[b]
    BY <1>9 DEF HandoffTypeOK, Prepare
  <2>2. ~Past(a)
    BY <2>1 DEF ProgressInv, Past
  <2> QED
    BY <2>1, <2>2 DEF SupervisorInv, Past, Retired, Quiet
<1>10. ASSUME NEW a \in Attempts, Deny(a) PROVE SupervisorInv'
  BY <1>10 DEF HandoffTypeOK, SupervisorStates, SupervisorInv, Past, Retired, Quiet, Deny, Fault
<1>11. ASSUME NEW a \in Attempts, PublishLane(a) PROVE SupervisorInv'
  BY <1>11 DEF HandoffTypeOK, SupervisorStates, SupervisorInv, Past, Retired, Quiet, PublishLane
<1>12. ASSUME NEW a \in Attempts, Fence(a) PROVE SupervisorInv'
  BY <1>12 DEF HandoffTypeOK, SupervisorStates, SupervisorInv, Past, Retired, Quiet, Fence
<1>13. ASSUME NEW a \in Attempts, WriteCommit(a) PROVE SupervisorInv'
  BY <1>13 DEF HandoffTypeOK, SupervisorStates, SupervisorInv, Past, Retired, Quiet, WriteCommit
<1>14. ASSUME NEW a \in Attempts, HostFails(a) PROVE SupervisorInv'
  BY <1>14 DEF HandoffTypeOK, SupervisorStates, SupervisorInv, Past, Retired, Quiet, HostFails, CloseOwner, Sever, Fault, NoStreams
<1>15. ASSUME NEW a \in Attempts, Watch(a) PROVE SupervisorInv'
  BY <1>15 DEF HandoffTypeOK, SupervisorStates, SupervisorInv, Past, Retired, Quiet, Watch, Sever, NoStreams
<1>16. ASSUME NEW a \in Attempts, OpenStream(a) PROVE SupervisorInv'
  BY <1>16 DEF HandoffTypeOK, SupervisorStates, SupervisorInv, Past, Retired, Quiet, OpenStream
<1>17. ASSUME NEW a \in Attempts, StreamArrives(a) PROVE SupervisorInv'
  BY <1>17 DEF HandoffTypeOK, SupervisorStates, SupervisorInv, Past, Retired, Quiet, StreamArrives
<1>18. ASSUME NEW a \in Attempts, StreamEnds(a) PROVE SupervisorInv'
  BY <1>18 DEF HandoffTypeOK, SupervisorStates, SupervisorInv, Past, Retired, Quiet, StreamEnds
<1>19. ASSUME NEW a \in Attempts, LoseWire(a) PROVE SupervisorInv'
  BY <1>19 DEF HandoffTypeOK, SupervisorStates, SupervisorInv, Past, Retired, Quiet, LoseWire, Sever, Fault, NoStreams
<1>20. CASE UNCHANGED handoffVars
  BY <1>20 DEF HandoffTypeOK, SupervisorStates, SupervisorInv, Past, Retired, Quiet, handoffVars
<1> QED
  BY <1>1, <1>2, <1>3, <1>4, <1>5, <1>6, <1>7, <1>8, <1>9, <1>10, <1>11, <1>12, <1>13,
     <1>14, <1>15, <1>16, <1>17, <1>18, <1>19, <1>20
     DEF HandoffNext, PeerStep, HostStep

(* The invariant holds in every reachable state. *)
LEMMA HandoffInvInit == HandoffInit => HandoffInv
<1> SUFFICES ASSUME HandoffInit PROVE HandoffInv
  OBVIOUS
<1>1. HandoffTypeOK
  <2>1. NoStreams \in [flying : 0..MaxStreams, open : 0..MaxStreams]
    BY HandoffBoundAssumption DEF NoStreams
  <2>2. NoAttempt \in OptAttempt /\ Backoff \in SupervisorStates
    BY DEF OptAttempt, SupervisorStates, Backoff
  <2> QED
    BY <2>1, <2>2, HandoffBoundAssumption DEF HandoffInit, HandoffTypeOK
<1>2. ProgressInv /\ FenceInv
  BY AttemptAssumption DEF HandoffInit, ProgressInv, FenceInv
<1>3. WireInv
  BY HandoffBoundAssumption DEF HandoffInit, WireInv, NoStreams
<1>4. SupervisorInv
  BY DEF HandoffInit, SupervisorInv, Backoff
<1> QED
  BY <1>1, <1>2, <1>3, <1>4 DEF HandoffInv

THEOREM HandoffInvHolds == HandoffSpec => []HandoffInv
<1>1. HandoffInv /\ [HandoffNext]_handoffVars => HandoffInv'
  BY HandoffTypeNext, ProgressNext, WireNext, FenceNext, SupervisorNext DEF HandoffInv
<1> QED
  BY <1>1, HandoffInvInit, PTL DEF HandoffSpec

(* Both ends' states are well formed; in particular the streams of a       *)
(* session never exceed their bound on either side of the wire.            *)
THEOREM HandoffTypeCorrect == HandoffSpec => []HandoffTypeOK
  BY HandoffInvHolds, PTL DEF HandoffInv

(* A step that cuts the wire of an attempt the agent serves, without a     *)
(* fault, finds no stream on it.                                           *)
LEMMA CutIsQuiet ==
    ASSUME HandoffInv, [HandoffNext]_handoffVars, NEW b \in Attempts,
           peer[b] = "ready", link[b] = "up", link'[b] = "cut", faults' = faults
    PROVE  streams[b] = NoStreams
<1>0. /\ streams[b] \in [flying : 0..MaxStreams, open : 0..MaxStreams]
      /\ faults \in Nat
  BY HandoffBoundAssumption DEF HandoffInv, HandoffTypeOK
<1>1. ~Fault
  BY <1>0 DEF Fault
<1>2. link' # link
  OBVIOUS
<1>3. host[b] \in {"watched", "ended"}
  BY DEF HandoffInv, ProgressInv
<1>4. ASSUME NEW a \in Attempts, Sever(a) PROVE a = b
  BY <1>4 DEF Sever, HandoffInv, HandoffTypeOK
<1>5. CASE CancelOld
  <2>1. supervisor.at = "draining" /\ streams[supervisor.old].open = 0 /\ Sever(supervisor.old)
    BY <1>5 DEF CancelOld
  <2>2. supervisor.old \in Attempts /\ streams[supervisor.old].flying = 0
    BY <2>1 DEF HandoffInv, SupervisorInv, Quiet
  <2>3. supervisor.old = b
    BY <1>4, <2>1, <2>2
  <2> QED
    BY <1>0, <2>1, <2>2, <2>3 DEF NoStreams
<1>6. ASSUME NEW a \in Attempts, PeerEnds(a) PROVE FALSE
  <2>1. a = b
    BY <1>4, <1>6 DEF PeerEnds
  <2> QED
    BY <1>1, <1>6, <2>1 DEF PeerEnds
<1>7. ASSUME NEW a \in Attempts, HostFails(a) PROVE FALSE
  <2>1. a = b
    BY <1>4, <1>7 DEF HostFails
  <2> QED
    BY <1>3, <1>7, <2>1 DEF HostFails
<1>8. ASSUME NEW a \in Attempts, Watch(a) PROVE streams[b] = NoStreams
  <2>1. a = b
    BY <1>4, <1>8 DEF Watch
  <2> QED
    BY <1>8, <2>1 DEF Watch
<1>9. ASSUME NEW a \in Attempts, LoseWire(a) PROVE FALSE
  BY <1>1, <1>9 DEF LoseWire
<1>10. ASSUME NEW a \in Attempts, NEW p, Start(a, p) PROVE FALSE
  BY <1>10 DEF Start, HandoffInv, HandoffTypeOK
<1>11. ASSUME NEW a \in Attempts, Prepare(a) PROVE FALSE
  BY <1>11 DEF Prepare, HandoffInv, HandoffTypeOK
<1> QED
  BY <1>2, <1>5, <1>6, <1>7, <1>8, <1>9, <1>10, <1>11
     DEF HandoffNext, handoffVars, PeerStep, HostStep, Redial, Timer, Supervise, Return,
         Acknowledge, Ready, Deny, PublishLane, Fence, WriteCommit, OpenStream,
         StreamArrives, StreamEnds

(* For every number of attempts, streams and faults: the acknowledgment,   *)
(* the opening fence and the commit keep a handoff from cutting a session  *)
(* that the agent serves and that carries a stream, opening ones included. *)
THEOREM HandoffIsLossless == HandoffSpec => HandoffTruncatesNothing
<1>1. HandoffInv /\ [HandoffNext]_handoffVars =>
        [\A a \in Attempts :
           peer[a] = "ready" /\ link[a] = "up" /\ link'[a] = "cut" /\ streams[a] # NoStreams
               => faults' # faults]_handoffVars
  BY CutIsQuiet
<1> QED
  BY <1>1, HandoffInvHolds, PTL DEF HandoffSpec, HandoffTruncatesNothing
=============================================================================
