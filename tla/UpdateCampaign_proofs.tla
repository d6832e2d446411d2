----------------------- MODULE UpdateCampaign_proofs -----------------------
(***************************************************************************)
(* Machine-checked proofs about UpdateCampaign, for any agents, campaigns, *)
(* cohort sizes and policies.                                              *)
(*                                                                         *)
(* The model's handlers are operators on the server's state s, so the      *)
(* invariant, Good(s, h), is stated of a server and its hosts, and each    *)
(* operator is shown to keep it (the lemmas named ...Good).  Two frame     *)
(* lemmas do the common part: RowChange for one row and its agent,         *)
(* CampaignChange for the rows of one campaign.                            *)
(***************************************************************************)
EXTENDS UpdateCampaign, FiniteSetTheorems, TLAPS

-----------------------------------------------------------------------------
(* The inductive invariant.                                                *)

(* Outstanding, of any hosts h: the commands agent a may still execute.    *)
Outs(h, a) == {k \in h[a].commands \cup h[a].mail : k.sequence > h[a].floor}

(* Out of service, and past the point where that could be undone.          *)
Sealed(x) == x.cordoned /\ ~Draining(x)

(* One row: what its state says of its cordon, its command and its receipt. *)
(* A rollback's receipt never attests the release it leaves.               *)
RowOK(c, a, x) ==
    /\ a \notin Members(c) => x = NoRow
    /\ x.cordoned => \/ x.state \in {"cordoned", "awaiting_tunnel", "healthy_dwell", "blocked"}
                     \/ x.state = "failed" /\ x.action = "rollback"
    /\ x.state \in {"cordoned", "awaiting_tunnel", "healthy_dwell"} => x.cordoned
    /\ x.state = "failed" => x.action \in {"none", "rollback"}
    /\ x.action \in {"activate", "rollback"} => x.cordoned /\ x.result = NoBuild
    /\ x.cordoned => x.action # "stage"
    /\ ~x.cordoned /\ IsActive(x) => /\ x.authorization = "none" /\ ~x.activated
                                     /\ x.result = NoBuild
    /\ Draining(x) => x.authorization = "none" /\ x.result = NoBuild /\ ~x.activated
    /\ x.cordoned /\ x.authorization = "rollback" => x.result # c

(* A cordoned row's command is the last one signed for its agent, and a    *)
(* receipt means that the host is past it.                                 *)
SeqOK(x, n, floor) ==
    x.cordoned =>
      /\ x.authorization # "none" => x.sequence = n /\ n > 0
      /\ x.result # NoBuild => x.authorization # "none" /\ floor >= x.sequence

(* A host has only signed commands, reports only what it executed, and is  *)
(* connected as the build it runs.                                         *)
HostOK(s, h, a) ==
    /\ \A k \in h[a].commands \cup h[a].mail : k.sequence <= s.sequence[a]
    /\ \A o \in h[a].outcome : o.kind # "failed" => o.sequence <= h[a].floor
    /\ s.conn[a].phase # "none" => s.conn[a].build = h[a].build

(* The fence is the cordon; a sealed agent serves no request, and a command *)
(* that may still be executed seals its row.                               *)
FenceOK(s, h, a) ==
    /\ a \in s.fence <=> \E c \in Campaigns : s.row[c][a].cordoned
    /\ \A c \in Campaigns : Sealed(s.row[c][a]) => s.active[a] = 0
    /\ \A k \in Outs(h, a) : Sealed(s.row[k.campaign][a])

(* The agents out of service: within the policy, and after every earlier   *)
(* cohort has succeeded.                                                   *)
Out(s, c) == {a \in Members(c) : s.row[c][a].cordoned}
CohortOK(s, c) ==
    /\ Cardinality(Out(s, c)) <= MaxUnavailable
    /\ \A a \in Out(s, c) : \A b \in Earlier(c, a) : s.row[c][b].state = "succeeded"

RowsOK(s) == \A c \in Campaigns, a \in Agents : RowOK(c, a, s.row[c][a])
SeqsOK(s, h) == \A c \in Campaigns, a \in Agents :
                   SeqOK(s.row[c][a], s.sequence[a], h[a].floor)
UniqueOK(s) == \A a \in Agents : \A c, d \in ActiveIn(s, a) : c = d
HostsOK(s, h) == \A a \in Agents : HostOK(s, h, a)
CohortsOK(s) == \A c \in Campaigns : CohortOK(s, c)
FencesOK(s, h) == Separate => \A a \in Agents : FenceOK(s, h, a)

Good(s, h) ==
    /\ s \in Server /\ h \in [Agents -> Host]
    /\ RowsOK(s) /\ SeqsOK(s, h) /\ UniqueOK(s) /\ HostsOK(s, h) /\ CohortsOK(s)
    /\ FencesOK(s, h)

LEMMA MembersFacts ==
    ASSUME NEW c \in Campaigns
    PROVE  Members(c) \subseteq Agents /\ IsFiniteSet(Members(c))
<1>1. Members(c) \subseteq Agents
  BY CampaignAssumption DEF Members
<1> QED
  BY <1>1, CampaignAssumption, FS_Subset

LEMMA CordonedIsActive ==
    ASSUME NEW c, NEW a, NEW x \in Row, RowOK(c, a, x), x.cordoned
    PROVE  IsActive(x)
BY DEF RowOK, IsActive, Row

LEMMA OutFinite ==
    ASSUME NEW c \in Campaigns, NEW s
    PROVE  IsFiniteSet(Out(s, c)) /\ Cardinality(Out(s, c)) \in Nat
<1>1. Out(s, c) \subseteq Members(c)
  BY DEF Out
<1>2. IsFiniteSet(Out(s, c))
  BY <1>1, MembersFacts, FS_Subset
<1> QED
  BY <1>2, FS_CardinalityType

(* With separate campaigns only its own campaign cordons an agent.         *)
LEMMA OtherRows ==
    ASSUME NEW s, NEW h, Good(s, h), Separate,
           NEW c \in Campaigns, NEW a \in Members(c), NEW d \in Campaigns, d # c
    PROVE  ~s.row[d][a].cordoned
<1>1. a \in Agents /\ a \notin Members(d)
  BY MembersFacts DEF Separate
<1>2. s.row[d][a] = NoRow
  BY <1>1 DEF Good, RowsOK, RowOK
<1> QED
  BY <1>2 DEF NoRow

LEMMA FenceIsRow ==
    ASSUME NEW s, NEW h, Good(s, h), Separate, NEW c \in Campaigns, NEW a \in Members(c)
    PROVE  a \in s.fence <=> s.row[c][a].cordoned
<1>1. a \in Agents
  BY MembersFacts
<1>2. a \in s.fence <=> \E d \in Campaigns : s.row[d][a].cordoned
  BY <1>1 DEF Good, FencesOK, FenceOK
<1> QED
  BY <1>2, OtherRows

-----------------------------------------------------------------------------
(* Steps on one row, and on the rows of one campaign.                      *)

(* Only row (c, a) and what the server keeps of agent a may differ.        *)
Frame(s, t, c, a) ==
    /\ s \in Server /\ t \in Server
    /\ \A d \in Campaigns, b \in Agents : d # c \/ b # a => t.row[d][b] = s.row[d][b]
    /\ \A b \in Agents \ {a} : b \in t.fence <=> b \in s.fence
    /\ \A b \in Agents \ {a} : /\ t.sequence[b] = s.sequence[b] /\ t.conn[b] = s.conn[b]
                               /\ t.active[b] = s.active[b]

(* No agent leaves service, and success is final.                          *)
CohortKept(x, y) ==
    (y.cordoned => x.cordoned) /\ (x.state = "succeeded" => y.state = "succeeded")

LEMMA CohortStep ==
    ASSUME NEW s, NEW t, NEW c \in Campaigns, CohortOK(s, c),
           \A b \in Agents : CohortKept(s.row[c][b], t.row[c][b])
    PROVE  CohortOK(t, c)
<1>1. Out(t, c) \subseteq Out(s, c)
  BY MembersFacts DEF Out, CohortKept
<1>2. Cardinality(Out(t, c)) <= Cardinality(Out(s, c))
  BY <1>1, OutFinite, FS_Subset
<1>3. Cardinality(Out(t, c)) <= MaxUnavailable
  BY <1>2, OutFinite, CampaignAssumption DEF CohortOK
<1>4. ASSUME NEW a \in Out(t, c), NEW b \in Earlier(c, a)
      PROVE  t.row[c][b].state = "succeeded"
  BY <1>1, <1>4, MembersFacts DEF CohortOK, CohortKept, Earlier
<1> QED
  BY <1>3, <1>4 DEF CohortOK

(* What is left to show of a row that was written.                         *)
Changed(s, t, h, c, a) ==
    LET x == s.row[c][a]  y == t.row[c][a] IN
    /\ RowOK(c, a, y)
    /\ SeqOK(y, t.sequence[a], h[a].floor)
    /\ IsActive(y) => IsActive(x) \/ ActiveIn(s, a) = {}
    /\ t.sequence[a] # s.sequence[a] => IsActive(x) /\ t.sequence[a] > s.sequence[a]
    /\ t.conn[a].phase # "none" => s.conn[a].phase # "none" /\ t.conn[a].build = s.conn[a].build
    /\ t.active[a] = s.active[a]
    /\ Separate => (a \in t.fence <=> y.cordoned)
    /\ Sealed(x) => Sealed(y) \/ (Separate => Outs(h, a) = {})
    /\ Sealed(y) => Sealed(x) \/ t.active[a] = 0

(* Only the rows of campaign c and what the server keeps of its agents.    *)
CampaignFrame(s, t, c) ==
    /\ s \in Server /\ t \in Server
    /\ \A d \in Campaigns, b \in Agents : d # c \/ b \notin Members(c) => t.row[d][b] = s.row[d][b]
    /\ \A b \in Agents \ Members(c) :
         /\ b \in t.fence <=> b \in s.fence
         /\ t.sequence[b] = s.sequence[b] /\ t.conn[b] = s.conn[b]
         /\ t.active[b] = s.active[b]

LEMMA CampaignChange ==
    ASSUME NEW s, NEW t, NEW h, Good(s, h), NEW c \in Campaigns,
           CampaignFrame(s, t, c), \A a \in Members(c) : Changed(s, t, h, c, a),
           CohortOK(t, c)
    PROVE  Good(t, h)
<1>f. CampaignFrame(s, t, c)
  OBVIOUS
<1>m. Members(c) \subseteq Agents
  BY MembersFacts
<1>r. /\ \A d \in Campaigns, b \in Agents : s.row[d][b] \in Row /\ t.row[d][b] \in Row
      /\ \A b \in Agents : s.sequence[b] \in Nat /\ t.sequence[b] \in Nat
  BY <1>f, CampaignAssumption DEF CampaignFrame, Server
<1>g. /\ s \in Server /\ t \in Server /\ h \in [Agents -> Host]
      /\ RowsOK(s) /\ SeqsOK(s, h) /\ UniqueOK(s) /\ HostsOK(s, h) /\ CohortsOK(s)
      /\ FencesOK(s, h)
  BY <1>f DEF Good, CampaignFrame
<1>1. RowsOK(t)
  BY <1>g, <1>f DEF Changed, RowsOK, CampaignFrame
<1>2. SeqsOK(t, h)
  <2> SUFFICES ASSUME NEW d \in Campaigns, NEW b \in Agents
               PROVE  SeqOK(t.row[d][b], t.sequence[b], h[b].floor)
    BY DEF SeqsOK
  <2>1. CASE b \notin Members(c)
    BY <2>1, <1>g, <1>f DEF SeqsOK, CampaignFrame
  <2>2. CASE b \in Members(c) /\ d = c
    BY <2>2 DEF Changed
  <2>3. CASE b \in Members(c) /\ d # c
    <3>1. t.row[d][b] = s.row[d][b] /\ SeqOK(s.row[d][b], s.sequence[b], h[b].floor)
      BY <2>3, <1>g, <1>f DEF SeqsOK, CampaignFrame
    <3>2. CASE t.sequence[b] = s.sequence[b]
      BY <3>1, <3>2, <2>3
    <3>3. CASE t.sequence[b] # s.sequence[b]
      <4>1. IsActive(s.row[c][b])
        BY <3>3, <2>3 DEF Changed
      <4>2. ~IsActive(s.row[d][b])
        BY <4>1, <2>3, <1>g DEF UniqueOK, ActiveIn
      <4>3. ~s.row[d][b].cordoned
        BY <4>2, <1>g, <1>r, CordonedIsActive DEF RowsOK
      <4> QED
        BY <4>3, <3>1, <2>3 DEF SeqOK
    <3> QED
      BY <3>2, <3>3
  <2> QED
    BY <2>1, <2>2, <2>3
<1>3. UniqueOK(t)
  <2> SUFFICES ASSUME NEW b \in Agents, NEW d \in ActiveIn(t, b), NEW e \in ActiveIn(t, b)
               PROVE  d = e
    BY DEF UniqueOK
  <2>1. CASE b \notin Members(c)
    BY <2>1, <1>g, <1>f DEF UniqueOK, ActiveIn, CampaignFrame
  <2>2. CASE b \in Members(c)
    <3>1. \A z \in ActiveIn(t, b) : z = c \/ z \in ActiveIn(s, b)
      BY <1>f DEF ActiveIn, CampaignFrame
    <3>2. c \in ActiveIn(t, b) => c \in ActiveIn(s, b) \/ ActiveIn(s, b) = {}
      BY <2>2 DEF Changed, ActiveIn
    <3> QED
      BY <2>2, <3>1, <3>2, <1>g DEF UniqueOK
  <2> QED
    BY <2>1, <2>2
<1>4. HostsOK(t, h)
  <2> SUFFICES ASSUME NEW b \in Agents
               PROVE  HostOK(t, h, b)
    BY DEF HostsOK
  <2>1. HostOK(s, h, b)
    BY <1>g DEF HostsOK
  <2>2. CASE b \notin Members(c)
    BY <2>1, <2>2, <1>f DEF HostOK, CampaignFrame
  <2>3. CASE b \in Members(c)
    <3>1. s.sequence[b] <= t.sequence[b]
      BY <2>3, <1>r DEF Changed
    <3>2. \A k \in h[b].commands \cup h[b].mail : k.sequence \in Nat
      BY <1>g, CampaignAssumption DEF Host, Command
    <3>3. \A k \in h[b].commands \cup h[b].mail : k.sequence <= t.sequence[b]
      BY <3>1, <3>2, <2>1, <2>3, <1>r DEF HostOK
    <3> QED
      BY <3>3, <2>1, <2>3 DEF HostOK, Changed
  <2> QED
    BY <2>2, <2>3
<1>5. CohortsOK(t)
  <2> SUFFICES ASSUME NEW d \in Campaigns, d # c
               PROVE  CohortOK(t, d)
    BY DEF CohortsOK
  <2>1. \A b \in Agents : CohortKept(s.row[d][b], t.row[d][b])
    BY <1>f DEF CampaignFrame, CohortKept
  <2> QED
    BY <2>1, <1>g, CohortStep DEF CohortsOK
<1>6. FencesOK(t, h)
  <2> SUFFICES ASSUME Separate, NEW b \in Agents
               PROVE  FenceOK(t, h, b)
    BY DEF FencesOK
  <2>1. FenceOK(s, h, b)
    BY <1>g DEF FencesOK
  <2>2. CASE b \notin Members(c)
    <3>1. \A d \in Campaigns : t.row[d][b] = s.row[d][b]
      BY <2>2, <1>f DEF CampaignFrame
    <3>2. (b \in t.fence <=> b \in s.fence) /\ t.active[b] = s.active[b]
      BY <2>2, <1>f DEF CampaignFrame
    <3>3. \A k \in Outs(h, b) : k.campaign \in Campaigns
      BY <1>g DEF Outs, Host, Command
    <3> QED
      BY <3>1, <3>2, <3>3, <2>1 DEF FenceOK
  <2>3. CASE b \in Members(c)
    <3>1. \A d \in Campaigns \ {c} : ~s.row[d][b].cordoned /\ t.row[d][b] = s.row[d][b]
      BY <2>3, OtherRows, <1>f DEF CampaignFrame
    <3>2. b \in t.fence <=> \E d \in Campaigns : t.row[d][b].cordoned
      BY <2>3, <3>1 DEF Changed
    <3>3. \A d \in Campaigns : Sealed(t.row[d][b]) => t.active[b] = 0
      BY <3>1, <2>1, <2>3 DEF Changed, FenceOK, Sealed
    <3>4. \A k \in Outs(h, b) : k.campaign \in Campaigns
      BY <1>g DEF Outs, Host, Command
    <3>5. \A k \in Outs(h, b) : Sealed(t.row[k.campaign][b])
      BY <3>1, <3>4, <2>1, <2>3 DEF Changed, FenceOK, Sealed
    <3> QED
      BY <3>2, <3>3, <3>5, <2>3 DEF FenceOK
  <2> QED
    BY <2>2, <2>3
<1> QED
  BY <1>g, <1>1, <1>2, <1>3, <1>4, <1>5, <1>6 DEF Good

LEMMA RowChange ==
    ASSUME NEW s, NEW t, NEW h, Good(s, h), NEW c \in Campaigns, NEW a \in Members(c),
           Frame(s, t, c, a), Changed(s, t, h, c, a), CohortOK(t, c)
    PROVE  Good(t, h)
<1>1. Members(c) \subseteq Agents
  BY MembersFacts
<1>2. CampaignFrame(s, t, c)
  BY <1>1 DEF Frame, CampaignFrame
<1>3. ASSUME NEW b \in Members(c), b # a
      PROVE  Changed(s, t, h, c, b)
  <2>1. /\ t.row[c][b] = s.row[c][b] /\ t.sequence[b] = s.sequence[b]
        /\ t.conn[b] = s.conn[b] /\ t.active[b] = s.active[b]
        /\ b \in t.fence <=> b \in s.fence
    BY <1>1, <1>3 DEF Frame
  <2>2. RowOK(c, b, s.row[c][b]) /\ SeqOK(s.row[c][b], s.sequence[b], h[b].floor)
    BY <1>1 DEF Good, RowsOK, SeqsOK
  <2>3. Separate => (b \in s.fence <=> s.row[c][b].cordoned)
    BY FenceIsRow
  <2> QED
    BY <2>1, <2>2, <2>3 DEF Changed
<1> QED
  BY <1>2, <1>3, CampaignChange

(* The campaigns' states are of no matter to the invariant.                *)
SameButCampaigns(s, t) ==
    /\ t \in Server /\ t.row = s.row /\ t.fence = s.fence /\ t.sequence = s.sequence
    /\ t.conn = s.conn /\ t.active = s.active

LEMMA CampaignStates ==
    ASSUME NEW s, NEW t, NEW h, Good(s, h), SameButCampaigns(s, t)
    PROVE  Good(t, h)
<1>1. CohortsOK(t)
  BY DEF Good, SameButCampaigns, CohortsOK, CohortOK, Out
<1>2. UniqueOK(t)
  BY DEF Good, SameButCampaigns, UniqueOK, ActiveIn
<1>3. FencesOK(t, h)
  BY DEF Good, SameButCampaigns, FencesOK, FenceOK
<1> QED
  BY <1>1, <1>2, <1>3 DEF Good, SameButCampaigns, RowsOK, SeqsOK, HostsOK, HostOK

LEMMA PauseRunningFacts ==
    ASSUME NEW s \in Server, NEW c \in Campaigns
    PROVE  SameButCampaigns(s, PauseRunning(s, c))
BY DEF SameButCampaigns, PauseRunning, Server

LEMMA PauseRunningGood ==
    ASSUME NEW s, NEW h, Good(s, h), NEW c \in Campaigns
    PROVE  Good(PauseRunning(s, c), h)
BY PauseRunningFacts, CampaignStates DEF Good

LEMMA FinalizeFacts ==
    ASSUME NEW s \in Server
    PROVE  SameButCampaigns(s, Finalize(s))
BY DEF SameButCampaigns, Finalize, Server

LEMMA FinalizeGood ==
    ASSUME NEW s, NEW h, Good(s, h)
    PROVE  Good(Finalize(s), h)
BY FinalizeFacts, CampaignStates DEF Good

LEMMA PutFacts ==
    ASSUME NEW s \in Server, NEW c \in Campaigns, NEW a \in Agents, NEW x \in Row
    PROVE  /\ Put(s, c, a, x) \in Server
           /\ Put(s, c, a, x).row[c][a] = x
           /\ \A d \in Campaigns, b \in Agents :
                d # c \/ b # a => Put(s, c, a, x).row[d][b] = s.row[d][b]
           /\ Put(s, c, a, x).campaign = s.campaign
           /\ Put(s, c, a, x).fence = s.fence
           /\ Put(s, c, a, x).sequence = s.sequence
           /\ Put(s, c, a, x).conn = s.conn
           /\ Put(s, c, a, x).active = s.active
<1>1. s = [campaign |-> s.campaign, row |-> s.row, fence |-> s.fence,
           sequence |-> s.sequence, conn |-> s.conn, active |-> s.active]
  BY DEF Server
<1>2. s.row \in [Campaigns -> [Agents -> Row]]
  BY DEF Server
<1>3. [s.row EXCEPT ![c][a] = x] \in [Campaigns -> [Agents -> Row]]
  BY <1>2
<1>4. Put(s, c, a, x).row = [s.row EXCEPT ![c][a] = x]
  BY DEF Put, Server
<1>5. /\ Put(s, c, a, x).campaign = s.campaign
      /\ Put(s, c, a, x).fence = s.fence
      /\ Put(s, c, a, x).sequence = s.sequence
      /\ Put(s, c, a, x).conn = s.conn
      /\ Put(s, c, a, x).active = s.active
  BY DEF Put, Server
<1>6. Put(s, c, a, x) \in Server
  BY <1>3 DEF Put, Server
<1> QED
  BY <1>2, <1>4, <1>5, <1>6

LEMMA FenceFacts ==
    ASSUME NEW s \in Server, NEW a \in Agents
    PROVE  /\ SetFence(s, a) \in Server /\ ClearFence(s, a) \in Server
           /\ SetFence(s, a).fence = s.fence \cup {a}
           /\ ClearFence(s, a).fence = s.fence \ {a}
           /\ SetFence(s, a).row = s.row /\ ClearFence(s, a).row = s.row
           /\ SetFence(s, a).campaign = s.campaign /\ ClearFence(s, a).campaign = s.campaign
           /\ SetFence(s, a).sequence = s.sequence /\ ClearFence(s, a).sequence = s.sequence
           /\ SetFence(s, a).conn = s.conn /\ ClearFence(s, a).conn = s.conn
           /\ SetFence(s, a).active = s.active /\ ClearFence(s, a).active = s.active
BY DEF SetFence, ClearFence, Server

LEMMA RowFields ==
    ASSUME NEW s \in Server, NEW c \in Campaigns, NEW a \in Agents
    PROVE  /\ s.row[c][a] \in Row /\ s.sequence[a] \in 0 .. MaxSequence
           /\ s.conn[a] \in Connection /\ s.active[a] \in 0 .. MaxActive
           /\ s.sequence[a] \in Nat /\ MaxSequence \in Nat /\ MaxGeneration \in Nat
BY CampaignAssumption DEF Server

(* A receipt accounts for every command signed so far.                     *)
LEMMA NothingLeft ==
    ASSUME NEW s, NEW h, Good(s, h), NEW c \in Campaigns, NEW a \in Agents,
           s.row[c][a].cordoned, s.row[c][a].result # NoBuild
    PROVE  Outs(h, a) = {}
<1>1. h[a].floor >= s.sequence[a] /\ s.sequence[a] \in Nat /\ h[a].floor \in Nat
  BY RowFields DEF Good, SeqsOK, SeqOK, Host
<1>2. \A k \in h[a].commands \cup h[a].mail : k.sequence \in Nat /\ k.sequence <= s.sequence[a]
  BY CampaignAssumption DEF Good, HostsOK, HostOK, Host, Command
<1> QED
  BY <1>1, <1>2 DEF Outs

(* One row, the fence and the connection of one agent are written.         *)
Edited(s, t, c, a, y) ==
    /\ t \in Server
    /\ t.row = Put(s, c, a, y).row
    /\ \A b \in Agents \ {a} : b \in t.fence <=> b \in s.fence
    /\ \A b \in Agents \ {a} : t.conn[b] = s.conn[b]
    /\ t.sequence = s.sequence /\ t.active = s.active
    /\ t.conn[a].phase # "none" => s.conn[a].phase # "none" /\ t.conn[a].build = s.conn[a].build

LEMMA Edit ==
    ASSUME NEW s, NEW t, NEW h, Good(s, h), NEW c \in Campaigns, NEW a \in Members(c),
           NEW x, x = s.row[c][a], NEW y \in Row, Edited(s, t, c, a, y),
           RowOK(c, a, y), SeqOK(y, s.sequence[a], h[a].floor),
           IsActive(y) => IsActive(x) \/ ActiveIn(s, a) = {},
           Separate => (a \in t.fence <=> y.cordoned),
           Sealed(x) => Sealed(y) \/ (Separate => Outs(h, a) = {}),
           Sealed(y) => Sealed(x) \/ s.active[a] = 0,
           CohortKept(x, y)
    PROVE  Good(t, h)
<1>1. a \in Agents /\ s \in Server /\ t \in Server
  BY MembersFacts DEF Good, Edited
<1>2. /\ t.row[c][a] = y
      /\ \A d \in Campaigns, b \in Agents : d # c \/ b # a => t.row[d][b] = s.row[d][b]
  BY <1>1, PutFacts DEF Edited
<1>3. Frame(s, t, c, a)
  BY <1>1, <1>2 DEF Frame, Edited
<1>4. Changed(s, t, h, c, a)
  BY <1>2 DEF Changed, Edited
<1>5. CohortOK(t, c)
  <2>1. \A b \in Agents : CohortKept(s.row[c][b], t.row[c][b])
    BY <1>2 DEF CohortKept
  <2> QED
    BY <2>1, CohortStep DEF Good, CohortsOK
<1> QED
  BY <1>3, <1>4, <1>5, RowChange

LEMMA BlockedGood ==
    ASSUME NEW s, NEW h, Good(s, h), NEW c \in Campaigns, NEW a \in Members(c),
           NEW r \in BOOLEAN, NEW x, x = s.row[c][a], IsActive(x), ~Draining(x)
    PROVE  Good(Put(s, c, a, [Blocked(x) EXCEPT !.reported = r]), h)
<1> DEFINE y == [Blocked(x) EXCEPT !.reported = r]
<1>1. a \in Agents /\ s \in Server
  BY MembersFacts DEF Good
<1>2. x \in Row /\ RowOK(c, a, x) /\ SeqOK(x, s.sequence[a], h[a].floor)
  BY <1>1, RowFields DEF Good, RowsOK, SeqsOK
<1>3. /\ y \in Row /\ y.state = "blocked" /\ y.action = "none" /\ y.cordoned = x.cordoned
      /\ y.authorization = x.authorization /\ y.sequence = x.sequence
      /\ y.activated = x.activated /\ y.result = x.result
  BY <1>2 DEF Blocked, Row, States
<1> HIDE DEF y
<1>4. RowOK(c, a, y)
  BY <1>2, <1>3 DEF RowOK, IsActive, Draining, NoRow
<1>5. SeqOK(y, s.sequence[a], h[a].floor)
  BY <1>2, <1>3 DEF SeqOK
<1>6. (Sealed(x) <=> Sealed(y)) /\ CohortKept(x, y)
  BY <1>3 DEF Sealed, Draining, CohortKept, IsActive
<1>7. Edited(s, Put(s, c, a, y), c, a, y)
  BY <1>1, <1>3, PutFacts DEF Edited
<1>8. Separate => (a \in Put(s, c, a, y).fence <=> y.cordoned)
  BY <1>1, <1>3, PutFacts, FenceIsRow
<1>9. Good(Put(s, c, a, y), h)
  BY <1>3, <1>4, <1>5, <1>6, <1>7, <1>8, Edit
<1> QED
  BY <1>9 DEF y

LEMMA BlockGood ==
    ASSUME NEW s, NEW h, Good(s, h), NEW c \in Campaigns, NEW a \in Members(c),
           IsActive(s.row[c][a]), ~Draining(s.row[c][a])
    PROVE  Good(Block(s, c, a), h)
<1> DEFINE x == s.row[c][a]
<1>1. x \in Row
  BY MembersFacts, RowFields DEF Good
<1>2. x.reported \in BOOLEAN /\ [Blocked(x) EXCEPT !.reported = x.reported] = Blocked(x)
  BY <1>1 DEF Blocked, Row
<1>3. Good(Put(s, c, a, Blocked(x)), h)
  BY <1>2, BlockedGood
<1> QED
  BY <1>3, PauseRunningGood DEF Block

(* A drain is undone, or a row is settled.                                 *)
LEMMA UnfenceGood ==
    ASSUME NEW s, NEW h, Good(s, h), NEW c \in Campaigns, NEW a \in Members(c),
           NEW state \in {"blocked", "staged", "failed", "succeeded"},
           NEW x, x = s.row[c][a], x.cordoned,
           \/ Draining(x)
           \/ state \in {"failed", "succeeded"} /\ x.result # NoBuild
    PROVE  Good(Unfence(s, c, a, state), h)
<1> DEFINE y == Returned(x, state)
           t == Unfence(s, c, a, state)
<1>1. a \in Agents /\ s \in Server
  BY MembersFacts DEF Good
<1>2. x \in Row /\ RowOK(c, a, x) /\ SeqOK(x, s.sequence[a], h[a].floor)
  BY <1>1, RowFields DEF Good, RowsOK, SeqsOK
<1>3. /\ y \in Row /\ y.state = state /\ y.action = "none" /\ ~y.cordoned
      /\ y.authorization = x.authorization /\ y.sequence = x.sequence
      /\ y.activated = x.activated /\ y.result = x.result
  <2>1. state \in States
    BY DEF States
  <2> HIDE DEF States
  <2> QED
    BY <1>2, <2>1 DEF Returned, Row
<1> HIDE DEF y
<1>4. RowOK(c, a, y)
  BY <1>2, <1>3 DEF RowOK, IsActive, Draining, NoRow
<1>5. SeqOK(y, s.sequence[a], h[a].floor)
  BY <1>3 DEF SeqOK
<1>6. IsActive(x)
  BY <1>2, CordonedIsActive
<1>7. Sealed(x) => Outs(h, a) = {}
  BY <1>1, NothingLeft DEF Sealed
<1>8. ~Sealed(y) /\ CohortKept(x, y)
  BY <1>2, <1>3 DEF Sealed, CohortKept, RowOK
<1>9. t = ClearFence(Put(s, c, a, y), a)
  BY DEF Unfence, y
<1>10. Put(s, c, a, y) \in Server
  BY <1>1, <1>3, PutFacts
<1>11. Edited(s, t, c, a, y) /\ a \notin t.fence
  <2>1. /\ t \in Server /\ t.row = Put(s, c, a, y).row /\ t.fence = s.fence \ {a}
        /\ t.sequence = s.sequence /\ t.conn = s.conn /\ t.active = s.active
    BY <1>1, <1>3, <1>9, <1>10, PutFacts, FenceFacts
  <2> QED
    BY <2>1 DEF Edited
<1> QED
  BY <1>3, <1>4, <1>5, <1>6, <1>7, <1>8, <1>11, Edit

LEMMA ConnGood ==
    ASSUME NEW s, NEW h, Good(s, h), NEW a \in Agents, NEW k \in Connection,
           k.phase # "none" => k.build = h[a].build
    PROVE  Good([s EXCEPT !.conn[a] = k], h)
<1> DEFINE t == [s EXCEPT !.conn[a] = k]
<1>1. s \in Server
  BY DEF Good
<1>2. /\ t \in Server /\ t.row = s.row /\ t.fence = s.fence /\ t.sequence = s.sequence
      /\ t.active = s.active /\ t.conn = [s.conn EXCEPT ![a] = k]
  BY <1>1 DEF Server
<1>3. \A b \in Agents : t.conn[b] = IF b = a THEN k ELSE s.conn[b]
  BY <1>1, <1>2 DEF Server
<1> HIDE DEF t
<1>4. HostsOK(t, h)
  BY <1>2, <1>3 DEF Good, HostsOK, HostOK
<1>5. CohortsOK(t)
  BY <1>2 DEF Good, CohortsOK, CohortOK, Out
<1>6. UniqueOK(t)
  BY <1>2 DEF Good, UniqueOK, ActiveIn
<1>7. FencesOK(t, h)
  BY <1>2 DEF Good, FencesOK, FenceOK
<1>8. Good(t, h)
  BY <1>2, <1>4, <1>5, <1>6, <1>7 DEF Good, RowsOK, SeqsOK
<1> QED
  BY <1>8 DEF t

LEMMA OldConnectionFacts ==
    ASSUME NEW k \in Connection
    PROVE  /\ OldConnection(k) \in Connection /\ OldConnection(k).build = k.build
           /\ OldConnection(k).phase # "none" <=> k.phase # "none"
BY DEF OldConnection, Connection

LEMMA OldConnectionGood ==
    ASSUME NEW s, NEW h, Good(s, h), NEW a \in Agents
    PROVE  Good([s EXCEPT !.conn[a] = OldConnection(@)], h)
<1>1. s \in Server
  BY DEF Good
<1>2. s.conn[a] \in Connection
  BY <1>1 DEF Server
<1>3. OldConnection(s.conn[a]).phase # "none" => OldConnection(s.conn[a]).build = h[a].build
  BY <1>2, OldConnectionFacts DEF Good, HostsOK, HostOK
<1>4. Good([s EXCEPT !.conn[a] = OldConnection(s.conn[a])], h)
  BY <1>2, <1>3, OldConnectionFacts, ConnGood
<1>5. [s EXCEPT !.conn[a] = OldConnection(@)] = [s EXCEPT !.conn[a] = OldConnection(s.conn[a])]
  BY <1>1
<1> QED
  BY <1>4, <1>5

LEMMA SettleGood ==
    ASSUME NEW s, NEW h, Good(s, h), NEW c \in Campaigns, NEW a \in Members(c),
           NEW state \in {"failed", "succeeded"},
           s.row[c][a].cordoned, s.row[c][a].result # NoBuild
    PROVE  Good(Settle(s, c, a, state), h)
<1>1. Good(Unfence(s, c, a, state), h)
  BY UnfenceGood
<1>2. a \in Agents
  BY MembersFacts
<1> QED
  BY <1>1, <1>2, OldConnectionGood DEF Settle

LEMMA IssueGood ==
    ASSUME NEW s, NEW h, Good(s, h), NEW c \in Campaigns, NEW a \in Members(c),
           NEW action \in {"activate", "rollback"},
           NEW x, x = s.row[c][a], x.cordoned, x.result = NoBuild,
           x.state = "failed" => action = "rollback",
           Sealed(x) \/ s.active[a] = 0
    PROVE  Good(Issue(s, c, a, action), h)
<1> DEFINE y == [x EXCEPT !.action = action, !.authorization = action,
                          !.sequence = s.sequence[a] + 1, !.unexpired = TRUE]
           u == Put(s, c, a, y)
           t == [u EXCEPT !.sequence[a] = @ + 1]
<1>1. a \in Agents /\ s \in Server
  BY MembersFacts DEF Good
<1>2. x \in Row /\ RowOK(c, a, x)
  BY <1>1, RowFields DEF Good, RowsOK
<1>3. CASE s.sequence[a] = MaxSequence
  BY <1>3 DEF Issue
<1>4. CASE s.sequence[a] # MaxSequence
  <2>1. s.sequence[a] + 1 \in 0 .. MaxSequence /\ s.sequence[a] \in Nat
    BY <1>1, <1>4, RowFields
  <2>2. /\ y \in Row /\ y.state = x.state /\ y.action = action /\ y.cordoned
        /\ y.authorization = action /\ y.sequence = s.sequence[a] + 1
        /\ y.activated = x.activated /\ y.result = NoBuild
    BY <1>2, <2>1 DEF Row
  <2>3. /\ u \in Server /\ u.row[c][a] = y
        /\ \A d \in Campaigns, b \in Agents : d # c \/ b # a => u.row[d][b] = s.row[d][b]
        /\ u.fence = s.fence /\ u.sequence = s.sequence /\ u.conn = s.conn
        /\ u.active = s.active
    BY <1>1, <2>2, PutFacts
  <2> HIDE DEF y, u
  <2>4. /\ t \in Server /\ t.row = u.row /\ t.fence = u.fence /\ t.conn = u.conn
        /\ t.active = u.active /\ t.sequence = [u.sequence EXCEPT ![a] = @ + 1]
    BY <1>1, <2>1, <2>3 DEF Server
  <2>5. t.sequence[a] = s.sequence[a] + 1 /\ \A b \in Agents \ {a} : t.sequence[b] = s.sequence[b]
    BY <1>1, <2>3, <2>4 DEF Server
  <2> HIDE DEF t
  <2>6. Frame(s, t, c, a)
    BY <1>1, <2>3, <2>4, <2>5 DEF Frame
  <2>7. RowOK(c, a, y)
    <3>1. c # NoBuild
      BY CampaignAssumption DEF NoBuild
    <3> QED
      BY <1>2, <2>2, <3>1 DEF RowOK, IsActive, Draining, NoRow
  <2>8. SeqOK(y, t.sequence[a], h[a].floor)
    BY <2>1, <2>2, <2>5 DEF SeqOK
  <2>9. IsActive(x)
    BY <1>2, CordonedIsActive
  <2>10. Sealed(y)
    BY <2>2 DEF Sealed, Draining
  <2>11. Separate => (a \in t.fence <=> y.cordoned)
    BY <2>2, <2>3, <2>4, FenceIsRow
  <2>12. t.conn[a].phase # "none" => s.conn[a].phase # "none" /\ t.conn[a].build = s.conn[a].build
    BY <2>3, <2>4
  <2>13. t.row[c][a] = y /\ t.active[a] = s.active[a] /\ t.sequence[a] > s.sequence[a]
    BY <2>1, <2>3, <2>4, <2>5
  <2>14. Changed(s, t, h, c, a)
    BY <2>7, <2>8, <2>9, <2>10, <2>11, <2>12, <2>13 DEF Changed
  <2>15. CohortOK(t, c)
    <3>1. \A b \in Agents : CohortKept(s.row[c][b], t.row[c][b])
      BY <2>2, <2>3, <2>4 DEF CohortKept
    <3> QED
      BY <3>1, CohortStep DEF Good, CohortsOK
  <2>16. Good(t, h)
    BY <2>6, <2>14, <2>15, RowChange
  <2> QED
    BY <1>4, <2>16 DEF Issue, t, u, y
<1> QED
  BY <1>3, <1>4

LEMMA AuthorizeDrainedGood ==
    ASSUME NEW s, NEW h, Good(s, h), NEW c \in Campaigns, NEW a \in Members(c),
           NEW late \in BOOLEAN, NEW up
    PROVE  Good(AuthorizeDrained(s, c, a, late, up), h)
<1>1. CASE ~Draining(s.row[c][a]) \/ s.campaign[c] # "running"
  BY <1>1 DEF AuthorizeDrained
<1>2. CASE Draining(s.row[c][a]) /\ s.campaign[c] = "running"
  <2>1. s.row[c][a].cordoned
    BY <1>2 DEF Draining
  <2>2. Good(PauseRunning(Unfence(s, c, a, "blocked"), c), h)
    BY <1>2, <2>1, UnfenceGood, PauseRunningGood
  <2>3. Good(PauseRunning(Unfence(s, c, a, "staged"), c), h)
    BY <1>2, <2>1, UnfenceGood, PauseRunningGood
  <2>4. ASSUME Drained(s, a)
        PROVE  Good(Issue(s, c, a, "activate"), h)
    <3>1. s.row[c][a].result = NoBuild /\ s.row[c][a].state # "failed" /\ s.active[a] = 0
      BY <1>2, <2>4, MembersFacts DEF Good, RowsOK, RowOK, Draining, Drained
    <3> QED
      BY <2>1, <3>1, IssueGood
  <2> QED
    BY <1>2, <2>2, <2>3, <2>4 DEF AuthorizeDrained
<1> QED
  BY <1>1, <1>2

(* An agent is taken out of service only with a place left for it.         *)
LEMMA CordonGood ==
    ASSUME NEW s, NEW h, Good(s, h), NEW c \in Campaigns, NEW a \in Members(c),
           NEW x, x = s.row[c][a], x.state = "staged",
           Hindrances(s, c, a) = {}, ~(Cardinality(Unavailable(s, c)) >= InFlightLimit(c, a))
    PROVE  Good(SetFence(Put(s, c, a, Cordoned(x)), a), h)
<1> DEFINE y == Cordoned(x)
           u == Put(s, c, a, y)
           t == SetFence(u, a)
<1>1. a \in Agents /\ s \in Server
  BY MembersFacts DEF Good
<1>2. x \in Row /\ RowOK(c, a, x)
  BY <1>1, RowFields DEF Good, RowsOK
<1>3. /\ y \in Row /\ y.state = "cordoned" /\ y.action = "none" /\ y.cordoned
      /\ y.authorization = "none" /\ y.activated = x.activated /\ y.result = x.result
  <2>1. "cordoned" \in States /\ 0 \in 0 .. MaxSequence
    BY CampaignAssumption DEF States
  <2> HIDE DEF States
  <2> QED
    BY <1>2, <2>1 DEF Cordoned, Row
<1>4. ~x.cordoned /\ IsActive(x)
  BY <1>2 DEF RowOK, IsActive
<1>5. RowOK(c, a, y)
  BY <1>2, <1>3, <1>4 DEF RowOK, IsActive, Draining, NoRow
<1>6. /\ u \in Server /\ u.row[c][a] = y
      /\ \A d \in Campaigns, b \in Agents : d # c \/ b # a => u.row[d][b] = s.row[d][b]
      /\ u.fence = s.fence /\ u.sequence = s.sequence /\ u.conn = s.conn
      /\ u.active = s.active
  BY <1>1, <1>3, PutFacts
<1>7. /\ t \in Server /\ t.row = u.row /\ t.fence = s.fence \cup {a}
      /\ t.sequence = s.sequence /\ t.conn = s.conn /\ t.active = s.active
  BY <1>1, <1>6, FenceFacts
<1> HIDE DEF y, u, t
<1>8. Frame(s, t, c, a)
  BY <1>1, <1>6, <1>7 DEF Frame
<1>9. Changed(s, t, h, c, a)
  <2>1. ~Sealed(y) /\ ~Sealed(x)
    BY <1>3, <1>4 DEF Sealed, Draining
  <2>2. SeqOK(y, t.sequence[a], h[a].floor)
    BY <1>2, <1>3, <1>4 DEF SeqOK, RowOK
  <2>3. t.row[c][a] = y /\ a \in t.fence
    BY <1>6, <1>7
  <2> QED
    BY <1>3, <1>4, <1>5, <1>7, <2>1, <2>2, <2>3 DEF Changed
<1>10. CohortOK(t, c)
  <2>1. Unavailable(s, c) \subseteq Members(c) /\ Out(s, c) \subseteq Unavailable(s, c)
    BY DEF Unavailable, Out
  <2>2. IsFiniteSet(Unavailable(s, c)) /\ Cardinality(Unavailable(s, c)) \in Nat
    BY <2>1, MembersFacts, FS_Subset, FS_CardinalityType
  <2>3. Cardinality(Out(s, c)) <= Cardinality(Unavailable(s, c)) /\ Cardinality(Out(s, c)) \in Nat
    BY <2>1, <2>2, FS_Subset, OutFinite
  <2>4. InFlightLimit(c, a) \in Nat /\ InFlightLimit(c, a) <= MaxUnavailable
    <3>1. IsFiniteSet(Cohort(c, a))
      BY MembersFacts, FS_Subset DEF Cohort
    <3>2. Cardinality(Cohort(c, a)) \in Nat /\ MaxUnavailable \in Nat
      BY <3>1, FS_CardinalityType, CampaignAssumption
    <3> QED
      BY <3>2 DEF InFlightLimit
  <2>5. Out(t, c) = Out(s, c) \cup {a}
    BY <1>1, <1>3, <1>6, <1>7, MembersFacts DEF Out
  <2>6. Cardinality(Out(t, c)) <= Cardinality(Out(s, c)) + 1
    <3>1. IsFiniteSet(Out(s, c))
      BY OutFinite
    <3>2. \/ Cardinality(Out(s, c) \cup {a}) = Cardinality(Out(s, c))
          \/ Cardinality(Out(s, c) \cup {a}) = Cardinality(Out(s, c)) + 1
      BY <3>1, FS_AddElement
    <3> QED
      BY <2>3, <2>5, <3>2
  <2>7. Cardinality(Out(t, c)) <= MaxUnavailable
    BY <2>2, <2>3, <2>4, <2>6, OutFinite, CampaignAssumption
  <2>8. \A b \in Earlier(c, a) : s.row[c][b].state = "succeeded"
    BY DEF Hindrances
  <2>9. \A b \in Agents : s.row[c][b].state = "succeeded" => t.row[c][b].state = "succeeded"
    BY <1>6, <1>7
  <2>10. ASSUME NEW b \in Out(t, c), NEW d \in Earlier(c, b)
         PROVE  t.row[c][d].state = "succeeded"
    BY <2>5, <2>8, <2>9, MembersFacts DEF Good, CohortsOK, CohortOK, Earlier
  <2> QED
    BY <2>7, <2>10 DEF CohortOK
<1>11. Good(t, h)
  BY <1>8, <1>9, <1>10, RowChange
<1> QED
  BY <1>11 DEF t, u, y

LEMMA TryAdvanceGood ==
    ASSUME NEW s, NEW h, Good(s, h), NEW c \in Campaigns, NEW a \in Members(c),
           NEW late \in BOOLEAN, NEW up
    PROVE  Good(TryAdvance(s, c, a, late, up), h)
<1>1. Good(AuthorizeDrained(s, c, a, late, up), h) /\ Good(PauseRunning(s, c), h)
  BY AuthorizeDrainedGood, PauseRunningGood
<1>2. ASSUME s.row[c][a].state = "staged", Hindrances(s, c, a) = {},
             ~(Cardinality(Unavailable(s, c)) >= InFlightLimit(c, a))
      PROVE  Good(AuthorizeDrained(SetFence(Put(s, c, a, Cordoned(s.row[c][a])), a),
                                   c, a, FALSE, up), h)
  BY <1>2, CordonGood, AuthorizeDrainedGood
<1> QED
  BY <1>1, <1>2 DEF TryAdvance

(* Rows of one campaign written, and nothing else.                         *)
LEMMA ReleaseNextCohortFacts ==
    ASSUME NEW s \in Server, NEW c \in Campaigns
    PROVE  /\ ReleaseNextCohort(s, c) \in Server
           /\ ReleaseNextCohort(s, c).campaign = s.campaign
           /\ ReleaseNextCohort(s, c).fence = s.fence
           /\ ReleaseNextCohort(s, c).sequence = s.sequence
           /\ ReleaseNextCohort(s, c).conn = s.conn
           /\ ReleaseNextCohort(s, c).active = s.active
           /\ \A d \in Campaigns, b \in Agents :
                \/ ReleaseNextCohort(s, c).row[d][b] = s.row[d][b]
                \/ /\ d = c /\ b \in Members(c)
                   /\ s.row[c][b].state = "pending" /\ s.row[c][b].action = "none"
                   /\ ReleaseNextCohort(s, c).row[c][b] = [s.row[c][b] EXCEPT !.action = "stage"]
<1> DEFINE open == {b \in Members(c) : s.row[c][b].state # "succeeded"}
           moved(b) == /\ b \in Cohort(c, FirstOf(c, open))
                       /\ s.row[c][b].state = "pending" /\ s.row[c][b].action = "none"
           rows == [b \in Agents |-> IF moved(b) THEN [s.row[c][b] EXCEPT !.action = "stage"]
                                                 ELSE s.row[c][b]]
           t == ReleaseNextCohort(s, c)
<1>1. CASE s.campaign[c] # "running" \/ open = {}
  <2>1. t = s
    BY <1>1 DEF ReleaseNextCohort
  <2> QED
    BY <2>1
<1>2. CASE ~(s.campaign[c] # "running" \/ open = {})
  <2>1. t = [s EXCEPT !.row[c] = rows]
    BY <1>2 DEF ReleaseNextCohort
  <2>2. rows \in [Agents -> Row]
    BY RowFields DEF Row
  <2>3. \A b \in Agents : moved(b) => b \in Members(c)
    BY DEF Cohort
  <2>4. \A b \in Agents : \/ rows[b] = s.row[c][b]
                          \/ /\ b \in Members(c)
                             /\ s.row[c][b].state = "pending" /\ s.row[c][b].action = "none"
                             /\ rows[b] = [s.row[c][b] EXCEPT !.action = "stage"]
    BY <2>3
  <2> HIDE DEF rows, moved, open
  <2>5. /\ t \in Server /\ t.campaign = s.campaign /\ t.fence = s.fence
        /\ t.sequence = s.sequence /\ t.conn = s.conn /\ t.active = s.active
        /\ t.row = [s.row EXCEPT ![c] = rows]
    <3>1. [s.row EXCEPT ![c] = rows] \in [Campaigns -> [Agents -> Row]]
      BY <2>2 DEF Server
    <3> HIDE DEF Row
    <3> QED
      BY <2>1, <3>1 DEF Server
  <2>6. \A d \in Campaigns : t.row[d] = IF d = c THEN rows ELSE s.row[d]
    BY <2>5 DEF Server
  <2> HIDE DEF t
  <2>7. \A d \in Campaigns, b \in Agents :
           \/ t.row[d][b] = s.row[d][b]
           \/ /\ d = c /\ b \in Members(c)
              /\ s.row[c][b].state = "pending" /\ s.row[c][b].action = "none"
              /\ t.row[c][b] = [s.row[c][b] EXCEPT !.action = "stage"]
    BY <2>4, <2>6
  <2> QED
    BY <2>5, <2>7 DEF t
<1> QED
  BY <1>1, <1>2

LEMMA ReleaseNextCohortGood ==
    ASSUME NEW s, NEW h, Good(s, h), NEW c \in Campaigns
    PROVE  Good(ReleaseNextCohort(s, c), h)
<1> DEFINE t == ReleaseNextCohort(s, c)
<1>1. s \in Server
  BY DEF Good
<1>2. /\ t \in Server /\ t.fence = s.fence /\ t.sequence = s.sequence
      /\ t.conn = s.conn /\ t.active = s.active
      /\ \A d \in Campaigns, b \in Agents :
           \/ t.row[d][b] = s.row[d][b]
           \/ /\ d = c /\ b \in Members(c)
              /\ s.row[c][b].state = "pending" /\ s.row[c][b].action = "none"
              /\ t.row[c][b] = [s.row[c][b] EXCEPT !.action = "stage"]
  BY <1>1, ReleaseNextCohortFacts
<1> HIDE DEF t
<1>3. CampaignFrame(s, t, c)
  BY <1>1, <1>2 DEF CampaignFrame
<1>4. ASSUME NEW b \in Members(c)
      PROVE  Changed(s, t, h, c, b) /\ CohortKept(s.row[c][b], t.row[c][b])
  <2> DEFINE x == s.row[c][b]
             y == t.row[c][b]
  <2>1. b \in Agents
    BY MembersFacts
  <2>2. x \in Row /\ RowOK(c, b, x) /\ SeqOK(x, s.sequence[b], h[b].floor)
    BY <1>1, <2>1, RowFields DEF Good, RowsOK, SeqsOK
  <2>3. Separate => (b \in s.fence <=> x.cordoned)
    BY FenceIsRow
  <2>4. CASE y = x
    BY <1>2, <2>2, <2>3, <2>4 DEF Changed, CohortKept
  <2>5. CASE y # x
    <3>1. /\ x.state = "pending" /\ y.state = "pending" /\ y.action = "stage"
          /\ y.cordoned = x.cordoned /\ y.authorization = x.authorization
          /\ y.activated = x.activated /\ y.result = x.result /\ y.sequence = x.sequence
      <4>1. x.state = "pending" /\ y = [x EXCEPT !.action = "stage"]
        BY <1>2, <2>1, <2>5
      <4> HIDE DEF x, y
      <4> QED
        BY <2>2, <4>1 DEF Row
    <3> HIDE DEF x, y
    <3>2. ~x.cordoned /\ IsActive(x)
      BY <2>2, <3>1 DEF RowOK, IsActive
    <3>3. RowOK(c, b, y)
      BY <2>2, <3>1, <3>2 DEF RowOK, IsActive, Draining, NoRow
    <3>4. SeqOK(y, t.sequence[b], h[b].floor) /\ ~Sealed(x) /\ ~Sealed(y)
      BY <3>1, <3>2 DEF SeqOK, Sealed
    <3>5. CohortKept(x, y)
      BY <3>1 DEF CohortKept
    <3> QED
      BY <1>2, <2>3, <3>1, <3>2, <3>3, <3>4, <3>5 DEF Changed, x, y
  <2> QED
    BY <2>4, <2>5
<1>5. \A b \in Agents : CohortKept(s.row[c][b], t.row[c][b])
  <2>1. ASSUME NEW b \in Agents \ Members(c)
        PROVE  CohortKept(s.row[c][b], t.row[c][b])
    BY <1>3 DEF CampaignFrame, CohortKept
  <2> QED
    BY <1>4, <2>1
<1>6. CohortOK(t, c)
  BY <1>5, CohortStep DEF Good, CohortsOK
<1>7. Good(t, h)
  BY <1>3, <1>4, <1>6, CampaignChange
<1> QED
  BY <1>7 DEF t

LEMMA ReconcileRowGood ==
    ASSUME NEW s, NEW h, Good(s, h), NEW c \in Campaigns, NEW a \in Members(c),
           NEW late \in BOOLEAN, NEW dwelt \in BOOLEAN
    PROVE  Good(ReconcileRow(s, c, a, late, dwelt), h)
<1> DEFINE x == s.row[c][a]
<1>1. ASSUME AwaitsEvidence(x)
      PROVE  Good(Block(s, c, a), h)
  BY <1>1, BlockGood DEF AwaitsEvidence, IsActive, Draining
<1>2. ASSUME EvidenceComplete(s, c, a), x.cordoned
      PROVE  /\ Good(Settle(s, c, a, "failed"), h)
             /\ Good(Finalize(ReleaseNextCohort(Settle(s, c, a, "succeeded"), c)), h)
  <2>1. x.result # NoBuild
    BY <1>2 DEF EvidenceComplete
  <2> QED
    BY <1>2, <2>1, SettleGood, ReleaseNextCohortGood, FinalizeGood
<1> QED
  BY <1>1, <1>2 DEF ReconcileRow, Succeeds

LEMMA ActiveIsMember ==
    ASSUME NEW s, NEW h, Good(s, h), NEW a \in Agents, NEW c \in ActiveIn(s, a)
    PROVE  c \in Campaigns /\ a \in Members(c) /\ IsActive(s.row[c][a])
BY DEF Good, RowsOK, RowOK, ActiveIn, IsActive, NoRow

LEMMA ReconcileAgentGood ==
    ASSUME NEW s, NEW h, Good(s, h), NEW a \in Agents,
           NEW late \in BOOLEAN, NEW dwelt \in BOOLEAN
    PROVE  Good(ReconcileAgent(s, a, late, dwelt), h)
<1>1. CASE ActiveIn(s, a) = {}
  BY <1>1 DEF ReconcileAgent
<1>2. CASE ActiveIn(s, a) # {}
  <2>1. PICK c \in ActiveIn(s, a) : c = CHOOSE d \in ActiveIn(s, a) : TRUE
    BY <1>2
  <2> QED
    BY <1>2, <2>1, ActiveIsMember, ReconcileRowGood DEF ReconcileAgent
<1> QED
  BY <1>1, <1>2

(***************************************************************************)
(* Connections, requests and hosts                                         *)
(***************************************************************************)
LEMMA TrafficGood ==
    ASSUME NEW s, NEW t, NEW h, Good(s, h), t \in Server,
           t.row = s.row, t.sequence = s.sequence,
           Separate => t.fence = s.fence,
           \A a \in Agents : t.conn[a].phase # "none" => t.conn[a].build = h[a].build,
           \A a \in Agents : a \in s.fence /\ s.active[a] = 0 => t.active[a] = 0
    PROVE  Good(t, h)
<1>1. CohortsOK(t)
  BY DEF Good, CohortsOK, CohortOK, Out
<1>2. UniqueOK(t)
  BY DEF Good, UniqueOK, ActiveIn
<1>3. FencesOK(t, h)
  <2> SUFFICES ASSUME Separate, NEW a \in Agents
               PROVE  FenceOK(t, h, a)
    BY DEF FencesOK
  <2>1. FenceOK(s, h, a)
    BY DEF Good, FencesOK
  <2>2. \A c \in Campaigns : Sealed(t.row[c][a]) => t.active[a] = 0
    BY <2>1 DEF FenceOK, Sealed
  <2> QED
    BY <2>1, <2>2 DEF FenceOK
<1>4. HostsOK(t, h)
  BY DEF Good, HostsOK, HostOK
<1> QED
  BY <1>1, <1>2, <1>3, <1>4 DEF Good, RowsOK, SeqsOK

LEMMA DroppedFacts ==
    ASSUME NEW s \in Server, NEW a \in Agents
    PROVE  /\ Dropped(s, a) \in Server /\ Dropped(s, a).campaign = s.campaign
           /\ Dropped(s, a).row = s.row /\ Dropped(s, a).fence = s.fence
           /\ Dropped(s, a).sequence = s.sequence
           /\ \A b \in Agents : Dropped(s, a).conn[b] = IF b = a THEN NoConnection ELSE s.conn[b]
           /\ \A b \in Agents : Dropped(s, a).active[b] = IF b = a THEN 0 ELSE s.active[b]
<1>1. NoConnection \in Connection /\ 0 \in 0 .. MaxActive
  BY CampaignAssumption DEF NoConnection, Connection, Builds
<1> QED
  BY <1>1 DEF Dropped, Server

LEMMA DroppedGood ==
    ASSUME NEW s, NEW h, Good(s, h), NEW a \in Agents
    PROVE  Good(Dropped(s, a), h)
<1>1. s \in Server
  BY DEF Good
<1>2. NoConnection.phase = "none"
  BY DEF NoConnection
<1>3. \A b \in Agents : s.conn[b].phase # "none" => s.conn[b].build = h[b].build
  BY DEF Good, HostsOK, HostOK
<1> QED
  BY <1>1, <1>2, <1>3, DroppedFacts, TrafficGood

(* One host changes; what it may still execute was sent to a sealed agent. *)
LEMMA HostChange ==
    ASSUME NEW s, NEW h, NEW g, Good(s, h), NEW a \in Agents, g \in [Agents -> Host],
           \A b \in Agents \ {a} : g[b] = h[b],
           g[a].floor >= h[a].floor,
           HostOK(s, g, a),
           Separate => \A k \in Outs(g, a) : Sealed(s.row[k.campaign][a])
    PROVE  Good(s, g)
<1>1. HostsOK(s, g)
  BY DEF Good, HostsOK, HostOK
<1>2. SeqsOK(s, g)
  <2> SUFFICES ASSUME NEW c \in Campaigns, NEW b \in Agents
               PROVE  SeqOK(s.row[c][b], s.sequence[b], g[b].floor)
    BY DEF SeqsOK
  <2>1. SeqOK(s.row[c][b], s.sequence[b], h[b].floor)
    BY DEF Good, SeqsOK
  <2>2. g[b].floor \in Nat /\ h[b].floor \in Nat
    BY CampaignAssumption DEF Good, Host
  <2>4. g[b].floor >= h[b].floor
    BY <2>2
  <2>3. s.row[c][b].sequence \in Nat
    BY RowFields DEF Good, Row
  <2> QED
    BY <2>1, <2>2, <2>3, <2>4 DEF SeqOK
<1>3. FencesOK(s, g)
  <2> SUFFICES ASSUME Separate, NEW b \in Agents
               PROVE  FenceOK(s, g, b)
    BY DEF FencesOK
  <2>1. FenceOK(s, h, b)
    BY DEF Good, FencesOK
  <2>2. CASE b # a
    BY <2>1, <2>2 DEF FenceOK, Outs
  <2>3. CASE b = a
    BY <2>1, <2>3 DEF FenceOK
  <2> QED
    BY <2>2, <2>3
<1> QED
  BY <1>1, <1>2, <1>3 DEF Good

(* Commands are only taken away, and what is reported is accounted for.    *)
LEMMA FewerCommands ==
    ASSUME NEW s, NEW h, NEW g, Good(s, h), NEW a \in Agents, g \in [Agents -> Host],
           \A b \in Agents \ {a} : g[b] = h[b],
           g[a].floor >= h[a].floor,
           g[a].commands \cup g[a].mail \subseteq h[a].commands \cup h[a].mail,
           \A o \in g[a].outcome : o.kind # "failed" => o.sequence <= g[a].floor,
           s.conn[a].phase # "none" => g[a].build = h[a].build
    PROVE  Good(s, g)
<1>1. HostOK(s, h, a)
  BY DEF Good, HostsOK
<1>2. HostOK(s, g, a)
  BY <1>1 DEF HostOK
<1>3. Outs(g, a) \subseteq Outs(h, a)
  <2>1. g[a].floor \in Nat /\ h[a].floor \in Nat
    BY CampaignAssumption DEF Good, Host
  <2>2. \A k \in h[a].commands \cup h[a].mail : k.sequence \in Nat
    BY CampaignAssumption DEF Good, Host, Command
  <2> QED
    BY <2>1, <2>2 DEF Outs
<1>4. Separate => \A k \in Outs(g, a) : Sealed(s.row[k.campaign][a])
  BY <1>3 DEF Good, FencesOK, FenceOK
<1> QED
  BY <1>2, <1>4, HostChange

LEMMA BeginRequestGood ==
    ASSUME NEW a \in Agents, Good(srv, host), BeginRequest(a)
    PROVE  Good(srv', host')
<1>1. srv \in Server /\ host' = host /\ a \notin srv.fence
  BY DEF Good, BeginRequest
<1>2. srv.active[a] + 1 \in 0 .. MaxActive
  BY <1>1, CampaignAssumption DEF BeginRequest, Server
<1>3. /\ srv' \in Server /\ srv'.row = srv.row /\ srv'.sequence = srv.sequence
      /\ srv'.fence = srv.fence /\ srv'.conn = srv.conn
      /\ \A b \in Agents \ {a} : srv'.active[b] = srv.active[b]
  BY <1>1, <1>2 DEF BeginRequest, Server
<1>4. \A b \in Agents : srv'.conn[b].phase # "none" => srv'.conn[b].build = host[b].build
  BY <1>3 DEF Good, HostsOK, HostOK
<1> QED
  BY <1>1, <1>3, <1>4, TrafficGood

LEMMA EndRequestGood ==
    ASSUME NEW a \in Agents, Good(srv, host), EndRequest(a)
    PROVE  Good(srv', host')
<1>1. srv \in Server /\ host' = host /\ srv.active[a] # 0
  BY DEF Good, EndRequest, Server
<1>2. srv.active[a] - 1 \in 0 .. MaxActive
  BY <1>1, CampaignAssumption DEF EndRequest, Server
<1>3. /\ srv' \in Server /\ srv'.row = srv.row /\ srv'.sequence = srv.sequence
      /\ srv'.fence = srv.fence /\ srv'.conn = srv.conn
      /\ \A b \in Agents \ {a} : srv'.active[b] = srv.active[b]
  BY <1>1, <1>2 DEF EndRequest, Server
<1>4. \A b \in Agents : srv'.conn[b].phase # "none" => srv'.conn[b].build = host[b].build
  BY <1>3 DEF Good, HostsOK, HostOK
<1> QED
  BY <1>1, <1>3, <1>4, TrafficGood

LEMMA ConnectGood ==
    ASSUME NEW a \in Agents, Good(srv, host), Connect(a)
    PROVE  Good(srv', host')
<1> DEFINE k == [phase |-> IF \E c \in ActiveIn(srv, a) : srv.row[c][a].result # NoBuild
                           THEN "new" ELSE "old",
                 build |-> host[a].build]
<1>1. k \in Connection /\ k.build = host[a].build
  BY DEF Good, Host, Connection
<1>2. srv' = [Dropped(srv, a) EXCEPT !.conn[a] = k] /\ host' = host
  BY DEF Connect
<1>3. Good(Dropped(srv, a), host)
  BY DroppedGood
<1> HIDE DEF k
<1> QED
  BY <1>1, <1>2, <1>3, ConnGood

LEMMA RestartGood ==
    ASSUME Good(srv, host), Restart
    PROVE  Good(srv', host')
<1>1. srv \in Server /\ host' = host
  BY DEF Good, Restart
<1>2. NoConnection \in Connection /\ NoConnection.phase = "none" /\ 0 \in 0 .. MaxActive
  BY CampaignAssumption DEF NoConnection, Connection, Builds
<1>3. /\ srv' \in Server /\ srv'.row = srv.row /\ srv'.sequence = srv.sequence
      /\ srv'.fence = {a \in Agents : \E c \in ActiveIn(srv, a) : srv.row[c][a].cordoned}
      /\ \A a \in Agents : srv'.conn[a] = NoConnection /\ srv'.active[a] = 0
  BY <1>1, <1>2 DEF Restart, Server
<1>4. ASSUME Separate
      PROVE  srv'.fence = srv.fence
  <2>1. \A c \in Campaigns, a \in Agents : srv.row[c][a].cordoned => c \in ActiveIn(srv, a)
    BY <1>1, RowFields, CordonedIsActive DEF Good, RowsOK, ActiveIn
  <2>2. \A a \in Agents : a \in srv.fence <=> \E c \in Campaigns : srv.row[c][a].cordoned
    BY <1>4 DEF Good, FencesOK, FenceOK
  <2>3. srv.fence \subseteq Agents
    BY <1>1 DEF Server
  <2> QED
    BY <1>3, <2>1, <2>2, <2>3 DEF ActiveIn
<1>5. \A a \in Agents : srv'.conn[a].phase # "none" => srv'.conn[a].build = host[a].build
  BY <1>2, <1>3
<1>6. \A a \in Agents : a \in srv.fence /\ srv.active[a] = 0 => srv'.active[a] = 0
  BY <1>3
<1>7. Good(srv', host)
  <2>1. srv' \in Server /\ srv'.row = srv.row /\ srv'.sequence = srv.sequence
    BY <1>3
  <2>2. Separate => srv'.fence = srv.fence
    BY <1>4
  <2> QED
    BY <2>1, <2>2, <1>5, <1>6, TrafficGood
<1> QED
  BY <1>1, <1>7

LEMMA HostFields ==
    ASSUME NEW h \in [Agents -> Host], NEW a \in Agents
    PROVE  /\ h[a] \in Host /\ h[a].build \in Builds /\ h[a].previous \in Builds
           /\ h[a].floor \in 0 .. MaxSequence /\ h[a].floor \in Nat
           /\ h[a].commands \subseteq Command /\ h[a].mail \subseteq Command
           /\ h[a].outcome \subseteq Outcome
BY CampaignAssumption DEF Host

LEMMA DeliverGood ==
    ASSUME NEW a \in Agents, Good(srv, host), Deliver(a)
    PROVE  Good(srv', host')
<1>1. srv' = srv /\ host \in [Agents -> Host]
  BY DEF Good, Deliver
<1>2. /\ host' \in [Agents -> Host] /\ \A b \in Agents \ {a} : host'[b] = host[b]
      /\ host'[a].floor = host[a].floor /\ host'[a].build = host[a].build
      /\ host'[a].outcome = host[a].outcome
      /\ host'[a].commands = host[a].commands \cup host[a].mail /\ host'[a].mail = {}
  BY <1>1, HostFields DEF Deliver, Host
<1>3. \A o \in host[a].outcome : o.kind # "failed" => o.sequence <= host[a].floor
  BY DEF Good, HostsOK, HostOK
<1>4. host'[a].floor >= host[a].floor
  BY <1>1, <1>2, HostFields
<1>5. Good(srv, host')
  BY <1>2, <1>3, <1>4, FewerCommands
<1> QED
  BY <1>1, <1>5

LEMMA OutcomeOfFacts ==
    ASSUME NEW k \in Command, NEW kind \in {"done", "failed"}, NEW r \in Builds
    PROVE  /\ OutcomeOf(k, kind, r) \in Outcome
           /\ OutcomeOf(k, kind, r).kind = kind /\ OutcomeOf(k, kind, r).sequence = k.sequence
BY DEF OutcomeOf, Command, Outcome

LEMMA ExecuteGood ==
    ASSUME NEW a \in Agents, NEW k \in host[a].commands, Good(srv, host), Execute(a, k)
    PROVE  Good(srv', host')
<1> DEFINE switches == k.action = "activate" \/ host[a].build = k.campaign
           build == IF k.action = "activate" THEN k.campaign
                    ELSE IF switches THEN host[a].previous ELSE host[a].build
           previous == IF switches THEN host[a].build ELSE host[a].previous
           commands == {l \in host[a].commands : l.sequence > k.sequence}
           outcome == {OutcomeOf(k, "done", build)}
<1>1. /\ srv' = Dropped(srv, a) /\ srv \in Server /\ host \in [Agents -> Host]
      /\ k.sequence > host[a].floor
  BY DEF Good, Execute
<1>2. host' = [host EXCEPT ![a].build = build, ![a].previous = previous,
                 ![a].floor = k.sequence, ![a].commands = commands, ![a].outcome = outcome]
  BY <1>1 DEF Execute
<1>3. k \in Command /\ k.sequence \in 0 .. MaxSequence /\ k.sequence \in Nat
      /\ k.campaign \in Builds
  BY <1>1, HostFields, CampaignAssumption DEF Command, Builds
<1>4. build \in Builds /\ previous \in Builds
  BY <1>1, <1>3, HostFields
<1>5. /\ commands \subseteq Command /\ commands \subseteq host[a].commands
      /\ outcome \subseteq Outcome
      /\ \A o \in outcome : o.sequence = k.sequence
  BY <1>1, <1>3, <1>4, HostFields, OutcomeOfFacts
<1> HIDE DEF build, previous, commands, outcome
<1>6. /\ host' \in [Agents -> Host] /\ \A b \in Agents \ {a} : host'[b] = host[b]
      /\ host'[a].floor = k.sequence /\ host'[a].build = build
      /\ host'[a].outcome = outcome /\ host'[a].commands = commands
      /\ host'[a].mail = host[a].mail
  BY <1>1, <1>2, <1>3, <1>4, <1>5 DEF Host
<1>7. Good(Dropped(srv, a), host) /\ Dropped(srv, a).conn[a].phase = "none"
  BY <1>1, DroppedGood, DroppedFacts DEF NoConnection
<1>8. host'[a].floor >= host[a].floor
  BY <1>1, <1>3, <1>6, HostFields
<1>9. \A o \in host'[a].outcome : o.kind # "failed" => o.sequence <= host'[a].floor
  BY <1>3, <1>5, <1>6
<1>10. host'[a].commands \cup host'[a].mail \subseteq host[a].commands \cup host[a].mail
  BY <1>5, <1>6
<1>11. Good(Dropped(srv, a), host')
  BY <1>6, <1>7, <1>8, <1>9, <1>10, FewerCommands
<1> QED
  BY <1>1, <1>11

LEMMA FailGood ==
    ASSUME NEW a \in Agents, NEW k \in host[a].commands, Good(srv, host), Fail(a, k)
    PROVE  Good(srv', host')
<1>1. srv' = srv /\ host \in [Agents -> Host]
  BY DEF Good, Fail
<1>2. PICK kept \in BOOLEAN :
        host' = [host EXCEPT ![a].outcome = {OutcomeOf(k, "failed", host[a].build)},
                             ![a].commands = IF kept THEN @ ELSE @ \ {k}]
  BY DEF Fail
<1> DEFINE commands == IF kept THEN host[a].commands ELSE host[a].commands \ {k}
           outcome == {OutcomeOf(k, "failed", host[a].build)}
<1>3. /\ commands \subseteq Command /\ commands \subseteq host[a].commands
      /\ outcome \subseteq Outcome /\ \A o \in outcome : o.kind = "failed"
  BY <1>1, HostFields, OutcomeOfFacts
<1>4. host' = [host EXCEPT ![a].outcome = outcome, ![a].commands = commands]
  BY <1>1, <1>2
<1> HIDE DEF commands, outcome
<1>5. /\ host' \in [Agents -> Host] /\ \A b \in Agents \ {a} : host'[b] = host[b]
      /\ host'[a].floor = host[a].floor /\ host'[a].build = host[a].build
      /\ host'[a].outcome = outcome /\ host'[a].commands = commands
      /\ host'[a].mail = host[a].mail
  BY <1>1, <1>3, <1>4 DEF Host
<1>6. host'[a].floor >= host[a].floor
  BY <1>1, <1>5, HostFields
<1>7. host'[a].commands \cup host'[a].mail \subseteq host[a].commands \cup host[a].mail
  BY <1>3, <1>5
<1>8. \A o \in host'[a].outcome : o.kind # "failed" => o.sequence <= host'[a].floor
  BY <1>3, <1>5
<1>9. Good(srv, host')
  BY <1>5, <1>6, <1>7, <1>8, FewerCommands
<1> QED
  BY <1>1, <1>9

(* The mail that waited for an agent's worker is not delivered any more.   *)
LEMMA MailDropped ==
    ASSUME NEW s, NEW h, NEW g, Good(s, h), NEW a \in Agents, NEW out \in SUBSET Outcome,
           g = [h EXCEPT ![a].mail = {}, ![a].outcome = out],
           \A o \in out : o.kind # "failed" => o.sequence <= h[a].floor
    PROVE  Good(s, g)
<1>1. h \in [Agents -> Host]
  BY DEF Good
<1>2. /\ g \in [Agents -> Host] /\ \A b \in Agents \ {a} : g[b] = h[b]
      /\ g[a].floor = h[a].floor /\ g[a].build = h[a].build
      /\ g[a].outcome = out /\ g[a].commands = h[a].commands /\ g[a].mail = {}
  BY <1>1 DEF Host
<1>3. g[a].floor >= h[a].floor
  BY <1>1, <1>2, HostFields
<1> QED
  BY <1>2, <1>3, FewerCommands

LEMMA MailDroppedOnly ==
    ASSUME NEW s, NEW h, NEW g, Good(s, h), NEW a \in Agents,
           g = [h EXCEPT ![a].mail = {}]
    PROVE  Good(s, g)
<1>1. h \in [Agents -> Host]
  BY DEF Good
<1>2. h[a].outcome \in SUBSET Outcome
  BY <1>1, HostFields
<1>3. g = [h EXCEPT ![a].mail = {}, ![a].outcome = h[a].outcome]
  BY <1>1 DEF Host
<1>4. \A o \in h[a].outcome : o.kind # "failed" => o.sequence <= h[a].floor
  BY DEF Good, HostsOK, HostOK
<1> QED
  BY <1>2, <1>3, <1>4, MailDropped

LEMMA ExpireCommandGood ==
    ASSUME NEW a \in Agents, NEW k \in Outstanding(a), Good(srv, host), ExpireCommand(a, k)
    PROVE  Good(srv', host')
<1> DEFINE c == k.campaign
           x == srv.row[c][a]
           e == x.unexpired /\ x.sequence # k.sequence
           y == [x EXCEPT !.unexpired = e]
<1>1. srv \in Server /\ host \in [Agents -> Host]
  BY DEF Good
<1>2. c \in Campaigns
  BY <1>1, HostFields DEF Outstanding, Command
<1>3. x \in Row /\ RowOK(c, a, x) /\ SeqOK(x, srv.sequence[a], host[a].floor)
  BY <1>1, <1>2, RowFields DEF Good, RowsOK, SeqsOK
<1>4. srv' = Put(srv, c, a, y)
  BY <1>3 DEF ExpireCommand, Row
<1>5. e \in BOOLEAN
  OBVIOUS
<1> HIDE DEF e
<1>6. /\ y \in Row /\ y.state = x.state /\ y.action = x.action /\ y.cordoned = x.cordoned
      /\ y.authorization = x.authorization /\ y.sequence = x.sequence
      /\ y.activated = x.activated /\ y.result = x.result
  BY <1>3, <1>5 DEF Row
<1>7. Good(srv', host)
  <2>1. CASE a \in Members(c)
    <3> HIDE DEF c, x, y
    <3>1. RowOK(c, a, y)
      BY <2>1, <1>3, <1>6 DEF RowOK, IsActive, Draining
    <3>2. SeqOK(y, srv.sequence[a], host[a].floor)
      BY <1>3, <1>6 DEF SeqOK
    <3>3. /\ Sealed(x) <=> Sealed(y)
          /\ IsActive(x) <=> IsActive(y)
          /\ CohortKept(x, y)
      BY <1>6 DEF Sealed, Draining, CohortKept, IsActive
    <3>4. Edited(srv, srv', c, a, y)
      BY <1>1, <1>2, <1>4, <1>6, PutFacts DEF Edited
    <3>5. Separate => (a \in srv'.fence <=> y.cordoned)
      BY <1>1, <1>2, <1>4, <1>6, <2>1, PutFacts, FenceIsRow DEF x
    <3> QED
      BY <1>2, <1>6, <2>1, <3>1, <3>2, <3>3, <3>4, <3>5, Edit DEF x
  <2>2. CASE a \notin Members(c)
    <3>1. x = NoRow
      BY <1>3, <2>2 DEF RowOK
    <3>2. y = x
      <4>1. e = FALSE
        BY <3>1 DEF NoRow, e
      <4>a. NoRow.unexpired = FALSE
        BY DEF NoRow
      <4>b. x.unexpired = NoRow.unexpired
        BY <3>1
      <4>2. x.unexpired = e
        BY <4>1, <4>a, <4>b, Zenon
      <4> HIDE DEF x
      <4> QED
        BY <1>3, <4>2 DEF Row
    <3>3. srv' = srv
      BY <1>1, <1>2, <1>4, <3>2 DEF Put, Server
    <3> QED
      BY <3>3
  <2> QED
    BY <2>1, <2>2
<1>8. /\ host' \in [Agents -> Host] /\ \A b \in Agents \ {a} : host'[b] = host[b]
      /\ host'[a].floor = host[a].floor /\ host'[a].build = host[a].build
      /\ host'[a].outcome = host[a].outcome
      /\ host'[a].commands = host[a].commands \ {k} /\ host'[a].mail = host[a].mail \ {k}
  BY <1>1, HostFields DEF ExpireCommand, Host
<1>9. \A o \in host[a].outcome : o.kind # "failed" => o.sequence <= host[a].floor
  BY DEF Good, HostsOK, HostOK
<1>10. host'[a].floor >= host[a].floor
  BY <1>1, <1>8, HostFields
<1>11. host'[a].commands \cup host'[a].mail \subseteq host[a].commands \cup host[a].mail
  BY <1>8
<1> QED
  BY <1>7, <1>8, <1>9, <1>10, <1>11, FewerCommands

(***************************************************************************)
(* The worker's calls                                                      *)
(***************************************************************************)
LEMMA CheckReconcileGood ==
    ASSUME NEW a \in Agents, NEW late \in BOOLEAN, NEW dwelt \in BOOLEAN,
           Good(srv, host), CheckReconcile(a, late, dwelt)
    PROVE  Good(srv', host')
<1>1. Good(srv', host)
  BY ReconcileAgentGood DEF CheckReconcile
<1> QED
  BY <1>1, MailDroppedOnly DEF CheckReconcile, Asks

LEMMA CheckAdvanceGood ==
    ASSUME NEW a \in Agents, NEW late \in BOOLEAN, NEW up, Good(srv, host),
           CheckAdvance(a, late, up)
    PROVE  Good(srv', host')
<1>1. PICK c \in ActiveIn(srv, a) : srv' = TryAdvance(srv, c, a, late, up)
  BY DEF CheckAdvance
<1>2. Good(srv', host)
  BY <1>1, ActiveIsMember, TryAdvanceGood
<1> QED
  BY <1>2, MailDroppedOnly DEF CheckAdvance, Asks

(* A row that wants a command executed is sealed.                          *)
LEMMA CommandSealed ==
    ASSUME NEW c, NEW a, NEW x \in Row, RowOK(c, a, x), x.action \in {"activate", "rollback"}
    PROVE  Sealed(x) /\ x.cordoned /\ x.result = NoBuild
BY DEF RowOK, Sealed, Draining

LEMMA EnsureAuthorizationGood ==
    ASSUME NEW s, NEW h, Good(s, h), NEW c \in Campaigns, NEW a \in Members(c),
           s.row[c][a].action \in {"activate", "rollback"}
    PROVE  Good(EnsureAuthorization(s, c, a), h)
<1> DEFINE x == s.row[c][a]
<1>1. x \in Row /\ RowOK(c, a, x)
  BY MembersFacts, RowFields DEF Good, RowsOK
<1>2. Sealed(x) /\ x.cordoned /\ x.result = NoBuild
  BY <1>1, CommandSealed
<1>3. x.state = "failed" => x.action = "rollback"
  BY <1>1 DEF RowOK
<1>4. Good(Issue(s, c, a, x.action), h)
  BY <1>2, <1>3, IssueGood
<1> QED
  BY <1>4 DEF EnsureAuthorization

LEMMA CheckAnswerGood ==
    ASSUME NEW a \in Agents, Good(srv, host), CheckAnswer(a)
    PROVE  Good(srv', host')
<1>1. PICK c \in ActiveIn(srv, a) :
        /\ Allows(srv.campaign[c], srv.row[c][a].action)
        /\ srv' = EnsureAuthorization(srv, c, a)
        /\ srv'.row[c][a].authorization = srv'.row[c][a].action
        /\ srv'.row[c][a].unexpired
        /\ host' = [host EXCEPT ![a].mail =
             {[campaign |-> c, generation |-> srv'.row[c][a].generation,
               action |-> srv'.row[c][a].action, sequence |-> srv'.row[c][a].sequence]}]
  BY DEF CheckAnswer
<1> DEFINE x == srv'.row[c][a]
           k == [campaign |-> c, generation |-> x.generation,
                 action |-> x.action, sequence |-> x.sequence]
<1>2. c \in Campaigns /\ a \in Members(c) /\ srv \in Server
  BY ActiveIsMember DEF Good
<1>3. srv.row[c][a].action \in {"activate", "rollback"}
  BY <1>1 DEF Allows
<1>4. Good(srv', host) /\ srv' \in Server /\ host \in [Agents -> Host]
  BY <1>1, <1>2, <1>3, EnsureAuthorizationGood DEF Good
<1>5. x \in Row /\ RowOK(c, a, x) /\ SeqOK(x, srv'.sequence[a], host[a].floor)
  BY <1>2, <1>4, RowFields DEF Good, RowsOK, SeqsOK
<1>6. x.action \in {"activate", "rollback"}
  <2>1. CASE srv' = srv
    BY <2>1, <1>3
  <2>2. CASE srv' # srv
    <3> DEFINE z == srv.row[c][a]
               y == [z EXCEPT !.action = z.action, !.authorization = z.action,
                              !.sequence = srv.sequence[a] + 1, !.unexpired = TRUE]
    <3>1. /\ srv.sequence[a] # MaxSequence
          /\ srv' = [Put(srv, c, a, y) EXCEPT !.sequence[a] = @ + 1]
      BY <1>1, <2>2 DEF EnsureAuthorization, Issue
    <3>2. z \in Row /\ srv.sequence[a] + 1 \in 0 .. MaxSequence
      BY <1>2, <3>1, RowFields
    <3>3. y \in Row /\ y.action = z.action
      BY <1>3, <3>2 DEF Row
    <3> HIDE DEF y
    <3>4. Put(srv, c, a, y) \in Server /\ Put(srv, c, a, y).row[c][a] = y
      BY <1>2, <3>3, PutFacts
    <3>5. srv'.row = Put(srv, c, a, y).row
      BY <3>1, <3>4 DEF Server
    <3> QED
      BY <1>3, <3>3, <3>4, <3>5
  <2> QED
    BY <2>1, <2>2
<1>7. Sealed(x) /\ x.sequence = srv'.sequence[a] /\ x.sequence > 0
  BY <1>1, <1>5, <1>6, CommandSealed DEF SeqOK
<1>8. k \in Command
  <2>1. x.sequence \in 1 .. MaxSequence
    BY <1>5, <1>7, CampaignAssumption DEF Row
  <2> QED
    BY <1>2, <1>5, <1>6, <2>1 DEF Command, Row
<1>9. k.campaign = c /\ k.sequence = x.sequence
  OBVIOUS
<1>10. host' = [host EXCEPT ![a].mail = {k}]
  BY <1>1
<1> HIDE DEF k, x
<1>11. /\ host' \in [Agents -> Host] /\ \A b \in Agents \ {a} : host'[b] = host[b]
       /\ host'[a].floor = host[a].floor /\ host'[a].build = host[a].build
       /\ host'[a].outcome = host[a].outcome
       /\ host'[a].commands = host[a].commands /\ host'[a].mail = {k}
  BY <1>4, <1>8, <1>10 DEF Host
<1>12. HostOK(srv', host, a)
  BY <1>4 DEF Good, HostsOK
<1>13. srv'.sequence[a] \in Nat
  BY <1>2, <1>4, RowFields
<1>14. HostOK(srv', host', a)
  BY <1>7, <1>9, <1>11, <1>12, <1>13 DEF HostOK
<1>15. ASSUME Separate, NEW l \in Outs(host', a)
       PROVE  Sealed(srv'.row[l.campaign][a])
  <2>1. l = k \/ l \in Outs(host, a)
    BY <1>11 DEF Outs
  <2>2. l \in Outs(host, a) => Sealed(srv'.row[l.campaign][a])
    BY <1>4, <1>15 DEF Good, FencesOK, FenceOK
  <2> QED
    BY <1>7, <1>9, <2>1, <2>2 DEF x
<1>16. host'[a].floor >= host[a].floor
  BY <1>4, <1>11, HostFields
<1> QED
  BY <1>4, <1>11, <1>14, <1>15, <1>16, HostChange

LEMMA ReportedGood ==
    ASSUME NEW s, NEW h, Good(s, h), NEW c \in Campaigns, NEW a \in Members(c),
           NEW state \in {"staging", "staged", "failed"}, NEW action \in {"stage", "none"},
           state = "failed" => action = "none",
           s.row[c][a].state \in {"pending", "staging"}
    PROVE  Good(Reported(s, c, a, state, action), h)
<1> DEFINE x == s.row[c][a]
           y == [x EXCEPT !.state = state, !.action = action]
           t == Reported(s, c, a, state, action)
<1>1. a \in Agents /\ s \in Server
  BY MembersFacts DEF Good
<1>2. x \in Row /\ RowOK(c, a, x)
  BY <1>1, RowFields DEF Good, RowsOK
<1>3. /\ y \in Row /\ y.state = state /\ y.action = action /\ y.cordoned = x.cordoned
      /\ y.authorization = x.authorization /\ y.activated = x.activated
      /\ y.result = x.result
  <2>1. state \in States
    BY DEF States
  <2> HIDE DEF States
  <2> QED
    BY <1>2, <2>1 DEF Row
<1>4. ~x.cordoned /\ IsActive(x) /\ x.state # "succeeded"
  BY <1>2 DEF RowOK, IsActive
<1>5. t = ClearFence(Put(s, c, a, y), a)
  BY <1>4 DEF Reported
<1> HIDE DEF x, y, t
<1>6. RowOK(c, a, y)
  BY <1>2, <1>3, <1>4 DEF RowOK, IsActive, Draining, NoRow
<1>7. SeqOK(y, s.sequence[a], h[a].floor) /\ ~Sealed(x) /\ ~Sealed(y) /\ CohortKept(x, y)
  BY <1>3, <1>4 DEF SeqOK, Sealed, CohortKept
<1>8. Edited(s, t, c, a, y) /\ a \notin t.fence
  <2>1. Put(s, c, a, y) \in Server
    BY <1>1, <1>3, PutFacts
  <2>2. /\ t \in Server /\ t.row = Put(s, c, a, y).row /\ t.fence = s.fence \ {a}
        /\ t.sequence = s.sequence /\ t.conn = s.conn /\ t.active = s.active
    BY <1>1, <1>3, <1>5, <2>1, PutFacts, FenceFacts
  <2> QED
    BY <2>2 DEF Edited
<1>9. Good(t, h)
  BY <1>3, <1>4, <1>6, <1>7, <1>8, Edit DEF x
<1> QED
  BY <1>9 DEF t

LEMMA StagingMember ==
    ASSUME NEW c \in Campaigns, NEW a \in Agents, Good(srv, host), Staging(c, a)
    PROVE  a \in Members(c) /\ srv.row[c][a].state \in {"pending", "staging"}
BY DEF Good, RowsOK, RowOK, Staging, NoRow

LEMMA StageReportsGood ==
    ASSUME NEW c \in Campaigns, NEW a \in Agents, NEW up, Good(srv, host),
           ReportDownloading(c, a) \/ ReportStaged(c, a, up) \/ ReportStageFailed(c, a)
    PROVE  Good(srv', host')
<1>1. Staging(c, a)
  BY DEF ReportDownloading, ReportStaged, ReportStageFailed
<1>2. Good(srv', host)
  <2>1. CASE ReportDownloading(c, a)
    BY <1>1, <2>1, StagingMember, ReportedGood DEF ReportDownloading
  <2>2. CASE ReportStaged(c, a, up)
    BY <1>1, <2>2, StagingMember, ReportedGood, TryAdvanceGood DEF ReportStaged
  <2>3. CASE ReportStageFailed(c, a)
    BY <1>1, <2>3, StagingMember, ReportedGood, PauseRunningGood DEF ReportStageFailed
  <2> QED
    BY <2>1, <2>2, <2>3
<1> QED
  BY <1>1, <1>2, MailDroppedOnly DEF Staging

LEMMA AcknowledgedGood ==
    ASSUME NEW a \in Agents, NEW o \in host[a].outcome, NEW lost \in BOOLEAN,
           host \in [Agents -> Host], HostsOK(srv, host),
           Good(srv', host), Acknowledged(a, o, lost)
    PROVE  Good(srv', host')
<1> DEFINE out == IF lost THEN host[a].outcome
                  ELSE IF /\ o.kind = "done" /\ o.action = "activate" /\ IsCurrent(a, o)
                          /\ srv'.row[o.campaign][a].state \in {"awaiting_tunnel", "healthy_dwell"}
                       THEN {[o EXCEPT !.kind = "healthy"]}
                  ELSE {}
<1>1. host' = [host EXCEPT ![a].mail = {}, ![a].outcome = out]
  BY DEF Acknowledged
<1>2. o \in Outcome /\ host[a].outcome \subseteq Outcome
  BY HostFields
<1>3. [o EXCEPT !.kind = "healthy"] \in Outcome /\ [o EXCEPT !.kind = "healthy"].sequence = o.sequence
  BY <1>2 DEF Outcome
<1>4. \A p \in host[a].outcome : p.kind # "failed" => p.sequence <= host[a].floor
  BY DEF HostsOK, HostOK
<1>5. out \in SUBSET Outcome
  BY <1>2, <1>3
<1>6. \A p \in out : p.kind # "failed" => p.sequence <= host[a].floor
  <2>1. CASE out = {[o EXCEPT !.kind = "healthy"]} /\ o.kind = "done"
    BY <2>1, <1>3, <1>4
  <2>2. CASE out = {} \/ out = host[a].outcome
    BY <2>2, <1>4
  <2> QED
    BY <2>1, <2>2
<1> HIDE DEF out
<1> QED
  BY <1>1, <1>5, <1>6, MailDropped

LEMMA CurrentFacts ==
    ASSUME NEW a \in Agents, NEW o \in host[a].outcome, Good(srv, host), IsCurrent(a, o)
    PROVE  /\ o.campaign \in Campaigns /\ a \in Members(o.campaign)
           /\ IsActive(srv.row[o.campaign][a])
           /\ o \in Outcome
<1>1. o.campaign \in ActiveIn(srv, a)
  BY DEF IsCurrent
<1>2. o \in Outcome
  BY HostFields DEF Good
<1> QED
  BY <1>1, <1>2, ActiveIsMember

LEMMA AcknowledgeOnlyGood ==
    ASSUME NEW a \in Agents, NEW o \in host[a].outcome, NEW lost \in BOOLEAN,
           Good(srv, host), AcknowledgeOnly(a, o, lost)
    PROVE  Good(srv', host')
<1>1. Good(srv', host) /\ host \in [Agents -> Host] /\ HostsOK(srv, host)
  BY DEF AcknowledgeOnly, Good
<1> QED
  BY <1>1, AcknowledgedGood DEF AcknowledgeOnly

LEMMA ReportRootActionGood ==
    ASSUME NEW a \in Agents, NEW o \in host[a].outcome, NEW lost \in BOOLEAN,
           Good(srv, host), ReportRootAction(a, o, lost)
    PROVE  Good(srv', host')
<1> DEFINE c == o.campaign
           x == srv.row[c][a]
           y == [x EXCEPT !.state = "awaiting_tunnel", !.action = "none", !.result = o.result,
                          !.healthy = FALSE, !.activated = @ \/ o.action = "activate"]
<1>1. c \in Campaigns /\ a \in Members(c) /\ IsActive(x) /\ o \in Outcome
  BY CurrentFacts DEF ReportRootAction
<1>2. srv \in Server /\ host \in [Agents -> Host] /\ HostsOK(srv, host)
  BY DEF Good
<1>3. x \in Row /\ RowOK(c, a, x) /\ SeqOK(x, srv.sequence[a], host[a].floor)
  BY <1>1, <1>2, RowFields DEF Good, RowsOK, SeqsOK
<1>4. /\ srv' = ApplyReceipt(srv, a, o) /\ ReceiptAccepted(x, o) /\ o.kind = "done"
      /\ Acknowledged(a, o, lost)
  BY DEF ReportRootAction
<1>5. srv' = Dropped(Put(srv, c, a, y), a)
  BY <1>4 DEF ApplyReceipt
<1>6. /\ y \in Row /\ y.state = "awaiting_tunnel" /\ y.action = "none"
      /\ y.cordoned = x.cordoned /\ y.authorization = x.authorization
      /\ y.sequence = x.sequence /\ y.result = o.result
  <2>1. "awaiting_tunnel" \in States /\ o.result \in Builds
    BY <1>1 DEF States, Outcome
  <2>2. (x.activated \/ o.action = "activate") \in BOOLEAN
    OBVIOUS
  <2> HIDE DEF x, States, Builds
  <2> QED
    BY <1>3, <2>1, <2>2 DEF Row
<1>7. /\ x.authorization = o.action /\ x.sequence = o.sequence /\ x.cordoned
      /\ x.action = o.action /\ o.action \in {"activate", "rollback"}
      /\ o.action = "rollback" => o.result # c
  BY <1>1, <1>4 DEF ReceiptAccepted, Outcome
<1>8. host[a].floor >= y.sequence
  <2>1. o.sequence <= host[a].floor
    BY <1>2, <1>4 DEF HostsOK, HostOK
  <2>2. host[a].floor \in Nat /\ o.sequence \in Nat
    BY <1>1, <1>2, HostFields, CampaignAssumption DEF Outcome
  <2> QED
    BY <1>6, <1>7, <2>1, <2>2
<1> HIDE DEF c, x, y
<1>9. RowOK(c, a, y)
  BY <1>1, <1>6, <1>7 DEF RowOK, IsActive, Draining
<1>10. SeqOK(y, srv.sequence[a], host[a].floor)
  BY <1>3, <1>6, <1>7, <1>8 DEF SeqOK
<1>11. Sealed(x) /\ Sealed(y) /\ CohortKept(x, y)
  BY <1>1, <1>6, <1>7 DEF Sealed, Draining, CohortKept, IsActive
<1>12. Edited(srv, Put(srv, c, a, y), c, a, y)
  BY <1>1, <1>2, <1>6, PutFacts, MembersFacts DEF Edited
<1>13. Separate => (a \in Put(srv, c, a, y).fence <=> y.cordoned)
  BY <1>1, <1>2, <1>6, PutFacts, FenceIsRow DEF x
<1>14. Good(Put(srv, c, a, y), host)
  BY <1>1, <1>6, <1>9, <1>10, <1>11, <1>12, <1>13, Edit DEF x
<1>15. Good(srv', host)
  BY <1>5, <1>14, DroppedGood
<1> QED
  BY <1>2, <1>4, <1>15, AcknowledgedGood

LEMMA ReportFailedGood ==
    ASSUME NEW a \in Agents, NEW o \in host[a].outcome, NEW lost \in BOOLEAN,
           Good(srv, host), ReportFailed(a, o, lost)
    PROVE  Good(srv', host')
<1> DEFINE c == o.campaign
           x == srv.row[c][a]
<1>1. c \in Campaigns /\ a \in Members(c) /\ IsActive(x)
  BY CurrentFacts DEF ReportFailed
<1>2. host \in [Agents -> Host] /\ HostsOK(srv, host) /\ Acknowledged(a, o, lost)
  BY DEF Good, ReportFailed
<1>3. CASE FailureAccepted(x)
  <2>1. ~Draining(x)
    BY <1>3 DEF FailureAccepted, Draining
  <2>2. Good(Put(srv, c, a, [Blocked(x) EXCEPT !.reported = TRUE]), host)
    BY <1>1, <2>1, BlockedGood
  <2>3. srv' = PauseRunning(Put(srv, c, a, [Blocked(x) EXCEPT !.reported = TRUE]), c)
    BY <1>3 DEF ReportFailed
  <2>4. Good(srv', host)
    BY <1>1, <2>2, <2>3, PauseRunningGood
  <2> QED
    BY <1>2, <2>4, AcknowledgedGood
<1>4. CASE ~FailureAccepted(x)
  <2>1. srv' = srv
    BY <1>4 DEF ReportFailed
  <2> QED
    BY <1>2, <2>1, AcknowledgedGood
<1> QED
  BY <1>3, <1>4

LEMMA ApplyHealthGood ==
    ASSUME NEW a \in Agents, NEW o \in host[a].outcome, Good(srv, host), IsCurrent(a, o),
           HealthAccepted(srv.row[o.campaign][a], o)
    PROVE  Good(ApplyHealth(srv, a, o), host)
<1> DEFINE c == o.campaign
           x == srv.row[c][a]
           y == [x EXCEPT !.state = "healthy_dwell", !.healthy = TRUE]
<1>1. c \in Campaigns /\ a \in Members(c) /\ IsActive(x) /\ o \in Outcome
  BY CurrentFacts
<1>2. srv \in Server
  BY DEF Good
<1>3. x \in Row /\ RowOK(c, a, x) /\ SeqOK(x, srv.sequence[a], host[a].floor)
  BY <1>1, <1>2, RowFields DEF Good, RowsOK, SeqsOK
<1>4. ApplyHealth(srv, a, o) = Put(srv, c, a, y)
  BY DEF ApplyHealth
<1>5. x.state \in {"awaiting_tunnel", "healthy_dwell"} /\ x.result # NoBuild
  <2>1. o.result \in Builds /\ NoBuild \notin Builds
    BY <1>1, CampaignAssumption DEF Outcome, Builds, NoBuild, Bootstrap
  <2> QED
    BY <2>1 DEF HealthAccepted
<1>6. /\ y \in Row /\ y.state = "healthy_dwell" /\ y.action = x.action
      /\ y.cordoned = x.cordoned /\ y.authorization = x.authorization
      /\ y.sequence = x.sequence /\ y.result = x.result /\ y.activated = x.activated
  BY <1>3 DEF Row, States
<1> HIDE DEF c, x, y
<1>7. RowOK(c, a, y)
  BY <1>1, <1>3, <1>5, <1>6 DEF RowOK, IsActive, Draining
<1>8. SeqOK(y, srv.sequence[a], host[a].floor)
  BY <1>3, <1>6 DEF SeqOK
<1>9. Sealed(x) /\ Sealed(y) /\ CohortKept(x, y)
  BY <1>3, <1>5, <1>6 DEF Sealed, Draining, CohortKept, RowOK
<1>10. Edited(srv, Put(srv, c, a, y), c, a, y)
  BY <1>1, <1>2, <1>6, PutFacts, MembersFacts DEF Edited
<1>11. Separate => (a \in Put(srv, c, a, y).fence <=> y.cordoned)
  BY <1>1, <1>2, <1>6, PutFacts, FenceIsRow DEF x
<1>12. Good(Put(srv, c, a, y), host)
  BY <1>1, <1>6, <1>7, <1>8, <1>9, <1>10, <1>11, Edit DEF x
<1> QED
  BY <1>4, <1>12

LEMMA ReportHealthyGood ==
    ASSUME NEW a \in Agents, NEW o \in host[a].outcome, NEW late \in BOOLEAN,
           NEW dwelt \in BOOLEAN, NEW lost \in BOOLEAN,
           Good(srv, host), ReportHealthy(a, o, late, dwelt, lost)
    PROVE  Good(srv', host')
<1>1. IsCurrent(a, o) /\ HealthAccepted(srv.row[o.campaign][a], o) /\ Acknowledged(a, o, lost)
  BY DEF ReportHealthy
<1>2. Good(ApplyHealth(srv, a, o), host)
  BY <1>1, ApplyHealthGood
<1>3. Good(srv', host)
  BY <1>1, <1>2, CurrentFacts, ReconcileRowGood DEF ReportHealthy
<1> QED
  BY <1>1, <1>3, AcknowledgedGood DEF Good

LEMMA RecordFreshTunnelGood ==
    ASSUME NEW a \in Agents, NEW late \in BOOLEAN, Good(srv, host), RecordFreshTunnel(a, late)
    PROVE  Good(srv', host')
<1> DEFINE k == [srv.conn[a] EXCEPT !.phase = "fresh"]
           u == [srv EXCEPT !.conn[a].phase = "fresh"]
<1>1. srv \in Server /\ host' = host /\ srv.conn[a].phase = "new"
  BY DEF Good, RecordFreshTunnel
<1>2. srv.conn[a] \in Connection
  BY <1>1 DEF Server
<1>3. k \in Connection /\ k.build = srv.conn[a].build
  BY <1>2 DEF Connection
<1>4. k.build = host[a].build
  BY <1>1, <1>3 DEF Good, HostsOK, HostOK
<1>5. u = [srv EXCEPT !.conn[a] = k]
  BY <1>1, <1>2 DEF Server
<1>6. Good(u, host)
  BY <1>3, <1>4, <1>5, ConnGood
<1>7. PICK c \in ActiveIn(srv, a) : srv' = ReconcileRow(u, c, a, late, FALSE)
  BY DEF RecordFreshTunnel
<1> HIDE DEF u
<1> QED
  BY <1>1, <1>6, <1>7, ActiveIsMember, ReconcileRowGood

(***************************************************************************)
(* Administrators                                                          *)
(***************************************************************************)
LEMMA CreateGood ==
    ASSUME NEW c \in Campaigns, NEW up, Good(srv, host), CreateAgentUpdateCampaign(c, up)
    PROVE  Good(srv', host')
<1> DEFINE fresh(a) == [NoRow EXCEPT !.state = "pending", !.generation = 1,
                          !.action = IF Ordinal(c, a) <= CanaryCount THEN "stage" ELSE "none"]
           rows == [a \in Agents |-> IF a \notin Members(c) THEN srv.row[c][a] ELSE fresh(a)]
<1>1. srv \in Server /\ host' = host
  BY DEF Good, CreateAgentUpdateCampaign
<1>2. srv' = [srv EXCEPT !.campaign[c] = "running", !.row[c] = rows]
  BY DEF CreateAgentUpdateCampaign
<1>3. \A a \in Agents : /\ fresh(a) \in Row /\ fresh(a).state = "pending" /\ ~fresh(a).cordoned
                        /\ fresh(a).action \in {"stage", "none"}
                        /\ fresh(a).authorization = "none" /\ ~fresh(a).activated
                        /\ fresh(a).result = NoBuild
  <2>1. 0 \in 0 .. MaxSequence /\ 1 \in 0 .. MaxGeneration
    BY CampaignAssumption
  <2>2. "pending" \in States
    BY DEF States
  <2> QED
    BY <2>1, <2>2 DEF NoRow, Row, States
<1>4. rows \in [Agents -> Row]
  BY <1>1, <1>3, RowFields
<1>5. \A a \in Agents : rows[a] = IF a \notin Members(c) THEN srv.row[c][a] ELSE fresh(a)
  OBVIOUS
<1> HIDE DEF fresh, rows
<1>6. /\ srv' \in Server /\ srv'.fence = srv.fence /\ srv'.sequence = srv.sequence
      /\ srv'.conn = srv.conn /\ srv'.active = srv.active
      /\ \A d \in Campaigns : srv'.row[d] = IF d = c THEN rows ELSE srv.row[d]
  <2> HIDE DEF Row
  <2> QED
    BY <1>1, <1>2, <1>4 DEF Server
<1>7. CampaignFrame(srv, srv', c)
  BY <1>1, <1>5, <1>6 DEF CampaignFrame
<1>8. ASSUME NEW a \in Members(c)
      PROVE  Changed(srv, srv', host, c, a)
  <2>1. a \in Agents /\ ActiveIn(srv, a) = {}
    BY MembersFacts DEF CreateAgentUpdateCampaign
  <2>2. srv'.row[c][a] = fresh(a)
    BY <1>5, <1>6, <2>1
  <2>3. ~srv.row[c][a].cordoned
    <3>1. ~IsActive(srv.row[c][a])
      BY <2>1 DEF ActiveIn
    <3> QED
      BY <1>1, <2>1, <3>1, RowFields, CordonedIsActive DEF Good, RowsOK
  <2>4. RowOK(c, a, fresh(a))
    BY <1>3, <2>1 DEF RowOK, Draining
  <2>5. SeqOK(fresh(a), srv.sequence[a], host[a].floor) /\ ~Sealed(fresh(a))
        /\ ~Sealed(srv.row[c][a])
    BY <1>3, <2>1, <2>3 DEF SeqOK, Sealed
  <2>6. Separate => (a \in srv'.fence <=> fresh(a).cordoned)
    BY <1>3, <1>6, <2>1, <2>3, FenceIsRow
  <2> QED
    BY <1>6, <2>1, <2>2, <2>4, <2>5, <2>6 DEF Changed
<1>9. CohortOK(srv', c)
  <2>1. Out(srv', c) = {}
    BY <1>3, <1>5, <1>6, MembersFacts DEF Out
  <2>2. Cardinality(Out(srv', c)) <= MaxUnavailable
    BY <2>1, FS_EmptySet, CampaignAssumption
  <2> QED
    BY <2>1, <2>2 DEF CohortOK
<1>10. Good(srv', host)
  BY <1>7, <1>8, <1>9, CampaignChange
<1> QED
  BY <1>1, <1>10

LEMMA ResumeGood ==
    ASSUME NEW c \in Campaigns, Good(srv, host), ResumeAgentUpdateCampaign(c)
    PROVE  Good(srv', host')
<1>1. SameButCampaigns(srv, srv') /\ host' = host
  BY DEF ResumeAgentUpdateCampaign, Good, SameButCampaigns, Server
<1> QED
  BY <1>1, CampaignStates

(* Every row of a campaign is rewritten, and the fence of its agents with  *)
(* it.                                                                     *)
LEMMA Republished ==
    ASSUME NEW s, NEW h, NEW t, Good(s, h), NEW c \in Campaigns,
           t \in Server, t.sequence = s.sequence, t.active = s.active,
           \A d \in Campaigns, b \in Agents : d # c => t.row[d][b] = s.row[d][b],
           t.fence = {b \in Agents : IF b \in Members(c) THEN t.row[c][b].cordoned
                                                         ELSE b \in s.fence},
           \A b \in Agents \ Members(c) : t.row[c][b] = s.row[c][b] /\ t.conn[b] = s.conn[b],
           \A b \in Agents :
              /\ t.conn[b].phase # "none" <=> s.conn[b].phase # "none"
              /\ t.conn[b].build = s.conn[b].build,
           \A b \in Members(c) :
              /\ RowOK(c, b, t.row[c][b])
              /\ SeqOK(t.row[c][b], s.sequence[b], h[b].floor)
              /\ IsActive(t.row[c][b]) => IsActive(s.row[c][b])
              /\ Sealed(t.row[c][b]) <=> Sealed(s.row[c][b])
              /\ CohortKept(s.row[c][b], t.row[c][b])
    PROVE  Good(t, h)
<1>1. Members(c) \subseteq Agents /\ s \in Server
  BY MembersFacts DEF Good
<1>2. CampaignFrame(s, t, c)
  BY <1>1 DEF CampaignFrame
<1>3. ASSUME NEW a \in Members(c)
      PROVE  Changed(s, t, h, c, a)
  <2>1. a \in t.fence <=> t.row[c][a].cordoned
    BY <1>1
  <2> QED
    BY <1>1, <2>1 DEF Changed
<1>4. \A b \in Agents : CohortKept(s.row[c][b], t.row[c][b])
  BY <1>1 DEF CohortKept
<1>5. CohortOK(t, c)
  BY <1>4, CohortStep DEF Good, CohortsOK
<1> QED
  BY <1>2, <1>3, <1>5, CampaignChange

LEMMA PublishCordonsFacts ==
    ASSUME NEW s \in Server, NEW c \in Campaigns
    PROVE  /\ PublishCordons(s, c) \in Server /\ PublishCordons(s, c).row = s.row
           /\ PublishCordons(s, c).campaign = s.campaign
           /\ PublishCordons(s, c).sequence = s.sequence
           /\ PublishCordons(s, c).conn = s.conn /\ PublishCordons(s, c).active = s.active
           /\ PublishCordons(s, c).fence =
                {b \in Agents : IF b \in Members(c) THEN s.row[c][b].cordoned
                                                     ELSE b \in s.fence}
BY DEF PublishCordons, Server

LEMMA PauseGood ==
    ASSUME NEW c \in Campaigns, Good(srv, host), PauseAgentUpdateCampaign(c)
    PROVE  Good(srv', host')
<1> DEFINE paused(x) == IF Draining(x) /\ x.authorization = "none"
                        THEN [x EXCEPT !.state = "staged", !.cordoned = FALSE] ELSE x
           rows == [a \in Agents |-> paused(srv.row[c][a])]
           u == [srv EXCEPT !.campaign[c] = "paused", !.row[c] = rows]
<1>1. srv \in Server /\ host' = host
  BY DEF Good, PauseAgentUpdateCampaign
<1>2. srv' = PublishCordons(u, c)
  BY DEF PauseAgentUpdateCampaign
<1>3. ASSUME NEW a \in Agents
      PROVE  LET x == srv.row[c][a]  y == paused(x) IN
             /\ y \in Row /\ RowOK(c, a, y) /\ SeqOK(y, srv.sequence[a], host[a].floor)
             /\ IsActive(y) => IsActive(x)
             /\ Sealed(y) <=> Sealed(x)
             /\ CohortKept(x, y)
             /\ a \notin Members(c) => y = x
  <2> DEFINE x == srv.row[c][a]
             y == paused(x)
  <2>1. x \in Row /\ RowOK(c, a, x) /\ SeqOK(x, srv.sequence[a], host[a].floor)
    BY <1>1, RowFields DEF Good, RowsOK, SeqsOK
  <2>2. CASE y = x
    BY <2>1, <2>2 DEF CohortKept
  <2>3. CASE y # x
    <3>1. Draining(x) /\ y = [x EXCEPT !.state = "staged", !.cordoned = FALSE]
      BY <2>3
    <3> HIDE DEF x, y
    <3>2. /\ y \in Row /\ y.state = "staged" /\ y.action = "none" /\ ~y.cordoned
          /\ y.authorization = x.authorization /\ y.activated = x.activated
          /\ y.result = x.result
      BY <2>1, <3>1 DEF Row, States, Draining
    <3>3. a \in Members(c) /\ IsActive(x) /\ x.state # "succeeded"
      BY <2>1, <3>1 DEF RowOK, Draining, NoRow, IsActive
    <3>4. RowOK(c, a, y)
      BY <2>1, <3>1, <3>2, <3>3 DEF RowOK, IsActive, Draining
    <3> QED
      BY <3>1, <3>2, <3>3, <3>4 DEF SeqOK, Sealed, CohortKept, x, y
  <2> QED
    BY <2>2, <2>3
<1>4. rows \in [Agents -> Row] /\ \A a \in Agents : rows[a] = paused(srv.row[c][a])
  BY <1>3
<1> HIDE DEF paused, rows
<1>5. /\ u \in Server /\ u.fence = srv.fence /\ u.sequence = srv.sequence
      /\ u.conn = srv.conn /\ u.active = srv.active
      /\ \A d \in Campaigns : u.row[d] = IF d = c THEN rows ELSE srv.row[d]
  <2> HIDE DEF Row
  <2> QED
    BY <1>1, <1>4 DEF Server
<1> HIDE DEF u
<1>6. /\ srv' \in Server /\ srv'.row = u.row /\ srv'.sequence = srv.sequence
      /\ srv'.conn = srv.conn /\ srv'.active = srv.active
      /\ srv'.fence = {b \in Agents : IF b \in Members(c) THEN u.row[c][b].cordoned
                                                          ELSE b \in srv.fence}
  BY <1>2, <1>5, PublishCordonsFacts
<1>7. \A a \in Agents : srv'.row[c][a] = paused(srv.row[c][a])
  BY <1>4, <1>5, <1>6
<1>8. \A d \in Campaigns, b \in Agents : d # c => srv'.row[d][b] = srv.row[d][b]
  BY <1>5, <1>6
<1>9. \A b \in Agents \ Members(c) : srv'.row[c][b] = srv.row[c][b]
  BY <1>3, <1>7
<1>10. \A b \in Members(c) :
         /\ RowOK(c, b, srv'.row[c][b])
         /\ SeqOK(srv'.row[c][b], srv.sequence[b], host[b].floor)
         /\ IsActive(srv'.row[c][b]) => IsActive(srv.row[c][b])
         /\ Sealed(srv'.row[c][b]) <=> Sealed(srv.row[c][b])
         /\ CohortKept(srv.row[c][b], srv'.row[c][b])
  BY <1>3, <1>7, MembersFacts
<1>11. Good(srv', host)
  BY <1>6, <1>8, <1>9, <1>10, Republished
<1> QED
  BY <1>1, <1>11

LEMMA CancelRowFacts ==
    ASSUME NEW c \in Campaigns, NEW a \in Agents, NEW n \in Nat, NEW floor \in Nat,
           NEW x \in Row,
           RowOK(c, a, x), SeqOK(x, n, floor), a \in Members(c) => x.generation < MaxGeneration,
           NEW y, y = CancelRow(x)
    PROVE  /\ y \in Row /\ RowOK(c, a, y) /\ SeqOK(y, n, floor)
           /\ IsActive(y) => IsActive(x)
           /\ Sealed(y) <=> Sealed(x)
           /\ CohortKept(x, y)
           /\ a \notin Members(c) => y = x
<1>1. CASE x.state \in {"none", "succeeded", "failed", "cancelled"} \/ RollbackProven(x)
  <2>1. y = x
    BY <1>1 DEF CancelRow
  <2> QED
    BY <2>1 DEF CohortKept
<1>2. CASE ~(x.state \in {"none", "succeeded", "failed", "cancelled"} \/ RollbackProven(x))
  <2>1. IsActive(x) /\ a \in Members(c) /\ x.state # "succeeded" /\ x.state # "failed"
    BY <1>2 DEF IsActive, RowOK, NoRow
  <2>2. x.generation + 1 \in 0 .. MaxGeneration
    BY <2>1, CampaignAssumption DEF Row
  <2>3. CASE Releasable(x)
    <3>1. y = [Returned(x, "cancelled") EXCEPT !.generation = @ + 1]
      BY <1>2, <2>3 DEF CancelRow
    <3>2. y \in Row /\ y.state = "cancelled" /\ y.action = "none" /\ ~y.cordoned
      <4>1. "cancelled" \in States
        BY DEF States
      <4> HIDE DEF States
      <4> QED
        BY <2>2, <3>1, <4>1 DEF Returned, Row
    <3>3. ~Sealed(x)
      BY <2>3 DEF Sealed, Draining, RowOK, Releasable, Row
    <3>4. RowOK(c, a, y)
      BY <2>1, <3>2 DEF RowOK, IsActive, Draining
    <3> QED
      BY <2>1, <3>2, <3>3, <3>4 DEF SeqOK, Sealed, CohortKept
  <2>4. CASE ~Releasable(x)
    <3>1. y = RollbackWanted(x, x.state)
      BY <1>2, <2>4 DEF CancelRow
    <3>2. /\ y \in Row /\ y.state = x.state /\ y.action = "rollback" /\ y.cordoned
          /\ y.authorization = "none" /\ y.result = NoBuild
      <4>1. 0 \in 0 .. MaxSequence
        BY CampaignAssumption
      <4>2. x.state \in States
        BY DEF Row
      <4> HIDE DEF States
      <4>3. y \in Row
        BY <2>2, <3>1, <4>1, <4>2 DEF RollbackWanted, Row
      <4> QED
        BY <3>1, <4>3 DEF RollbackWanted, Row
    <3>3. x.cordoned
      BY <2>1, <2>4 DEF Releasable, RowOK
    <3>4. Sealed(x)
      BY <2>4, <3>3 DEF Releasable, RowOK, Sealed, Draining
    <3>5. RowOK(c, a, y)
      BY <2>1, <3>2, <3>3 DEF RowOK, IsActive, Draining
    <3> QED
      BY <2>1, <3>2, <3>3, <3>4, <3>5 DEF SeqOK, Sealed, CohortKept, Draining
  <2> QED
    BY <2>3, <2>4
<1> QED
  BY <1>1, <1>2

LEMMA CancelGood ==
    ASSUME NEW c \in Campaigns, Good(srv, host), CancelAgentUpdateCampaign(c)
    PROVE  Good(srv', host')
<1> DEFINE rows == [a \in Agents |-> CancelRow(srv.row[c][a])]
           forgets(a) == CancelRow(srv.row[c][a]).action = "rollback"
                           /\ srv.row[c][a] # CancelRow(srv.row[c][a])
           conns == [a \in Agents |-> IF forgets(a) THEN OldConnection(srv.conn[a])
                                                    ELSE srv.conn[a]]
           u == [srv EXCEPT !.campaign[c] = "cancelled", !.row[c] = rows, !.conn = conns]
<1>1. srv \in Server /\ host' = host
  BY DEF Good, CancelAgentUpdateCampaign
<1>2. srv' = PublishCordons(u, c)
  BY DEF CancelAgentUpdateCampaign
<1>3. ASSUME NEW a \in Agents
      PROVE  LET x == srv.row[c][a]  y == CancelRow(x) IN
             /\ y \in Row /\ RowOK(c, a, y) /\ SeqOK(y, srv.sequence[a], host[a].floor)
             /\ IsActive(y) => IsActive(x)
             /\ Sealed(y) <=> Sealed(x)
             /\ CohortKept(x, y)
             /\ a \notin Members(c) => y = x
  <2>1. /\ srv.row[c][a] \in Row /\ RowOK(c, a, srv.row[c][a])
        /\ SeqOK(srv.row[c][a], srv.sequence[a], host[a].floor)
    BY <1>1, RowFields DEF Good, RowsOK, SeqsOK
  <2>2. a \in Members(c) => srv.row[c][a].generation < MaxGeneration
    BY DEF CancelAgentUpdateCampaign
  <2> DEFINE y == CancelRow(srv.row[c][a])
  <2>3. y = CancelRow(srv.row[c][a]) /\ srv.sequence[a] \in Nat /\ host[a].floor \in Nat
    BY <1>1, RowFields, HostFields DEF Good
  <2> HIDE DEF y
  <2>4. /\ y \in Row /\ RowOK(c, a, y) /\ SeqOK(y, srv.sequence[a], host[a].floor)
        /\ IsActive(y) => IsActive(srv.row[c][a])
        /\ Sealed(y) <=> Sealed(srv.row[c][a])
        /\ CohortKept(srv.row[c][a], y)
        /\ a \notin Members(c) => y = srv.row[c][a]
    BY <2>1, <2>2, <2>3, CancelRowFacts
  <2> QED
    BY <2>4 DEF y
<1>4. rows \in [Agents -> Row] /\ \A a \in Agents : rows[a] = CancelRow(srv.row[c][a])
  BY <1>3
<1>5. /\ conns \in [Agents -> Connection]
      /\ \A a \in Agents : /\ conns[a].phase # "none" <=> srv.conn[a].phase # "none"
                           /\ conns[a].build = srv.conn[a].build
                           /\ a \notin Members(c) => conns[a] = srv.conn[a]
  <2>1. \A a \in Agents : srv.conn[a] \in Connection
    BY <1>1 DEF Server
  <2>2. \A a \in Agents : conns[a] = IF forgets(a) THEN OldConnection(srv.conn[a])
                                                   ELSE srv.conn[a]
    OBVIOUS
  <2>3. \A a \in Agents : a \notin Members(c) => ~forgets(a)
    BY <1>3
  <2>4. \A a \in Agents : /\ OldConnection(srv.conn[a]) \in Connection
                          /\ OldConnection(srv.conn[a]).build = srv.conn[a].build
                          /\ OldConnection(srv.conn[a]).phase # "none" <=> srv.conn[a].phase # "none"
    BY <2>1, OldConnectionFacts
  <2> HIDE DEF forgets
  <2>5. conns \in [Agents -> Connection]
    BY <2>1, <2>4
  <2> HIDE DEF conns
  <2> QED
    BY <2>1, <2>2, <2>3, <2>4, <2>5
<1> HIDE DEF rows, conns
<1>6. /\ u \in Server /\ u.fence = srv.fence /\ u.sequence = srv.sequence
      /\ u.conn = conns /\ u.active = srv.active
      /\ \A d \in Campaigns : u.row[d] = IF d = c THEN rows ELSE srv.row[d]
  <2> HIDE DEF Row, Connection
  <2> QED
    BY <1>1, <1>4, <1>5 DEF Server
<1> HIDE DEF u
<1>7. /\ srv' \in Server /\ srv'.row = u.row /\ srv'.sequence = srv.sequence
      /\ srv'.conn = conns /\ srv'.active = srv.active
      /\ srv'.fence = {b \in Agents : IF b \in Members(c) THEN u.row[c][b].cordoned
                                                          ELSE b \in srv.fence}
  BY <1>2, <1>6, PublishCordonsFacts
<1>8. \A a \in Agents : srv'.row[c][a] = CancelRow(srv.row[c][a])
  BY <1>4, <1>6, <1>7
<1>9. \A d \in Campaigns, b \in Agents : d # c => srv'.row[d][b] = srv.row[d][b]
  BY <1>6, <1>7
<1>10. \A b \in Agents \ Members(c) : srv'.row[c][b] = srv.row[c][b] /\ srv'.conn[b] = srv.conn[b]
  BY <1>3, <1>5, <1>7, <1>8
<1>11. \A b \in Members(c) :
         /\ RowOK(c, b, srv'.row[c][b])
         /\ SeqOK(srv'.row[c][b], srv.sequence[b], host[b].floor)
         /\ IsActive(srv'.row[c][b]) => IsActive(srv.row[c][b])
         /\ Sealed(srv'.row[c][b]) <=> Sealed(srv.row[c][b])
         /\ CohortKept(srv.row[c][b], srv'.row[c][b])
  BY <1>3, <1>8, MembersFacts
<1>12. \A b \in Agents : /\ srv'.conn[b].phase # "none" <=> srv.conn[b].phase # "none"
                         /\ srv'.conn[b].build = srv.conn[b].build
  BY <1>5, <1>7
<1>13. Good(srv', host)
  BY <1>7, <1>9, <1>10, <1>11, <1>12, Republished
<1> QED
  BY <1>1, <1>13

LEMMA RetryRollbackGood ==
    ASSUME NEW c \in Campaigns, NEW a \in Members(c), Good(srv, host), RetryRollback(c, a)
    PROVE  Good(srv', host')
<1> DEFINE x == srv.row[c][a]
           y == RollbackWanted(x, "failed")
           u == Put(srv, c, a, y)
           v == [u EXCEPT !.conn[a] = OldConnection(@)]
<1>1. a \in Agents /\ srv \in Server /\ host' = host
  BY MembersFacts DEF Good, RetryRollback
<1>2. /\ srv' = SetFence(v, a) /\ x.state = "blocked" /\ x.cordoned
      /\ x.generation < MaxGeneration
  BY DEF RetryRollback
<1>3. x \in Row /\ RowOK(c, a, x)
  BY <1>1, RowFields DEF Good, RowsOK
<1>4. /\ y \in Row /\ y.state = "failed" /\ y.action = "rollback" /\ y.cordoned
      /\ y.authorization = "none" /\ y.result = NoBuild
  <2>a. 0 \in 0 .. MaxSequence /\ MaxGeneration \in Nat
    BY CampaignAssumption
  <2>b. "failed" \in States
    BY DEF States
  <2>c. x.generation \in 0 .. MaxGeneration
    BY <1>3 DEF Row
  <2>d. x.generation + 1 \in 0 .. MaxGeneration
    BY <1>2, <2>a, <2>c
  <2>1. 0 \in 0 .. MaxSequence /\ "failed" \in States /\ x.generation + 1 \in 0 .. MaxGeneration
    BY <2>a, <2>b, <2>d
  <2> HIDE DEF States, x
  <2> QED
    BY <1>3, <2>1 DEF RollbackWanted, Row
<1>5. /\ u \in Server /\ u.fence = srv.fence /\ u.sequence = srv.sequence
      /\ u.conn = srv.conn /\ u.active = srv.active
  BY <1>1, <1>4, PutFacts
<1>6. srv.conn[a] \in Connection
  BY <1>1 DEF Server
<1>7. /\ OldConnection(srv.conn[a]) \in Connection
      /\ OldConnection(srv.conn[a]).build = srv.conn[a].build
      /\ OldConnection(srv.conn[a]).phase # "none" <=> srv.conn[a].phase # "none"
  BY <1>6, OldConnectionFacts
<1> HIDE DEF u, y, x
<1>8. /\ v \in Server /\ v.fence = srv.fence /\ v.sequence = srv.sequence /\ v.row = u.row
      /\ v.active = srv.active /\ v.conn = [srv.conn EXCEPT ![a] = OldConnection(srv.conn[a])]
  <2> HIDE DEF Row, Connection
  <2> QED
    BY <1>1, <1>5, <1>7 DEF Server
<1>9. v.conn[a] = OldConnection(srv.conn[a]) /\ \A b \in Agents \ {a} : v.conn[b] = srv.conn[b]
  BY <1>1, <1>8 DEF Server
<1> HIDE DEF v
<1>10. /\ srv' \in Server /\ srv'.fence = srv.fence \cup {a} /\ srv'.sequence = srv.sequence
       /\ srv'.row = u.row /\ srv'.active = srv.active /\ srv'.conn = v.conn
  BY <1>1, <1>2, <1>8, FenceFacts
<1>11. Edited(srv, srv', c, a, y)
  BY <1>7, <1>9, <1>10 DEF Edited, u
<1>12. RowOK(c, a, y)
  BY <1>3, <1>4 DEF RowOK, IsActive, Draining
<1>13. SeqOK(y, srv.sequence[a], host[a].floor)
  BY <1>4 DEF SeqOK
<1>14. Sealed(x) /\ Sealed(y) /\ CohortKept(x, y) /\ IsActive(x)
  BY <1>2, <1>4 DEF Sealed, Draining, CohortKept, IsActive
<1>15. a \in srv'.fence
  BY <1>10
<1>16. Good(srv', host)
  BY <1>4, <1>11, <1>12, <1>13, <1>14, <1>15, Edit DEF x
<1> QED
  BY <1>1, <1>16

LEMMA RetryStageGood ==
    ASSUME NEW c \in Campaigns, NEW a \in Members(c), Good(srv, host), RetryStage(c, a)
    PROVE  Good(srv', host')
<1> DEFINE x == srv.row[c][a]
           y == [NoRow EXCEPT !.state = "pending", !.generation = x.generation + 1]
           u == Put(srv, c, a, y)
<1>1. a \in Agents /\ srv \in Server /\ host' = host
  BY MembersFacts DEF Good, RetryStage
<1>2. /\ srv' = ClearFence(u, a) /\ ~x.cordoned /\ x.generation < MaxGeneration
      /\ x.state # "succeeded" /\ ActiveIn(srv, a) \subseteq {c}
  BY DEF RetryStage
<1>3. x \in Row
  BY <1>1, RowFields
<1>4. /\ y \in Row /\ y.state = "pending" /\ y.action = "none" /\ ~y.cordoned
      /\ y.authorization = "none" /\ y.result = NoBuild /\ ~y.activated
  <2>a. 0 \in 0 .. MaxSequence /\ MaxGeneration \in Nat
    BY CampaignAssumption
  <2>b. "pending" \in States
    BY DEF States
  <2>c. x.generation \in 0 .. MaxGeneration
    BY <1>3 DEF Row
  <2>d. x.generation + 1 \in 0 .. MaxGeneration
    BY <1>2, <2>a, <2>c
  <2>1. 0 \in 0 .. MaxSequence /\ "pending" \in States /\ x.generation + 1 \in 0 .. MaxGeneration
    BY <2>a, <2>b, <2>d
  <2> HIDE DEF States, x
  <2> QED
    BY <2>1 DEF NoRow, Row
<1>5. /\ u \in Server /\ u.fence = srv.fence /\ u.sequence = srv.sequence
      /\ u.conn = srv.conn /\ u.active = srv.active
  BY <1>1, <1>4, PutFacts
<1>6. IsActive(x) \/ ActiveIn(srv, a) = {}
  BY <1>1, <1>2 DEF ActiveIn
<1> HIDE DEF u, y, x
<1>7. /\ srv' \in Server /\ srv'.fence = srv.fence \ {a} /\ srv'.sequence = srv.sequence
      /\ srv'.row = u.row /\ srv'.active = srv.active /\ srv'.conn = srv.conn
  BY <1>1, <1>2, <1>5, FenceFacts
<1>8. Edited(srv, srv', c, a, y)
  BY <1>7 DEF Edited, u
<1>9. RowOK(c, a, y)
  BY <1>4 DEF RowOK, IsActive, Draining
<1>10. /\ SeqOK(y, srv.sequence[a], host[a].floor)
       /\ ~Sealed(x) /\ ~Sealed(y) /\ CohortKept(x, y) /\ a \notin srv'.fence
  BY <1>2, <1>4, <1>7 DEF SeqOK, Sealed, CohortKept
<1>11. Good(srv', host)
  BY <1>4, <1>6, <1>8, <1>9, <1>10, Edit DEF x
<1> QED
  BY <1>1, <1>11

(***************************************************************************)
(* Maintenance                                                             *)
(***************************************************************************)
Pass == [busy : BOOLEAN, items : SUBSET Item, releases : SUBSET Release]

LEMMA IdlePass == Idle \in Pass
BY DEF Idle, Pass

LEMMA ItemFacts ==
    ASSUME pass \in Pass, NEW i \in pass.items
    PROVE  i.campaign \in Campaigns /\ i.agent \in Agents
BY DEF Pass, Item

LEMMA PassBlockGood ==
    ASSUME pass \in Pass, NEW i \in pass.items, Good(srv, host), PassBlock(i)
    PROVE  Good(srv', host')
<1> DEFINE c == i.campaign
           a == i.agent
           x == srv.row[c][a]
<1>1. c \in Campaigns /\ a \in Agents /\ host' = host
  BY ItemFacts DEF PassBlock, NextItem
<1>2. CASE StageWaits(x) \/ CommandWaits(x)
  <2>1. RowOK(c, a, x)
    BY <1>1 DEF Good, RowsOK
  <2>2. IsActive(x) /\ ~Draining(x) /\ a \in Members(c)
    BY <1>2, <2>1 DEF StageWaits, CommandWaits, RowOK, IsActive, Draining, NoRow
  <2>3. srv' = Block(srv, c, a)
    BY <1>2 DEF PassBlock
  <2> QED
    BY <1>1, <2>2, <2>3, BlockGood
<1>3. CASE ~(StageWaits(x) \/ CommandWaits(x))
  BY <1>1, <1>3 DEF PassBlock
<1> QED
  BY <1>2, <1>3

LEMMA PassAdvanceGood ==
    ASSUME pass \in Pass, NEW i \in pass.items, NEW late \in BOOLEAN, NEW up,
           Good(srv, host), PassAdvance(i, late, up)
    PROVE  Good(srv', host')
<1>1. i.agent \in Agents /\ host' = host
  BY ItemFacts DEF PassAdvance, NextItem
<1>2. CASE ActiveIn(srv, i.agent) = {i.campaign}
  BY <1>1, <1>2, ActiveIsMember, TryAdvanceGood DEF PassAdvance
<1>3. CASE ActiveIn(srv, i.agent) # {i.campaign}
  BY <1>1, <1>3 DEF PassAdvance
<1> QED
  BY <1>2, <1>3

LEMMA PassReconcileGood ==
    ASSUME pass \in Pass, NEW i \in pass.items, NEW late \in BOOLEAN, NEW dwelt \in BOOLEAN,
           Good(srv, host), PassReconcile(i, late, dwelt)
    PROVE  Good(srv', host')
BY ItemFacts, ReconcileAgentGood DEF PassReconcile, NextItem

LEMMA PassReleaseGood ==
    ASSUME pass \in Pass, NEW r \in pass.releases, NEW atHand \in BOOLEAN,
           Good(srv, host), PassRelease(r, atHand)
    PROVE  Good(srv', host')
<1>1. r.campaign \in Campaigns
  BY DEF Pass, Release
<1> QED
  BY <1>1, ReleaseNextCohortGood DEF PassRelease

LEMMA EndPassGood ==
    ASSUME Good(srv, host), EndPass
    PROVE  Good(srv', host')
BY FinalizeGood DEF EndPass

(***************************************************************************)
(* The invariant                                                           *)
(***************************************************************************)
(* The inductive invariant of the specification.                           *)
CampaignInv == Good(srv, host) /\ pass \in Pass

LEMMA InvInit == CampaignInit => CampaignInv
<1> SUFFICES ASSUME CampaignInit
             PROVE  CampaignInv
  OBVIOUS
<1> DEFINE old == [phase |-> "old", build |-> Bootstrap]
<1>1. /\ srv.campaign = [c \in Campaigns |-> "new"]
      /\ srv.row = [c \in Campaigns |-> [a \in Agents |-> NoRow]]
      /\ srv.fence = {} /\ srv.sequence = [a \in Agents |-> 0]
      /\ srv.conn = [a \in Agents |-> old] /\ srv.active = [a \in Agents |-> 0]
  BY DEF CampaignInit
<1>2. NoRow \in Row
  <2>1. 0 \in 0 .. MaxSequence /\ 0 \in 0 .. MaxGeneration
    BY CampaignAssumption
  <2> QED
    BY <2>1 DEF NoRow, Row, States
<1>3. old \in Connection /\ old.build = Bootstrap
  BY DEF Connection, Builds
<1>4. srv \in Server
  <2>1. 0 \in 0 .. MaxSequence /\ 0 \in 0 .. MaxActive
    BY CampaignAssumption
  <2> HIDE DEF old, Row, Connection
  <2> QED
    BY <1>2, <1>3, <2>1 DEF CampaignInit, Server, old
<1>5. /\ host \in [Agents -> Host]
      /\ \A a \in Agents : /\ host[a].build = Bootstrap /\ host[a].floor = 0
                           /\ host[a].commands = {} /\ host[a].mail = {} /\ host[a].outcome = {}
  <2>1. 0 \in 0 .. MaxSequence
    BY CampaignAssumption
  <2> QED
    BY <2>1 DEF CampaignInit, Host, Builds
<1>6. \A c \in Campaigns, a \in Agents : srv.row[c][a] = NoRow
  BY <1>1
<1>7. /\ ~NoRow.cordoned /\ NoRow.state = "none" /\ NoRow.action = "none"
      /\ ~IsActive(NoRow) /\ ~Draining(NoRow)
  BY DEF NoRow, IsActive, Draining
<1>8. RowsOK(srv)
  BY <1>6, <1>7 DEF RowsOK, RowOK
<1>9. SeqsOK(srv, host)
  BY <1>6, <1>7 DEF SeqsOK, SeqOK
<1>10. UniqueOK(srv)
  BY <1>6, <1>7 DEF UniqueOK, ActiveIn
<1>11. HostsOK(srv, host)
  BY <1>1, <1>3, <1>5 DEF HostsOK, HostOK
<1>12. CohortsOK(srv)
  <2>1. \A c \in Campaigns : Out(srv, c) = {}
    BY <1>6, <1>7, MembersFacts DEF Out
  <2>2. Cardinality({}) <= MaxUnavailable
    BY FS_EmptySet, CampaignAssumption
  <2> QED
    BY <2>1, <2>2 DEF CohortsOK, CohortOK
<1>13. FencesOK(srv, host)
  BY <1>1, <1>5, <1>6, <1>7 DEF FencesOK, FenceOK, Outs, Sealed
<1>14. pass \in Pass
  BY IdlePass DEF CampaignInit
<1> QED
  BY <1>4, <1>5, <1>8, <1>9, <1>10, <1>11, <1>12, <1>13, <1>14 DEF CampaignInv, Good

LEMMA AdministratorGood ==
    ASSUME Good(srv, host), Administrator
    PROVE  Good(srv', host')
<1>1. PICK c \in Campaigns :
        \/ \E up \in SUBSET Agents : CreateAgentUpdateCampaign(c, up)
        \/ PauseAgentUpdateCampaign(c)
        \/ ResumeAgentUpdateCampaign(c) \/ CancelAgentUpdateCampaign(c)
        \/ \E a \in Members(c) : RetryRollback(c, a) \/ RetryStage(c, a)
  BY DEF Administrator
<1> QED
  BY <1>1, CreateGood, PauseGood, ResumeGood, CancelGood, RetryRollbackGood, RetryStageGood

LEMMA WorkerGood ==
    ASSUME Good(srv, host), Worker
    PROVE  Good(srv', host')
<1>1. PICK a \in Agents :
        \/ \E late, dwelt \in BOOLEAN : CheckReconcile(a, late, dwelt)
        \/ \E late \in BOOLEAN, up \in Readings : CheckAdvance(a, late, up)
        \/ CheckAnswer(a)
        \/ \E c \in Campaigns : \/ ReportDownloading(c, a) \/ ReportStageFailed(c, a)
                                \/ \E up \in Readings : ReportStaged(c, a, up)
        \/ \E o \in host[a].outcome, lost \in BOOLEAN :
              \/ AcknowledgeOnly(a, o, lost) \/ ReportRootAction(a, o, lost)
              \/ ReportFailed(a, o, lost)
              \/ \E late, dwelt \in BOOLEAN : ReportHealthy(a, o, late, dwelt, lost)
  BY DEF Worker
<1>2. ASSUME \/ \E late, dwelt \in BOOLEAN : CheckReconcile(a, late, dwelt)
             \/ \E late \in BOOLEAN, up \in Readings : CheckAdvance(a, late, up)
             \/ CheckAnswer(a)
      PROVE  Good(srv', host')
  BY <1>2, CheckReconcileGood, CheckAdvanceGood, CheckAnswerGood
<1>3. ASSUME NEW c \in Campaigns,
             \/ ReportDownloading(c, a) \/ ReportStageFailed(c, a)
             \/ \E up \in Readings : ReportStaged(c, a, up)
      PROVE  Good(srv', host')
  BY <1>3, StageReportsGood
<1>4. ASSUME NEW o \in host[a].outcome, NEW lost \in BOOLEAN,
             \/ AcknowledgeOnly(a, o, lost) \/ ReportRootAction(a, o, lost)
             \/ ReportFailed(a, o, lost)
             \/ \E late, dwelt \in BOOLEAN : ReportHealthy(a, o, late, dwelt, lost)
      PROVE  Good(srv', host')
  BY <1>4, AcknowledgeOnlyGood, ReportRootActionGood, ReportFailedGood, ReportHealthyGood
<1> QED
  BY <1>1, <1>2, <1>3, <1>4

LEMMA MaintenanceGood ==
    ASSUME CampaignInv, Maintenance
    PROVE  Good(srv', host')
<1>1. CASE \E late \in SUBSET Agents : BeginPass(late)
  BY <1>1 DEF BeginPass, CampaignInv
<1>2. CASE \E i \in pass.items :
             \/ \E late \in BOOLEAN, up \in Readings : PassAdvance(i, late, up)
             \/ \E late, dwelt \in BOOLEAN : PassReconcile(i, late, dwelt)
             \/ PassBlock(i)
  BY <1>2, PassAdvanceGood, PassReconcileGood, PassBlockGood DEF CampaignInv
<1>3. CASE \E r \in pass.releases, atHand \in BOOLEAN : PassRelease(r, atHand)
  BY <1>3, PassReleaseGood DEF CampaignInv
<1>4. CASE EndPass
  BY <1>4, EndPassGood DEF CampaignInv
<1> QED
  BY <1>1, <1>2, <1>3, <1>4 DEF Maintenance

LEMMA DisconnectGood ==
    ASSUME NEW a \in Agents, Good(srv, host), Disconnect(a)
    PROVE  Good(srv', host')
BY DroppedGood DEF Disconnect

LEMMA TrafficStepGood ==
    ASSUME Good(srv, host), Traffic
    PROVE  Good(srv', host')
<1>1. CASE Restart
  BY <1>1, RestartGood
<1>2. ASSUME NEW a \in Agents,
             \/ BeginRequest(a) \/ EndRequest(a) \/ Connect(a) \/ Disconnect(a)
             \/ \E late \in BOOLEAN : RecordFreshTunnel(a, late)
      PROVE  Good(srv', host')
  BY <1>2, BeginRequestGood, EndRequestGood, ConnectGood, DisconnectGood, RecordFreshTunnelGood
<1> QED
  BY <1>1, <1>2 DEF Traffic

LEMMA HostsGood ==
    ASSUME Good(srv, host), Hosts
    PROVE  Good(srv', host')
<1>1. PICK a \in Agents :
        \/ Deliver(a)
        \/ \E k \in host[a].commands : Execute(a, k) \/ Fail(a, k)
        \/ \E k \in Outstanding(a) : ExpireCommand(a, k)
  BY DEF Hosts
<1> QED
  BY <1>1, DeliverGood, ExecuteGood, FailGood, ExpireCommandGood

LEMMA PassNext ==
    ASSUME pass \in Pass, CampaignNext
    PROVE  pass' \in Pass
<1>1. CASE Administrator
  BY <1>1 DEF Administrator, CreateAgentUpdateCampaign, PauseAgentUpdateCampaign,
       ResumeAgentUpdateCampaign, CancelAgentUpdateCampaign, RetryRollback, RetryStage,
       Changeable, Locked
<1>2. CASE Worker
  <2>1. PICK a \in Agents :
          \/ \E late, dwelt \in BOOLEAN : CheckReconcile(a, late, dwelt)
          \/ \E late \in BOOLEAN, up \in Readings : CheckAdvance(a, late, up)
          \/ CheckAnswer(a)
          \/ \E c \in Campaigns : \/ ReportDownloading(c, a)
                                  \/ \E up \in Readings : ReportStaged(c, a, up)
                                  \/ ReportStageFailed(c, a)
          \/ \E o \in host[a].outcome, lost \in BOOLEAN :
                \/ AcknowledgeOnly(a, o, lost)
                \/ ReportRootAction(a, o, lost)
                \/ ReportFailed(a, o, lost)
                \/ \E late, dwelt \in BOOLEAN : ReportHealthy(a, o, late, dwelt, lost)
    BY <1>2 DEF Worker
  <2>2. \A late, dwelt : CheckReconcile(a, late, dwelt) => pass' = pass
    BY DEF CheckReconcile, Asks, Locked
  <2>3. \A late, up : CheckAdvance(a, late, up) => pass' = pass
    BY DEF CheckAdvance, Asks, Locked
  <2>4. CheckAnswer(a) => pass' = pass
    BY DEF CheckAnswer, Asks, Locked
  <2>5. \A c, up : ReportDownloading(c, a) \/ ReportStaged(c, a, up) \/ ReportStageFailed(c, a)
                    => pass' = pass
    BY DEF ReportDownloading, ReportStaged, ReportStageFailed, Staging, Locked
  <2>6. \A o, lost : Acknowledged(a, o, lost) => pass' = pass
    BY DEF Acknowledged, Locked
  <2>7. \A o, lost : AcknowledgeOnly(a, o, lost) \/ ReportRootAction(a, o, lost)
                       \/ ReportFailed(a, o, lost) => pass' = pass
    BY <2>6 DEF AcknowledgeOnly, ReportRootAction, ReportFailed
  <2>8. \A o, late, dwelt, lost : ReportHealthy(a, o, late, dwelt, lost) => pass' = pass
    BY <2>6 DEF ReportHealthy
  <2> QED
    BY <2>1, <2>2, <2>3, <2>4, <2>5, <2>7, <2>8
<1>3. CASE Traffic
  BY <1>3, IdlePass DEF Traffic, Restart, BeginRequest, EndRequest, Connect, Disconnect,
       RecordFreshTunnel, Locked
<1>4. CASE Hosts
  <2>1. ASSUME NEW a, NEW k, Execute(a, k)
        PROVE  pass' = pass
    BY <2>1 DEF Execute
  <2>2. \A a, k : Fail(a, k) \/ ExpireCommand(a, k) => pass' = pass
    BY DEF Fail, ExpireCommand
  <2>3. \A a : Deliver(a) => pass' = pass
    BY DEF Deliver
  <2> QED
    BY <1>4, <2>1, <2>2, <2>3 DEF Hosts
<1>5. CASE Maintenance
  <2>1. ASSUME NEW late \in SUBSET Agents, BeginPass(late)
        PROVE  pass' \in Pass
    BY <2>1 DEF BeginPass, Pass
  <2>2. ASSUME NEW i \in pass.items, pass' = [pass EXCEPT !.items = @ \ {i}]
        PROVE  pass' \in Pass
    BY <2>2 DEF Pass
  <2>3. ASSUME NEW r \in pass.releases, pass' = [pass EXCEPT !.releases = @ \ {r}]
        PROVE  pass' \in Pass
    BY <2>3 DEF Pass
  <2>4. ASSUME EndPass
        PROVE  pass' \in Pass
    BY <2>4, IdlePass DEF EndPass
  <2> QED
    BY <1>5, <2>1, <2>2, <2>3, <2>4
       DEF Maintenance, PassAdvance, PassReconcile, PassBlock, NextItem, PassRelease
<1> QED
  BY <1>1, <1>2, <1>3, <1>4, <1>5 DEF CampaignNext

LEMMA InvNext == CampaignInv /\ [CampaignNext]_campaignVars => CampaignInv'
<1> SUFFICES ASSUME CampaignInv, [CampaignNext]_campaignVars
             PROVE  CampaignInv'
  OBVIOUS
<1>1. CASE CampaignNext
  <2>1. Good(srv', host')
    BY <1>1, AdministratorGood, WorkerGood, MaintenanceGood, TrafficStepGood, HostsGood
       DEF CampaignNext, CampaignInv
  <2>2. pass' \in Pass
    BY <1>1, PassNext DEF CampaignInv
  <2>3. CampaignInv' = (Good(srv', host') /\ pass' \in Pass')
    BY DEF CampaignInv, Good, Server, Row, Connection
  <2> QED
    BY <2>1, <2>2, <2>3 DEF Pass
<1>2. CASE UNCHANGED campaignVars
  BY <1>2 DEF campaignVars, CampaignInv
<1> QED
  BY <1>1, <1>2

(* The inductive invariant holds in every reachable state, whatever the    *)
(* administrators, workers, maintenance passes, tunnels and hosts do in    *)
(* between (the handlers of agent_updates.go).                             *)
THEOREM CampaignInvariant == CampaignSpec => []CampaignInv
<1> QED
  BY InvInit, InvNext, PTL DEF CampaignSpec

(* The campaign tables, the fence, the commands and the pass stay typed:   *)
(* no handler writes a row outside its columns' values, signs past the     *)
(* last sequence or counts a request below zero.                           *)
THEOREM CampaignTypes == CampaignSpec => []CampaignTypeOK
<1>1. CampaignInv => CampaignTypeOK
  BY DEF CampaignInv, Good, CampaignTypeOK, Pass
<1> QED
  BY <1>1, CampaignInvariant, PTL

(* With an agent in at most one campaign, routing skips exactly the agents *)
(* the tables cordon, and an agent whose host may still execute a signed   *)
(* command is fenced and serves no public request, through pauses,         *)
(* cancellations, retries, timeouts, passes and restarts                   *)
(* (tryAdvanceAgentUpdateAssignmentLocked, reloadAgentUpdateCordons).      *)
THEOREM FenceIsSound == CampaignSpec => []FenceSound
<1>1. CampaignInv => FenceSound
  <2> SUFFICES ASSUME CampaignInv, Separate
               PROVE  QuarantinedWhileCommanded /\ FenceMatchesRows
    BY DEF FenceSound
  <2>1. Good(srv, host) /\ srv \in Server /\ host \in [Agents -> Host]
    BY DEF CampaignInv, Good
  <2>2. \A a \in Agents : FenceOK(srv, host, a)
    BY <2>1 DEF Good, FencesOK
  <2>3. QuarantinedWhileCommanded
    <3> SUFFICES ASSUME NEW a \in Agents, NEW k \in Outstanding(a)
                 PROVE  a \in srv.fence /\ srv.active[a] = 0
      BY DEF QuarantinedWhileCommanded
    <3>1. k \in Outs(host, a) /\ k.campaign \in Campaigns
      BY <2>1, HostFields DEF Outstanding, Outs, Command
    <3>2. Sealed(srv.row[k.campaign][a])
      BY <2>2, <3>1 DEF FenceOK
    <3> QED
      BY <2>2, <3>1, <3>2 DEF FenceOK, Sealed
  <2>4. FenceMatchesRows
    <3>1. \A c \in Campaigns, a \in Agents : srv.row[c][a].cordoned => c \in ActiveIn(srv, a)
      BY <2>1, RowFields, CordonedIsActive DEF Good, RowsOK, ActiveIn
    <3>2. \A a \in Agents : a \in srv.fence <=> \E c \in Campaigns : srv.row[c][a].cordoned
      BY <2>2 DEF FenceOK
    <3>3. srv.fence \subseteq Agents
      BY <2>1 DEF Server
    <3> QED
      BY <3>1, <3>2, <3>3 DEF FenceMatchesRows, ActiveIn
  <2> QED
    BY <2>3, <2>4
<1> QED
  BY <1>1, CampaignInvariant, PTL

LEMMA OrdinalFacts ==
    ASSUME NEW c \in Campaigns, NEW a \in Members(c)
    PROVE  Ordinal(c, a) \in Nat \ {0}
<1>1. \E i \in DOMAIN members[c] : members[c][i] = a
  BY DEF Members
<1>2. Ordinal(c, a) \in DOMAIN members[c]
  BY <1>1 DEF Ordinal
<1>3. members[c] \in Seq(Agents)
  BY CampaignAssumption
<1> QED
  BY <1>2, <1>3

LEMMA CohortNoFacts ==
    ASSUME NEW i \in Nat \ {0}
    PROVE  /\ CohortNo(i) \in Nat
           /\ i <= CanaryCount => CohortNo(i) = 0
           /\ i > CanaryCount => CohortNo(i) > 0
<1>1. CASE i <= CanaryCount
  BY <1>1, CampaignAssumption DEF CohortNo
<1>2. CASE i > CanaryCount
  <2>1. i - CanaryCount - 1 \in Nat /\ WaveSize \in Nat \ {0} /\ CanaryCount \in Nat
    BY <1>2, CampaignAssumption
  <2>2. \A n \in Nat, w \in Nat \ {0} : n \div w \in Nat
    OBVIOUS
  <2>3. (i - CanaryCount - 1) \div WaveSize \in Nat
    BY <2>1, <2>2
  <2>4. CohortNo(i) = 1 + (i - CanaryCount - 1) \div WaveSize
    BY <1>2, <2>1 DEF CohortNo
  <2> QED
    BY <1>2, <2>1, <2>3, <2>4
<1> QED
  BY <1>1, <1>2, CampaignAssumption

(* No more agents are out of service than the policy allows, none beyond   *)
(* the canaries before every canary has succeeded, and never agents of two *)
(* waves at once (agentUpdateCohortEligibleQuery).                         *)
THEOREM RolloutIsBounded == CampaignSpec => []RolloutBounded
<1>1. CampaignInv => RolloutBounded
  <2> SUFFICES ASSUME CampaignInv, NEW c \in Campaigns
               PROVE  /\ Cardinality(Out(srv, c)) <= MaxUnavailable
                      /\ \A a \in Out(srv, c), b \in Members(c) :
                           /\ Ordinal(c, a) > CanaryCount /\ Ordinal(c, b) <= CanaryCount
                                => srv.row[c][b].state = "succeeded"
                           /\ b \in Out(srv, c) => CohortNo(Ordinal(c, a)) = CohortNo(Ordinal(c, b))
    BY DEF RolloutBounded, Out
  <2>1. CohortOK(srv, c) /\ RowsOK(srv) /\ srv \in Server
    BY DEF CampaignInv, Good, CohortsOK
  <2>2. Cardinality(Out(srv, c)) <= MaxUnavailable
    BY <2>1 DEF CohortOK
  <2>3. \A a \in Members(c) : Ordinal(c, a) \in Nat \ {0} /\ CohortNo(Ordinal(c, a)) \in Nat
    BY OrdinalFacts, CohortNoFacts
  <2>4. ASSUME NEW a \in Out(srv, c), NEW b \in Members(c),
               CohortNo(Ordinal(c, b)) < CohortNo(Ordinal(c, a))
        PROVE  srv.row[c][b].state = "succeeded"
    BY <2>1, <2>4 DEF CohortOK, Earlier
  <2>5. ASSUME NEW a \in Out(srv, c), NEW b \in Members(c),
               Ordinal(c, a) > CanaryCount, Ordinal(c, b) <= CanaryCount
        PROVE  srv.row[c][b].state = "succeeded"
    <3>1. a \in Members(c)
      BY DEF Out
    <3>2. CohortNo(Ordinal(c, b)) = 0 /\ CohortNo(Ordinal(c, a)) > 0
      BY <2>3, <2>5, <3>1, CohortNoFacts
    <3> QED
      BY <2>4, <3>2
  <2>6. \A a \in Out(srv, c) : a \in Members(c) /\ srv.row[c][a].state # "succeeded"
    BY <2>1, MembersFacts DEF Out, RowsOK, RowOK
  <2>7. ASSUME NEW a \in Out(srv, c), NEW b \in Out(srv, c)
        PROVE  CohortNo(Ordinal(c, a)) = CohortNo(Ordinal(c, b))
    <3>1. ~(CohortNo(Ordinal(c, b)) < CohortNo(Ordinal(c, a)))
      BY <2>4, <2>6
    <3>2. ~(CohortNo(Ordinal(c, a)) < CohortNo(Ordinal(c, b)))
      BY <2>4, <2>6
    <3> QED
      BY <2>3, <2>6, <3>1, <3>2
  <2> QED
    BY <2>2, <2>5, <2>7
<1> QED
  BY <1>1, CampaignInvariant, PTL

(***************************************************************************)
(* Coming back into service.  A row that holds a command is uncordoned by  *)
(* the settling of its evidence and by nothing else.                       *)
(***************************************************************************)
Holds(x) == x.cordoned /\ x.authorization # "none"

HoldsOn(s, t) ==
    \A c \in Campaigns, a \in Agents : Holds(s.row[c][a]) => Holds(t.row[c][a])
Stays(s, t) ==
    \A c \in Campaigns, a \in Agents : Holds(s.row[c][a]) => t.row[c][a].cordoned

(* What ReturnsProven says of a step to the server t and the hosts h.      *)
Proven(s, t, h) ==
    \A c \in Campaigns, a \in Agents :
        Holds(s.row[c][a]) /\ ~t.row[c][a].cordoned =>
          /\ t.conn[a].phase # "none" /\ t.conn[a].build = h[a].build
          /\ (h[a].build = c) <=> (t.row[c][a].state = "succeeded")
          /\ Outs(h, a) = {}

LEMMA HoldsOnTransitive ==
    ASSUME NEW s, NEW t, NEW u, HoldsOn(s, t), HoldsOn(t, u)
    PROVE  HoldsOn(s, u)
BY DEF HoldsOn

LEMMA SameRowsHold ==
    ASSUME NEW s, NEW t, t.row = s.row
    PROVE  HoldsOn(s, t)
BY DEF HoldsOn

LEMMA StaysProven ==
    ASSUME NEW s, NEW t, NEW h, Stays(s, t)
    PROVE  Proven(s, t, h)
BY DEF Stays, Proven

LEMMA HoldsOnProven ==
    ASSUME NEW s, NEW t, NEW h, HoldsOn(s, t)
    PROVE  Proven(s, t, h)
BY DEF HoldsOn, Holds, Proven

LEMMA PutHolds ==
    ASSUME NEW s \in Server, NEW c \in Campaigns, NEW a \in Agents, NEW y \in Row,
           Holds(s.row[c][a]) => Holds(y)
    PROVE  HoldsOn(s, Put(s, c, a, y))
BY PutFacts DEF HoldsOn

LEMMA PutStays ==
    ASSUME NEW s \in Server, NEW c \in Campaigns, NEW a \in Agents, NEW y \in Row,
           Holds(s.row[c][a]) => y.cordoned
    PROVE  Stays(s, Put(s, c, a, y))
BY PutFacts DEF Stays, Holds

LEMMA PauseRunningHolds ==
    ASSUME NEW s \in Server, NEW c \in Campaigns
    PROVE  PauseRunning(s, c).row = s.row
BY PauseRunningFacts DEF SameButCampaigns

LEMMA BlockedHolds ==
    ASSUME NEW s \in Server, NEW c \in Campaigns, NEW a \in Agents, NEW r \in BOOLEAN,
           NEW x, x = s.row[c][a]
    PROVE  HoldsOn(s, PauseRunning(Put(s, c, a, [Blocked(x) EXCEPT !.reported = r]), c))
<1> DEFINE y == [Blocked(x) EXCEPT !.reported = r]
<1>1. x \in Row
  BY RowFields
<1>2. y \in Row /\ y.cordoned = x.cordoned /\ y.authorization = x.authorization
  BY <1>1 DEF Blocked, Row, States
<1> HIDE DEF y
<1>3. HoldsOn(s, Put(s, c, a, y)) /\ Put(s, c, a, y) \in Server
  BY <1>2, PutHolds, PutFacts DEF Holds
<1>4. HoldsOn(s, PauseRunning(Put(s, c, a, y), c))
  BY <1>3, PauseRunningHolds, SameRowsHold, HoldsOnTransitive
<1> QED
  BY <1>4 DEF y

LEMMA BlockHolds ==
    ASSUME NEW s \in Server, NEW c \in Campaigns, NEW a \in Agents
    PROVE  HoldsOn(s, Block(s, c, a))
<1> DEFINE x == s.row[c][a]
<1>1. x \in Row
  BY RowFields
<1>2. x.reported \in BOOLEAN /\ [Blocked(x) EXCEPT !.reported = x.reported] = Blocked(x)
  BY <1>1 DEF Blocked, Row
<1> QED
  BY <1>2, BlockedHolds DEF Block

(* Undoing a drain drops no command: there is none yet.                    *)
LEMMA UndoneHolds ==
    ASSUME NEW s \in Server, NEW c \in Campaigns, NEW a \in Agents,
           NEW state \in {"blocked", "staged"}, ~Holds(s.row[c][a])
    PROVE  HoldsOn(s, PauseRunning(Unfence(s, c, a, state), c))
<1> DEFINE y == Returned(s.row[c][a], state)
           u == Put(s, c, a, y)
<1>1. y \in Row
  <2>1. s.row[c][a] \in Row /\ state \in States
    BY RowFields DEF States
  <2> HIDE DEF States
  <2> QED
    BY <2>1 DEF Returned, Row
<1> HIDE DEF y
<1>2. HoldsOn(s, u) /\ u \in Server
  BY <1>1, PutHolds, PutFacts
<1> HIDE DEF u
<1>3. ClearFence(u, a).row = u.row /\ ClearFence(u, a) \in Server
  BY <1>2, FenceFacts
<1>4. PauseRunning(ClearFence(u, a), c).row = u.row
  BY <1>3, PauseRunningHolds
<1> QED
  BY <1>2, <1>4, SameRowsHold, HoldsOnTransitive DEF Unfence, u, y

LEMMA IssueHolds ==
    ASSUME NEW s \in Server, NEW c \in Campaigns, NEW a \in Agents,
           NEW action \in {"activate", "rollback"}
    PROVE  HoldsOn(s, Issue(s, c, a, action))
<1> DEFINE x == s.row[c][a]
           y == [x EXCEPT !.action = action, !.authorization = action,
                          !.sequence = s.sequence[a] + 1, !.unexpired = TRUE]
           u == Put(s, c, a, y)
<1>1. CASE s.sequence[a] = MaxSequence
  BY <1>1, SameRowsHold DEF Issue
<1>2. CASE s.sequence[a] # MaxSequence
  <2>1. x \in Row /\ s.sequence[a] + 1 \in 0 .. MaxSequence
    BY <1>2, RowFields
  <2>2. y \in Row /\ y.cordoned = x.cordoned /\ y.authorization = action
    BY <2>1 DEF Row
  <2> HIDE DEF y
  <2>3. HoldsOn(s, u) /\ u \in Server
    BY <2>2, PutHolds, PutFacts DEF Holds
  <2>4. Issue(s, c, a, action) = [u EXCEPT !.sequence[a] = @ + 1]
    BY <1>2 DEF Issue, y
  <2> HIDE DEF u
  <2>5. Issue(s, c, a, action).row = u.row
    BY <2>3, <2>4 DEF Server
  <2> QED
    BY <2>3, <2>5, SameRowsHold, HoldsOnTransitive
<1> QED
  BY <1>1, <1>2

LEMMA AuthorizeDrainedHolds ==
    ASSUME NEW s, NEW h, Good(s, h), NEW c \in Campaigns, NEW a \in Agents,
           NEW late \in BOOLEAN, NEW up
    PROVE  HoldsOn(s, AuthorizeDrained(s, c, a, late, up))
<1>1. s \in Server
  BY DEF Good
<1>2. CASE ~Draining(s.row[c][a]) \/ s.campaign[c] # "running"
  BY <1>2, SameRowsHold DEF AuthorizeDrained
<1>3. CASE Draining(s.row[c][a]) /\ s.campaign[c] = "running"
  <2>1. ~Holds(s.row[c][a])
    BY <1>3 DEF Good, RowsOK, RowOK, Holds
  <2>2. HoldsOn(s, PauseRunning(Unfence(s, c, a, "blocked"), c))
    BY <1>1, <2>1, UndoneHolds
  <2>3. HoldsOn(s, PauseRunning(Unfence(s, c, a, "staged"), c))
    BY <1>1, <2>1, UndoneHolds
  <2>4. HoldsOn(s, Issue(s, c, a, "activate")) /\ HoldsOn(s, s)
    BY <1>1, IssueHolds, SameRowsHold
  <2> QED
    BY <1>3, <2>2, <2>3, <2>4 DEF AuthorizeDrained
<1> QED
  BY <1>2, <1>3

LEMMA TryAdvanceHolds ==
    ASSUME NEW s, NEW h, Good(s, h), NEW c \in Campaigns, NEW a \in Members(c),
           NEW late \in BOOLEAN, NEW up
    PROVE  HoldsOn(s, TryAdvance(s, c, a, late, up))
<1> DEFINE x == s.row[c][a]
           u == SetFence(Put(s, c, a, Cordoned(x)), a)
<1>1. a \in Agents /\ s \in Server
  BY MembersFacts DEF Good
<1>2. HoldsOn(s, s) /\ HoldsOn(s, PauseRunning(s, c)) /\ HoldsOn(s, AuthorizeDrained(s, c, a, late, up))
  BY <1>1, SameRowsHold, PauseRunningHolds, AuthorizeDrainedHolds
<1>3. ASSUME x.state = "staged", Hindrances(s, c, a) = {},
             ~(Cardinality(Unavailable(s, c)) >= InFlightLimit(c, a))
      PROVE  HoldsOn(s, AuthorizeDrained(u, c, a, FALSE, up))
  <2>1. Good(u, h)
    BY <1>3, CordonGood
  <2>2. x \in Row /\ ~x.cordoned
    BY <1>1, <1>3, RowFields DEF Good, RowsOK, RowOK
  <2>3. Cordoned(x) \in Row
    <3>1. "cordoned" \in States /\ 0 \in 0 .. MaxSequence
      BY CampaignAssumption DEF States
    <3> HIDE DEF States
    <3> QED
      BY <2>2, <3>1 DEF Cordoned, Row
  <2>4. HoldsOn(s, u)
    <3>1. HoldsOn(s, Put(s, c, a, Cordoned(x))) /\ Put(s, c, a, Cordoned(x)) \in Server
      BY <1>1, <2>2, <2>3, PutHolds, PutFacts DEF Holds
    <3>2. u.row = Put(s, c, a, Cordoned(x)).row
      BY <1>1, <3>1, FenceFacts
    <3>3. HoldsOn(Put(s, c, a, Cordoned(x)), u)
      BY <3>2, SameRowsHold
    <3> QED
      BY <3>1, <3>3, HoldsOnTransitive
  <2> HIDE DEF u
  <2>5. HoldsOn(u, AuthorizeDrained(u, c, a, FALSE, up))
    BY <1>1, <2>1, AuthorizeDrainedHolds
  <2> QED
    BY <2>4, <2>5, HoldsOnTransitive
<1> QED
  BY <1>2, <1>3 DEF TryAdvance

LEMMA ReportedHolds ==
    ASSUME NEW s, NEW h, Good(s, h), NEW c \in Campaigns, NEW a \in Agents,
           NEW state \in {"staging", "staged", "failed"}, NEW action \in {"stage", "none"},
           s.row[c][a].state \in {"pending", "staging"}
    PROVE  HoldsOn(s, Reported(s, c, a, state, action))
<1> DEFINE x == s.row[c][a]
           y == [x EXCEPT !.state = state, !.action = action]
           u == Put(s, c, a, y)
<1>1. s \in Server /\ x \in Row /\ ~x.cordoned
  BY RowFields DEF Good, RowsOK, RowOK
<1>2. y \in Row
  <2>1. state \in States
    BY DEF States
  <2> HIDE DEF x, States
  <2> QED
    BY <1>1, <2>1 DEF Row
<1>3. HoldsOn(s, u) /\ u \in Server
  BY <1>1, <1>2, PutHolds, PutFacts DEF Holds
<1>4. Reported(s, c, a, state, action) = ClearFence(u, a)
  BY <1>1 DEF Reported
<1> HIDE DEF u
<1>5. ClearFence(u, a).row = u.row
  BY <1>3, FenceFacts
<1>6. HoldsOn(u, ClearFence(u, a))
  BY <1>5, SameRowsHold
<1> QED
  BY <1>3, <1>4, <1>6, HoldsOnTransitive

(* The one way back: a receipt, and a connection made after it that shows  *)
(* what the receipt attests.                                               *)
LEMMA SettleFacts ==
    ASSUME NEW s \in Server, NEW c \in Campaigns, NEW a \in Agents,
           NEW state \in States
    PROVE  /\ Settle(s, c, a, state) \in Server
           /\ Settle(s, c, a, state).row[c][a].state = state
           /\ \A d \in Campaigns, b \in Agents :
                d # c \/ b # a => Settle(s, c, a, state).row[d][b] = s.row[d][b]
           /\ Settle(s, c, a, state).conn[a].phase # "none" <=> s.conn[a].phase # "none"
           /\ Settle(s, c, a, state).conn[a].build = s.conn[a].build
<1> DEFINE t == Settle(s, c, a, state)
           y == Returned(s.row[c][a], state)
           u == Unfence(s, c, a, state)
<1>1. y \in Row /\ y.state = state
  <2>1. s.row[c][a] \in Row /\ state \in States
    BY RowFields
  <2> QED
    BY <2>1 DEF Returned, Row
<1> HIDE DEF y
<1>2. /\ u \in Server /\ u.row = Put(s, c, a, y).row /\ u.conn = s.conn
  BY <1>1, PutFacts, FenceFacts DEF Unfence, y
<1>3. /\ u.row[c][a].state = state
      /\ \A d \in Campaigns, b \in Agents : d # c \/ b # a => u.row[d][b] = s.row[d][b]
  BY <1>1, <1>2, PutFacts
<1>4. t = [u EXCEPT !.conn[a] = OldConnection(@)]
  BY DEF Settle
<1> HIDE DEF u, t
<1>5. u.conn[a] \in Connection /\ OldConnection(u.conn[a]) \in Connection
  BY <1>2, RowFields, OldConnectionFacts DEF Server
<1>6. /\ t.row = u.row /\ t.conn[a] = OldConnection(u.conn[a])
      /\ t \in Server
  <2>1. [u.conn EXCEPT ![a] = OldConnection(u.conn[a])] \in [Agents -> Connection]
    BY <1>2, <1>5 DEF Server
  <2>2. t.conn = [u.conn EXCEPT ![a] = OldConnection(u.conn[a])] /\ t.row = u.row
    BY <1>2, <1>4 DEF Server
  <2>3. t.conn[a] = OldConnection(u.conn[a])
    BY <1>2, <2>2 DEF Server
  <2>4. t \in Server
    BY <1>2, <1>4, <2>1 DEF Server
  <2> QED
    BY <2>2, <2>3, <2>4
<1> QED
  BY <1>2, <1>3, <1>5, <1>6, OldConnectionFacts DEF t

LEMMA SettleProven ==
    ASSUME NEW s, NEW h, Good(s, h), NEW c \in Campaigns, NEW a \in Agents,
           NEW state \in {"failed", "succeeded"},
           s.row[c][a].cordoned, EvidenceComplete(s, c, a),
           (s.row[c][a].result = c) <=> (state = "succeeded")
    PROVE  Proven(s, Settle(s, c, a, state), h)
<1> DEFINE t == Settle(s, c, a, state)
<1>1. s \in Server /\ state \in States
  BY DEF Good, States
<1>2. /\ t.row[c][a].state = state
      /\ \A d \in Campaigns, b \in Agents : d # c \/ b # a => t.row[d][b] = s.row[d][b]
      /\ t.conn[a].phase # "none" <=> s.conn[a].phase # "none"
      /\ t.conn[a].build = s.conn[a].build
  BY <1>1, SettleFacts
<1> HIDE DEF t
<1>3. /\ s.conn[a].phase = "fresh" /\ s.conn[a].build = h[a].build
      /\ h[a].build = s.row[c][a].result /\ s.row[c][a].result # NoBuild
  BY DEF EvidenceComplete, Good, HostsOK, HostOK
<1>4. Outs(h, a) = {}
  BY <1>3, NothingLeft
<1>5. Proven(s, t, h)
  BY <1>2, <1>3, <1>4 DEF Proven, Holds
<1> QED
  BY <1>5 DEF t

LEMMA ProvenOn ==
    ASSUME NEW s, NEW t, NEW u, NEW h, Proven(s, t, h), u.conn = t.conn,
           \A c \in Campaigns, a \in Agents :
              /\ u.row[c][a].cordoned = t.row[c][a].cordoned
              /\ u.row[c][a].state = t.row[c][a].state
    PROVE  Proven(s, u, h)
BY DEF Proven

LEMMA ReleasedProven ==
    ASSUME NEW s, NEW t \in Server, NEW h, NEW c \in Campaigns, Proven(s, t, h)
    PROVE  Proven(s, Finalize(ReleaseNextCohort(t, c)), h)
<1> DEFINE u == ReleaseNextCohort(t, c)
<1>1. /\ u \in Server /\ u.conn = t.conn
      /\ \A d \in Campaigns, b \in Agents :
           \/ u.row[d][b] = t.row[d][b]
           \/ d = c /\ u.row[c][b] = [t.row[c][b] EXCEPT !.action = "stage"]
  BY ReleaseNextCohortFacts
<1> HIDE DEF u
<1>2. Finalize(u).row = u.row /\ Finalize(u).conn = u.conn
  BY <1>1, FinalizeFacts DEF SameButCampaigns
<1>3. ASSUME NEW d \in Campaigns, NEW b \in Agents
      PROVE  /\ Finalize(u).row[d][b].cordoned = t.row[d][b].cordoned
             /\ Finalize(u).row[d][b].state = t.row[d][b].state
  <2>1. t.row[d][b] \in Row
    BY RowFields
  <2>2. CASE u.row[d][b] = t.row[d][b]
    BY <1>2, <2>2
  <2>3. CASE d = c /\ u.row[c][b] = [t.row[c][b] EXCEPT !.action = "stage"]
    BY <1>2, <2>1, <2>3 DEF Row
  <2> QED
    BY <1>1, <2>2, <2>3
<1>4. Proven(s, Finalize(u), h)
  BY <1>1, <1>2, <1>3, ProvenOn
<1> QED
  BY <1>4 DEF u

LEMMA ReconcileRowProven ==
    ASSUME NEW s, NEW h, Good(s, h), NEW c \in Campaigns, NEW a \in Agents,
           NEW late \in BOOLEAN, NEW dwelt \in BOOLEAN
    PROVE  Proven(s, ReconcileRow(s, c, a, late, dwelt), h)
<1> DEFINE x == s.row[c][a]
<1>1. s \in Server /\ x \in Row /\ RowOK(c, a, x)
  BY RowFields DEF Good, RowsOK
<1>2. Proven(s, Block(s, c, a), h) /\ Proven(s, s, h)
  BY <1>1, BlockHolds, SameRowsHold, HoldsOnProven
<1>3. ASSUME x.authorization = "rollback", x.cordoned, EvidenceComplete(s, c, a)
      PROVE  Proven(s, Settle(s, c, a, "failed"), h)
  <2>1. x.result # c
    BY <1>1, <1>3 DEF RowOK
  <2> QED
    BY <1>3, <2>1, SettleProven
<1>4. ASSUME Succeeds(s, c, a, dwelt)
      PROVE  Proven(s, Finalize(ReleaseNextCohort(Settle(s, c, a, "succeeded"), c)), h)
  <2>1. Proven(s, Settle(s, c, a, "succeeded"), h)
    BY <1>4, SettleProven DEF Succeeds
  <2>2. Settle(s, c, a, "succeeded") \in Server
    BY <1>1, SettleFacts DEF States
  <2> QED
    BY <2>1, <2>2, ReleasedProven
<1> QED
  BY <1>2, <1>3, <1>4 DEF ReconcileRow

LEMMA ReconcileAgentProven ==
    ASSUME NEW s, NEW h, Good(s, h), NEW a \in Agents,
           NEW late \in BOOLEAN, NEW dwelt \in BOOLEAN
    PROVE  Proven(s, ReconcileAgent(s, a, late, dwelt), h)
<1>1. CASE ActiveIn(s, a) = {}
  BY <1>1, SameRowsHold, HoldsOnProven DEF ReconcileAgent
<1>2. CASE ActiveIn(s, a) # {}
  <2>1. PICK c \in ActiveIn(s, a) : c = CHOOSE d \in ActiveIn(s, a) : TRUE
    BY <1>2
  <2> QED
    BY <1>2, <2>1, ActiveIsMember, ReconcileRowProven DEF ReconcileAgent
<1> QED
  BY <1>1, <1>2

(* The hosts build what they built, and have no more commands than before. *)
LEMMA ProvenHosts ==
    ASSUME NEW s, NEW t, NEW h, NEW g, Proven(s, t, h),
           \A a \in Agents : g[a].build = h[a].build /\ Outs(g, a) \subseteq Outs(h, a)
    PROVE  Proven(s, t, g)
BY DEF Proven

LEMMA MailDroppedFacts ==
    ASSUME NEW h \in [Agents -> Host], NEW a \in Agents, NEW out, NEW g,
           g = [h EXCEPT ![a].mail = {}, ![a].outcome = out]
    PROVE  \A b \in Agents : g[b].build = h[b].build /\ Outs(g, b) \subseteq Outs(h, b)
<1>1. /\ \A b \in Agents \ {a} : g[b] = h[b]
      /\ g[a].build = h[a].build /\ g[a].floor = h[a].floor
      /\ g[a].commands = h[a].commands /\ g[a].mail = {}
  BY DEF Host
<1> QED
  BY <1>1 DEF Outs

(***************************************************************************)
(* Every step, in turn                                                     *)
(***************************************************************************)
LEMMA CreateStays ==
    ASSUME NEW c \in Campaigns, NEW up, Good(srv, host), CreateAgentUpdateCampaign(c, up)
    PROVE  Stays(srv, srv')
<1> DEFINE fresh(a) == [NoRow EXCEPT !.state = "pending", !.generation = 1,
                          !.action = IF Ordinal(c, a) <= CanaryCount THEN "stage" ELSE "none"]
           rows == [a \in Agents |-> IF a \notin Members(c) THEN srv.row[c][a] ELSE fresh(a)]
<1>1. srv \in Server
  BY DEF Good
<1>2. srv' = [srv EXCEPT !.campaign[c] = "running", !.row[c] = rows]
  BY DEF CreateAgentUpdateCampaign
<1>3. \A a \in Agents : a \notin Members(c) => rows[a] = srv.row[c][a]
  OBVIOUS
<1> HIDE DEF rows
<1>4. \A d \in Campaigns : srv'.row[d] = IF d = c THEN rows ELSE srv.row[d]
  <2> HIDE DEF Row
  <2> QED
    BY <1>1, <1>2 DEF Server
<1>5. ASSUME NEW a \in Members(c)
      PROVE  ~Holds(srv.row[c][a])
  <2>1. a \in Agents /\ ~IsActive(srv.row[c][a])
    BY MembersFacts DEF CreateAgentUpdateCampaign, ActiveIn
  <2> QED
    BY <1>1, <2>1, RowFields, CordonedIsActive DEF Good, RowsOK, Holds
<1> QED
  BY <1>3, <1>4, <1>5 DEF Stays, Holds

LEMMA PauseStays ==
    ASSUME NEW c \in Campaigns, Good(srv, host), PauseAgentUpdateCampaign(c)
    PROVE  Stays(srv, srv')
<1> DEFINE rows == [a \in Agents |->
                      IF Draining(srv.row[c][a]) /\ srv.row[c][a].authorization = "none"
                      THEN [srv.row[c][a] EXCEPT !.state = "staged", !.cordoned = FALSE]
                      ELSE srv.row[c][a]]
           u == [srv EXCEPT !.campaign[c] = "paused", !.row[c] = rows]
<1>1. srv \in Server
  BY DEF Good
<1>2. srv' = PublishCordons(u, c)
  BY DEF PauseAgentUpdateCampaign
<1>3. \A a \in Agents : Holds(srv.row[c][a]) => rows[a] = srv.row[c][a]
  BY DEF Holds
<1> HIDE DEF rows
<1>4. srv'.row = [srv.row EXCEPT ![c] = rows]
  BY <1>1, <1>2 DEF Server, PublishCordons
<1>5. \A d \in Campaigns : srv'.row[d] = IF d = c THEN rows ELSE srv.row[d]
  BY <1>1, <1>4 DEF Server
<1> QED
  BY <1>3, <1>5 DEF Stays, Holds

LEMMA CancelRowStays ==
    ASSUME NEW x \in Row, Holds(x)
    PROVE  CancelRow(x).cordoned
<1>1. ~Releasable(x)
  BY DEF Holds, Releasable
<1>2. RollbackWanted(x, x.state).cordoned
  BY DEF RollbackWanted, Row
<1> QED
  BY <1>1, <1>2 DEF CancelRow, Holds

LEMMA CancelStays ==
    ASSUME NEW c \in Campaigns, Good(srv, host), CancelAgentUpdateCampaign(c)
    PROVE  Stays(srv, srv')
<1> DEFINE rows == [a \in Agents |-> CancelRow(srv.row[c][a])]
           conns == [a \in Agents |-> IF CancelRow(srv.row[c][a]).action = "rollback"
                                           /\ srv.row[c][a] # CancelRow(srv.row[c][a])
                                      THEN OldConnection(srv.conn[a]) ELSE srv.conn[a]]
           u == [srv EXCEPT !.campaign[c] = "cancelled", !.row[c] = rows, !.conn = conns]
<1>1. srv \in Server
  BY DEF Good
<1>2. srv' = PublishCordons(u, c)
  BY DEF CancelAgentUpdateCampaign
<1>3. \A a \in Agents : Holds(srv.row[c][a]) => rows[a].cordoned
  BY <1>1, RowFields, CancelRowStays
<1> HIDE DEF rows, conns
<1>4. srv'.row = [srv.row EXCEPT ![c] = rows]
  BY <1>1, <1>2 DEF Server, PublishCordons
<1>5. \A d \in Campaigns : srv'.row[d] = IF d = c THEN rows ELSE srv.row[d]
  BY <1>1, <1>4 DEF Server
<1> QED
  BY <1>3, <1>5 DEF Stays, Holds

LEMMA RetriesStay ==
    ASSUME NEW c \in Campaigns, NEW a \in Members(c), Good(srv, host),
           RetryRollback(c, a) \/ RetryStage(c, a)
    PROVE  Stays(srv, srv')
<1> DEFINE x == srv.row[c][a]
           others(t) == \A d \in Campaigns, b \in Agents :
                          d # c \/ b # a => t.row[d][b] = srv.row[d][b]
<1>1. a \in Agents /\ srv \in Server /\ x \in Row
  BY MembersFacts, RowFields DEF Good
<1>2. CASE RetryRollback(c, a)
  <2> DEFINE y == RollbackWanted(x, "failed")
             u == Put(srv, c, a, y)
             v == [u EXCEPT !.conn[a] = OldConnection(@)]
  <2>1. srv' = SetFence(v, a)
    BY <1>2 DEF RetryRollback
  <2>2. y.cordoned
    BY <1>1 DEF RollbackWanted, Row
  <2> HIDE DEF y
  <2>3. u.row = [srv.row EXCEPT ![c][a] = y] /\ srv'.row = u.row
    BY <1>1, <2>1 DEF Put, SetFence, Server
  <2>4. srv'.row[c][a] = y /\ others(srv')
    BY <1>1, <2>3 DEF Server
  <2> QED
    BY <2>2, <2>4 DEF Stays, Holds
<1>3. CASE RetryStage(c, a)
  <2> DEFINE y == [NoRow EXCEPT !.state = "pending", !.generation = x.generation + 1]
             u == Put(srv, c, a, y)
  <2>1. srv' = ClearFence(u, a) /\ ~x.cordoned
    BY <1>3 DEF RetryStage
  <2> HIDE DEF y
  <2>2. u.row = [srv.row EXCEPT ![c][a] = y] /\ srv'.row = u.row
    BY <1>1, <2>1 DEF Put, ClearFence, Server
  <2>3. others(srv')
    BY <1>1, <2>2 DEF Server
  <2> QED
    BY <2>1, <2>3 DEF Stays, Holds
<1> QED
  BY <1>2, <1>3

LEMMA AdministratorProven ==
    ASSUME Good(srv, host), Administrator
    PROVE  Proven(srv, srv', host')
<1>1. PICK c \in Campaigns :
        \/ \E up \in SUBSET Agents : CreateAgentUpdateCampaign(c, up)
        \/ PauseAgentUpdateCampaign(c)
        \/ ResumeAgentUpdateCampaign(c) \/ CancelAgentUpdateCampaign(c)
        \/ \E a \in Members(c) : RetryRollback(c, a) \/ RetryStage(c, a)
  BY DEF Administrator
<1>2. CASE ResumeAgentUpdateCampaign(c)
  <2>1. srv'.row = srv.row
    BY <1>2 DEF ResumeAgentUpdateCampaign, Good, Server
  <2> QED
    BY <2>1, SameRowsHold, HoldsOnProven
<1>3. CASE ~ResumeAgentUpdateCampaign(c)
  <2>1. Stays(srv, srv')
    BY <1>1, <1>3, CreateStays, PauseStays, CancelStays, RetriesStay
  <2> QED
    BY <2>1, StaysProven
<1> QED
  BY <1>2, <1>3

LEMMA ReportRootActionHolds ==
    ASSUME NEW a \in Agents, NEW o \in host[a].outcome, NEW lost \in BOOLEAN,
           Good(srv, host), ReportRootAction(a, o, lost)
    PROVE  HoldsOn(srv, srv')
<1> DEFINE c == o.campaign
           x == srv.row[c][a]
           y == [x EXCEPT !.state = "awaiting_tunnel", !.action = "none", !.result = o.result,
                          !.healthy = FALSE, !.activated = @ \/ o.action = "activate"]
<1>1. c \in Campaigns /\ o \in Outcome
  BY CurrentFacts DEF ReportRootAction
<1>2. srv \in Server /\ x \in Row
  BY <1>1, RowFields DEF Good
<1>3. srv' = Dropped(Put(srv, c, a, y), a)
  BY DEF ReportRootAction, ApplyReceipt
<1>4. y \in Row /\ y.cordoned = x.cordoned /\ y.authorization = x.authorization
  <2>1. "awaiting_tunnel" \in States /\ o.result \in Builds
    BY <1>1 DEF States, Outcome
  <2>2. (x.activated \/ o.action = "activate") \in BOOLEAN
    OBVIOUS
  <2> HIDE DEF x, States, Builds
  <2> QED
    BY <1>2, <2>1, <2>2 DEF Row
<1> HIDE DEF y
<1>5. Put(srv, c, a, y) \in Server /\ HoldsOn(srv, Put(srv, c, a, y))
  BY <1>1, <1>2, <1>4, PutFacts, PutHolds DEF Holds
<1>6. HoldsOn(Put(srv, c, a, y), srv')
  BY <1>3, <1>5, DroppedFacts, SameRowsHold
<1> QED
  BY <1>5, <1>6, HoldsOnTransitive

LEMMA ApplyHealthHolds ==
    ASSUME NEW a \in Agents, NEW o \in host[a].outcome, Good(srv, host), IsCurrent(a, o)
    PROVE  HoldsOn(srv, ApplyHealth(srv, a, o))
<1> DEFINE c == o.campaign
           x == srv.row[c][a]
           y == [x EXCEPT !.state = "healthy_dwell", !.healthy = TRUE]
<1>1. c \in Campaigns
  BY CurrentFacts
<1>2. srv \in Server /\ x \in Row
  BY <1>1, RowFields DEF Good
<1>3. y \in Row /\ y.cordoned = x.cordoned /\ y.authorization = x.authorization
  BY <1>2 DEF Row, States
<1> HIDE DEF y
<1>4. HoldsOn(srv, Put(srv, c, a, y))
  BY <1>1, <1>2, <1>3, PutHolds DEF Holds
<1> QED
  BY <1>4 DEF ApplyHealth, y

LEMMA HeldThenProven ==
    ASSUME NEW s, NEW t, NEW u, NEW h, HoldsOn(s, u), Proven(u, t, h)
    PROVE  Proven(s, t, h)
BY DEF HoldsOn, Proven

(* The worker's calls drop a command on its way, and nothing else of a host. *)
LEMMA AsksProven ==
    ASSUME NEW a \in Agents, host \in [Agents -> Host], host' = [host EXCEPT ![a].mail = {}],
           Proven(srv, srv', host)
    PROVE  Proven(srv, srv', host')
<1>1. host' = [host EXCEPT ![a].mail = {}, ![a].outcome = host[a].outcome]
  BY DEF Host
<1>2. \A b \in Agents : host'[b].build = host[b].build /\ Outs(host', b) \subseteq Outs(host, b)
  BY <1>1, MailDroppedFacts
<1> QED
  BY <1>2, ProvenHosts

LEMMA AcknowledgedProven ==
    ASSUME NEW a \in Agents, NEW o \in host[a].outcome, NEW lost \in BOOLEAN,
           host \in [Agents -> Host], Acknowledged(a, o, lost), Proven(srv, srv', host)
    PROVE  Proven(srv, srv', host')
<1>1. PICK out : host' = [host EXCEPT ![a].mail = {}, ![a].outcome = out]
  BY DEF Acknowledged
<1>2. \A b \in Agents : host'[b].build = host[b].build /\ Outs(host', b) \subseteq Outs(host, b)
  <2>1. \A left, g : g = [host EXCEPT ![a].mail = {}, ![a].outcome = left] =>
          \A b \in Agents : g[b].build = host[b].build /\ Outs(g, b) \subseteq Outs(host, b)
    BY MailDroppedFacts
  <2> QED
    BY <1>1, <2>1
<1> QED
  BY <1>2, ProvenHosts

LEMMA ChecksProven ==
    ASSUME NEW a \in Agents, NEW late \in BOOLEAN, NEW dwelt \in BOOLEAN, NEW up, Good(srv, host),
           CheckReconcile(a, late, dwelt) \/ CheckAdvance(a, late, up) \/ CheckAnswer(a)
    PROVE  Proven(srv, srv', host')
<1>1. srv \in Server /\ host \in [Agents -> Host]
  BY DEF Good
<1>2. CASE CheckReconcile(a, late, dwelt)
  <2>1. Proven(srv, srv', host)
    BY <1>2, ReconcileAgentProven DEF CheckReconcile
  <2> QED
    BY <1>1, <1>2, <2>1, AsksProven DEF CheckReconcile, Asks
<1>3. CASE CheckAdvance(a, late, up)
  <2>1. PICK c \in ActiveIn(srv, a) : srv' = TryAdvance(srv, c, a, late, up)
    BY <1>3 DEF CheckAdvance
  <2> QED
    BY <2>1, ActiveIsMember, TryAdvanceHolds, HoldsOnProven
<1>4. CASE CheckAnswer(a)
  <2>1. PICK c \in ActiveIn(srv, a) : /\ Allows(srv.campaign[c], srv.row[c][a].action)
                                      /\ srv' = EnsureAuthorization(srv, c, a)
    BY <1>4 DEF CheckAnswer
  <2>2. c \in Campaigns /\ srv.row[c][a].action \in {"activate", "rollback"}
    BY <2>1 DEF ActiveIn, Allows
  <2>3. HoldsOn(srv, Issue(srv, c, a, srv.row[c][a].action)) /\ HoldsOn(srv, srv)
    BY <1>1, <2>2, IssueHolds, SameRowsHold
  <2>4. HoldsOn(srv, srv')
    BY <2>1, <2>3 DEF EnsureAuthorization
  <2> QED
    BY <2>4, HoldsOnProven
<1> QED
  BY <1>2, <1>3, <1>4

LEMMA StageReportsProven ==
    ASSUME NEW c \in Campaigns, NEW a \in Agents, NEW up, Good(srv, host),
           ReportDownloading(c, a) \/ ReportStaged(c, a, up) \/ ReportStageFailed(c, a)
    PROVE  Proven(srv, srv', host')
<1>1. a \in Members(c) /\ srv.row[c][a].state \in {"pending", "staging"}
  BY StagingMember DEF ReportDownloading, ReportStaged, ReportStageFailed
<1>2. CASE ReportDownloading(c, a)
  BY <1>1, <1>2, ReportedHolds, HoldsOnProven DEF ReportDownloading
<1>3. CASE ReportStaged(c, a, up)
  <2> DEFINE u == Reported(srv, c, a, "staged", "none")
  <2>1. HoldsOn(srv, u) /\ Good(u, host)
    BY <1>1, ReportedHolds, ReportedGood
  <2>2. srv' = TryAdvance(u, c, a, FALSE, up)
    BY <1>3 DEF ReportStaged
  <2> HIDE DEF u
  <2>3. HoldsOn(u, srv')
    BY <1>1, <2>1, <2>2, TryAdvanceHolds
  <2> QED
    BY <2>1, <2>3, HoldsOnTransitive, HoldsOnProven
<1>4. CASE ReportStageFailed(c, a)
  <2> DEFINE u == Reported(srv, c, a, "failed", "none")
  <2>1. HoldsOn(srv, u) /\ Good(u, host)
    BY <1>1, ReportedHolds, ReportedGood
  <2>2. srv' = PauseRunning(u, c)
    BY <1>4 DEF ReportStageFailed
  <2> HIDE DEF u
  <2>3. srv'.row = u.row
    BY <2>1, <2>2, PauseRunningHolds DEF Good
  <2> QED
    BY <2>1, <2>3, SameRowsHold, HoldsOnTransitive, HoldsOnProven
<1> QED
  BY <1>2, <1>3, <1>4

LEMMA ReportsProven ==
    ASSUME NEW a \in Agents, NEW o \in host[a].outcome, NEW lost \in BOOLEAN,
           NEW late \in BOOLEAN, NEW dwelt \in BOOLEAN, Good(srv, host),
           \/ AcknowledgeOnly(a, o, lost) \/ ReportRootAction(a, o, lost)
           \/ ReportFailed(a, o, lost) \/ ReportHealthy(a, o, late, dwelt, lost)
    PROVE  Proven(srv, srv', host')
<1>1. srv \in Server /\ host \in [Agents -> Host]
  BY DEF Good
<1>2. CASE AcknowledgeOnly(a, o, lost)
  BY <1>2, SameRowsHold, HoldsOnProven DEF AcknowledgeOnly
<1>3. CASE ReportRootAction(a, o, lost)
  BY <1>3, ReportRootActionHolds, HoldsOnProven
<1>4. CASE ReportFailed(a, o, lost)
  <2>1. o.campaign \in Campaigns
    BY <1>4, CurrentFacts DEF ReportFailed
  <2>2. CASE FailureAccepted(srv.row[o.campaign][a])
    BY <1>1, <1>4, <2>1, <2>2, BlockedHolds, HoldsOnProven DEF ReportFailed
  <2>3. CASE ~FailureAccepted(srv.row[o.campaign][a])
    BY <1>4, <2>3, SameRowsHold, HoldsOnProven DEF ReportFailed
  <2> QED
    BY <2>2, <2>3
<1>5. CASE ReportHealthy(a, o, late, dwelt, lost)
  <2> DEFINE u == ApplyHealth(srv, a, o)
  <2>1. IsCurrent(a, o) /\ HealthAccepted(srv.row[o.campaign][a], o) /\ Acknowledged(a, o, lost)
        /\ srv' = ReconcileRow(u, o.campaign, a, late, dwelt)
    BY <1>5 DEF ReportHealthy
  <2>2. Good(u, host) /\ HoldsOn(srv, u) /\ o.campaign \in Campaigns
    BY <2>1, ApplyHealthGood, ApplyHealthHolds, CurrentFacts
  <2> HIDE DEF u
  <2>3. Proven(u, srv', host)
    BY <2>1, <2>2, ReconcileRowProven
  <2>4. Proven(srv, srv', host)
    BY <2>2, <2>3, HeldThenProven
  <2> QED
    BY <1>1, <2>1, <2>4, AcknowledgedProven
<1> QED
  BY <1>2, <1>3, <1>4, <1>5

LEMMA WorkerProven ==
    ASSUME Good(srv, host), Worker
    PROVE  Proven(srv, srv', host')
<1>1. PICK a \in Agents :
        \/ \E late, dwelt \in BOOLEAN : CheckReconcile(a, late, dwelt)
        \/ \E late \in BOOLEAN, up \in Readings : CheckAdvance(a, late, up)
        \/ CheckAnswer(a)
        \/ \E c \in Campaigns : \/ ReportDownloading(c, a) \/ ReportStageFailed(c, a)
                                \/ \E up \in Readings : ReportStaged(c, a, up)
        \/ \E o \in host[a].outcome, lost \in BOOLEAN :
              \/ AcknowledgeOnly(a, o, lost) \/ ReportRootAction(a, o, lost)
              \/ ReportFailed(a, o, lost)
              \/ \E late, dwelt \in BOOLEAN : ReportHealthy(a, o, late, dwelt, lost)
  BY DEF Worker
<1>2. ASSUME \/ \E late, dwelt \in BOOLEAN : CheckReconcile(a, late, dwelt)
             \/ \E late \in BOOLEAN, up \in Readings : CheckAdvance(a, late, up)
             \/ CheckAnswer(a)
      PROVE  Proven(srv, srv', host')
  BY <1>2, ChecksProven
<1>3. ASSUME NEW c \in Campaigns,
             \/ ReportDownloading(c, a) \/ ReportStageFailed(c, a)
             \/ \E up \in Readings : ReportStaged(c, a, up)
      PROVE  Proven(srv, srv', host')
  BY <1>3, StageReportsProven
<1>4. ASSUME NEW o \in host[a].outcome, NEW lost \in BOOLEAN,
             \/ AcknowledgeOnly(a, o, lost) \/ ReportRootAction(a, o, lost)
             \/ ReportFailed(a, o, lost)
             \/ \E late, dwelt \in BOOLEAN : ReportHealthy(a, o, late, dwelt, lost)
      PROVE  Proven(srv, srv', host')
  BY <1>4, ReportsProven
<1> QED
  BY <1>1, <1>2, <1>3, <1>4

LEMMA MaintenanceProven ==
    ASSUME CampaignInv, Maintenance
    PROVE  Proven(srv, srv', host')
<1>1. Good(srv, host) /\ srv \in Server /\ pass \in Pass
  BY DEF CampaignInv, Good
<1>2. CASE \E late \in SUBSET Agents : BeginPass(late)
  BY <1>2, SameRowsHold, HoldsOnProven DEF BeginPass
<1>3. ASSUME NEW i \in pass.items, NEW late \in BOOLEAN, NEW up, PassAdvance(i, late, up)
      PROVE  Proven(srv, srv', host')
  <2>1. CASE ActiveIn(srv, i.agent) = {i.campaign}
    BY <1>1, <1>3, <2>1, ItemFacts, ActiveIsMember, TryAdvanceHolds, HoldsOnProven
       DEF PassAdvance
  <2>2. CASE ActiveIn(srv, i.agent) # {i.campaign}
    BY <1>3, <2>2, SameRowsHold, HoldsOnProven DEF PassAdvance
  <2> QED
    BY <2>1, <2>2
<1>4. ASSUME NEW i \in pass.items, NEW late \in BOOLEAN, NEW dwelt \in BOOLEAN,
             PassReconcile(i, late, dwelt)
      PROVE  Proven(srv, srv', host')
  BY <1>1, <1>4, ItemFacts, ReconcileAgentProven DEF PassReconcile, NextItem
<1>5. ASSUME NEW i \in pass.items, PassBlock(i)
      PROVE  Proven(srv, srv', host')
  <2>1. HoldsOn(srv, Block(srv, i.campaign, i.agent)) /\ HoldsOn(srv, srv)
    BY <1>1, ItemFacts, BlockHolds, SameRowsHold
  <2>2. HoldsOn(srv, srv')
    BY <1>5, <2>1 DEF PassBlock
  <2> QED
    BY <2>2, HoldsOnProven
<1>6. ASSUME NEW r \in pass.releases, NEW atHand \in BOOLEAN, PassRelease(r, atHand)
      PROVE  Proven(srv, srv', host')
  <2> DEFINE t == ReleaseNextCohort(srv, r.campaign)
  <2>1. r.campaign \in Campaigns
    BY <1>1 DEF Pass, Release
  <2>2. \A d \in Campaigns, b \in Agents :
          \/ t.row[d][b] = srv.row[d][b]
          \/ /\ d = r.campaign
             /\ t.row[r.campaign][b] = [srv.row[r.campaign][b] EXCEPT !.action = "stage"]
    BY <1>1, <2>1, ReleaseNextCohortFacts
  <2> HIDE DEF t
  <2>3. ASSUME NEW d \in Campaigns, NEW b \in Agents
        PROVE  Holds(srv.row[d][b]) => Holds(t.row[d][b])
    <3>1. srv.row[d][b] \in Row
      BY <1>1, RowFields
    <3>2. [srv.row[d][b] EXCEPT !.action = "stage"].cordoned = srv.row[d][b].cordoned
          /\ [srv.row[d][b] EXCEPT !.action = "stage"].authorization = srv.row[d][b].authorization
      BY <3>1 DEF Row
    <3> QED
      BY <2>2, <3>2 DEF Holds
  <2>4. HoldsOn(srv, t) /\ HoldsOn(srv, srv)
    BY <2>3, SameRowsHold DEF HoldsOn
  <2>5. HoldsOn(srv, srv')
    BY <1>6, <2>4 DEF PassRelease, t
  <2> QED
    BY <2>5, HoldsOnProven
<1>7. CASE EndPass
  BY <1>1, <1>7, FinalizeFacts, SameRowsHold, HoldsOnProven DEF EndPass, SameButCampaigns
<1> QED
  BY <1>2, <1>3, <1>4, <1>5, <1>6, <1>7 DEF Maintenance

LEMMA TrafficProven ==
    ASSUME Good(srv, host), Traffic
    PROVE  Proven(srv, srv', host')
<1>1. srv \in Server
  BY DEF Good
<1>2. CASE Restart
  <2>1. srv'.row = srv.row
    BY <1>1, <1>2 DEF Restart, Server
  <2> QED
    BY <2>1, SameRowsHold, HoldsOnProven
<1>3. ASSUME NEW a \in Agents, BeginRequest(a) \/ EndRequest(a) \/ Connect(a) \/ Disconnect(a)
      PROVE  Proven(srv, srv', host')
  <2>1. srv'.row = srv.row
    BY <1>1, <1>3 DEF BeginRequest, EndRequest, Connect, Disconnect, Dropped, Server
  <2> QED
    BY <2>1, SameRowsHold, HoldsOnProven
<1>4. ASSUME NEW a \in Agents, NEW late \in BOOLEAN, RecordFreshTunnel(a, late)
      PROVE  Proven(srv, srv', host')
  <2> DEFINE k == [srv.conn[a] EXCEPT !.phase = "fresh"]
             u == [srv EXCEPT !.conn[a].phase = "fresh"]
  <2>1. srv.conn[a] \in Connection /\ srv.conn[a].phase = "new" /\ host' = host
    BY <1>1, <1>4 DEF Server, RecordFreshTunnel
  <2>2. k \in Connection /\ k.build = srv.conn[a].build
    BY <2>1 DEF Connection
  <2>3. k.build = host[a].build
    BY <2>1, <2>2 DEF Good, HostsOK, HostOK
  <2>4. u = [srv EXCEPT !.conn[a] = k] /\ u.row = srv.row
    BY <1>1, <2>1 DEF Server
  <2>5. Good(u, host)
    BY <2>2, <2>3, <2>4, ConnGood
  <2>6. PICK c \in ActiveIn(srv, a) : srv' = ReconcileRow(u, c, a, late, FALSE)
    BY <1>4 DEF RecordFreshTunnel
  <2> HIDE DEF u
  <2>7. Proven(u, srv', host)
    BY <2>5, <2>6, ReconcileRowProven DEF ActiveIn
  <2> QED
    BY <2>1, <2>4, <2>7, SameRowsHold, HeldThenProven
<1> QED
  BY <1>2, <1>3, <1>4 DEF Traffic

LEMMA HostsProven ==
    ASSUME Good(srv, host), Hosts
    PROVE  Proven(srv, srv', host')
<1>1. srv \in Server /\ host \in [Agents -> Host]
  BY DEF Good
<1>2. ASSUME NEW a \in Agents, Deliver(a)
      PROVE  Proven(srv, srv', host')
  BY <1>2, SameRowsHold, HoldsOnProven DEF Deliver
<1>3. ASSUME NEW a \in Agents, NEW k \in host[a].commands, Execute(a, k)
      PROVE  Proven(srv, srv', host')
  <2>1. srv' = Dropped(srv, a)
    BY <1>3 DEF Execute
  <2> QED
    BY <1>1, <2>1, DroppedFacts, SameRowsHold, HoldsOnProven
<1>4. ASSUME NEW a \in Agents, NEW k \in host[a].commands, Fail(a, k)
      PROVE  Proven(srv, srv', host')
  BY <1>4, SameRowsHold, HoldsOnProven DEF Fail
<1>5. ASSUME NEW a \in Agents, NEW k \in Outstanding(a), ExpireCommand(a, k)
      PROVE  Proven(srv, srv', host')
  <2> DEFINE c == k.campaign
             x == srv.row[c][a]
             e == x.unexpired /\ x.sequence # k.sequence
             y == [x EXCEPT !.unexpired = e]
  <2>1. c \in Campaigns
    BY <1>1, HostFields DEF Outstanding, Command
  <2>2. x \in Row
    BY <1>1, <2>1, RowFields
  <2>3. srv' = Put(srv, c, a, y)
    BY <1>5, <2>2 DEF ExpireCommand, Row
  <2>4. e \in BOOLEAN
    OBVIOUS
  <2> HIDE DEF e
  <2>5. y \in Row /\ y.cordoned = x.cordoned /\ y.authorization = x.authorization
    BY <2>2, <2>4 DEF Row
  <2> HIDE DEF y
  <2> QED
    BY <1>1, <2>1, <2>3, <2>5, PutHolds, HoldsOnProven DEF Holds
<1> QED
  BY <1>2, <1>3, <1>4, <1>5 DEF Hosts

(* An agent that had a command comes back into service only on a live      *)
(* connection of the build its host runs, the release exactly when the row *)
(* has succeeded, and with no command left that it could execute           *)
(* (reconcileAgentUpdateSuccessLocked).                                    *)
THEOREM ReturnsAreProven == CampaignSpec => ReturnsProven
<1> DEFINE P == \A c \in Campaigns, a \in Agents :
                  (/\ srv.row[c][a].cordoned /\ ~srv'.row[c][a].cordoned
                   /\ srv.row[c][a].authorization # "none") =>
                     /\ srv'.conn[a].phase # "none" /\ srv'.conn[a].build = host'[a].build
                     /\ (host'[a].build = c) <=> (srv'.row[c][a].state = "succeeded")
                     /\ Outstanding(a)' = {}
<1>1. CampaignInv /\ [CampaignNext]_campaignVars => [P]_campaignVars
  <2> SUFFICES ASSUME CampaignInv, CampaignNext
               PROVE  P
    OBVIOUS
  <2>1. Proven(srv, srv', host')
    BY AdministratorProven, WorkerProven, MaintenanceProven, TrafficProven, HostsProven
       DEF CampaignNext, CampaignInv
  <2>2. \A a \in Agents : Outstanding(a)' = Outs(host', a)
    BY DEF Outstanding, Outs
  <2> QED
    BY <2>1, <2>2 DEF Proven, Holds
<1> QED
  BY <1>1, CampaignInvariant, PTL DEF CampaignSpec, ReturnsProven
=============================================================================
