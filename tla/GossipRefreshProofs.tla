------------------------- MODULE GossipRefreshProofs -------------------------
(***************************************************************************)
(* What a refresh says of the answer of getClusterNodes, for every answer: *)
(* any number of nodes, in any order, any of them at the same address.     *)
(* The invariant says of the sample what the loop has read so far.         *)
(***************************************************************************)
EXTENDS GossipRefresh, TLAPS

\* What the nodes read so far say of the peer at address p.
KnownBy(p, i) == i \in 1 .. next - 1 /\ nodes[i].ip = p /\ (nodes[i].active => nodes[i].voting)
ActiveBy(p, i) == i \in 1 .. next - 1 /\ nodes[i].ip = p /\ nodes[i].voting

ScanTypeOK ==
    /\ gossipState \in State
    /\ scanning \in BOOLEAN
    /\ nodes \in Seq(Node) /\ Len(nodes) <= MaxNodes /\ next \in 1 .. Len(nodes) + 1
    /\ sample \in [seen : SUBSET Peer, active : SUBSET Peer,
                   undeclared : BOOLEAN, leaderless : BOOLEAN]

SampleOK ==
    /\ sample.active \subseteq sample.seen
    /\ sample.leaderless => /\ sample.active = {} /\ ~sample.undeclared
                            /\ \A i \in 1 .. next - 1 : ~nodes[i].voting
    /\ OneNodePerPeer =>
         \A p \in Peer : /\ p \in sample.seen <=> \E i \in Nat : KnownBy(p, i)
                         /\ p \in sample.active <=> \E i \in Nat : ActiveBy(p, i)

ScanInv == ScanTypeOK /\ SampleOK

\* A node of an answer, and its place in it.
LEMMA NodeType ==
    ASSUME ScanTypeOK, NEW i \in 1 .. Len(nodes)
    PROVE  /\ nodes[i] \in Node /\ nodes[i].ip \in Peer \cup Outsider \cup {NoAddress}
           /\ nodes[i].active \in BOOLEAN /\ nodes[i].voting \in BOOLEAN
           /\ nodes[i].voting => nodes[i].active
  BY DEF ScanTypeOK, Node

\* The state a refresh leaves has the type of the state it found.
LEMMA FreshStateType == NewState \in State
  BY ThresholdAssumption DEF NewState, State

\* A refresh keeps the type of the state, whatever sample it ends with.
LEMMA RefreshedType ==
    ASSUME NEW g \in State,
           NEW s \in [seen : SUBSET Peer, active : SUBSET Peer,
                      undeclared : BOOLEAN, leaderless : BOOLEAN]
    PROVE  RefreshError(g) \in State /\ RefreshSample(g, s) \in State
  <1> DEFINE c == IF ~s.leaderless THEN 0
                  ELSE IF g.count < Threshold THEN g.count + 1 ELSE g.count
  <1>1. c \in 0 .. Threshold
    BY ThresholdAssumption DEF State
  <1> HIDE DEF c
  <1>2. RefreshSample(g, s) = [seen |-> s.seen, active |-> s.active,
                               undeclared |-> s.undeclared, count |-> c, rpcErr |-> FALSE]
    BY DEF RefreshSample, c
  <1>3. RefreshSample(g, s) \in State
    BY <1>1, <1>2 DEF State
  <1> QED
    BY <1>3 DEF RefreshError, State

\* An empty sample says what no node says.
LEMMA NoSampleOK ==
    ASSUME next = 1, sample = NoSample
    PROVE  SampleOK
  BY DEF NoSample, SampleOK, KnownBy, ActiveBy

\* The loop has not begun.
LEMMA ScanInvInit == RefreshInit => ScanInv
  <1> SUFFICES ASSUME RefreshInit PROVE ScanInv
    OBVIOUS
  <1>1. nodes = <<>> /\ nodes \in Seq(Node) /\ Len(nodes) = 0 /\ next \in 1 .. 1
    BY DEF RefreshInit
  <1>2. gossipState \in State /\ scanning \in BOOLEAN
    BY FreshStateType DEF RefreshInit
  <1>3. ScanTypeOK
    BY <1>1, <1>2, RefreshAssumption DEF RefreshInit, ScanTypeOK, NoSample
  <1> QED
    BY <1>3, NoSampleOK DEF RefreshInit, ScanInv

\* The loop begins: nothing has been read.
LEMMA BeginOK ==
    ASSUME ScanInv, NEW answer \in Answer, GetClusterNodes(answer)
    PROVE  ScanInv'
  <1>1. PICK k \in 0 .. MaxNodes : answer \in [1 .. k -> Node]
    BY DEF Answer
  <1>2. answer \in Seq(Node) /\ Len(answer) = k
    BY <1>1
  <1>3. ScanTypeOK'
    BY <1>2, RefreshAssumption DEF GetClusterNodes, ScanInv, ScanTypeOK, NoSample
  <1>4. SampleOK'
    BY DEF GetClusterNodes, NoSample, SampleOK, KnownBy, ActiveBy
  <1> QED
    BY <1>3, <1>4 DEF ScanInv

\* What one more node adds to what the nodes before it say.
LEMMA OneMore ==
    ASSUME ScanTypeOK, NEW n, Scan(n), NEW p
    PROVE  /\ n = nodes[next] /\ next \in 1 .. Len(nodes) /\ next' = next + 1
           /\ (\E i \in Nat : KnownBy(p, i)') <=>
                \/ \E i \in Nat : KnownBy(p, i)
                \/ n.ip = p /\ (n.active => n.voting)
           /\ (\E i \in Nat : ActiveBy(p, i)') <=>
                \/ \E i \in Nat : ActiveBy(p, i)
                \/ n.ip = p /\ n.voting
  <1>1. /\ n = nodes[next] /\ next \in 1 .. Len(nodes) /\ next' = next + 1
        /\ nodes' = nodes /\ next \in Nat
    BY DEF Scan, ScanTypeOK
  <1>2. 1 .. next' - 1 = (1 .. next - 1) \cup {next}
    BY <1>1
  <1> QED
    BY <1>1, <1>2 DEF KnownBy, ActiveBy

\* An earlier node at the address of the next one.
LEMMA OneAtAnAddress ==
    ASSUME ScanTypeOK, OneNodePerPeer, NEW n, Scan(n), n.ip \in Peer
    PROVE  /\ \A i \in Nat : ~KnownBy(n.ip, i)
           /\ \A i \in Nat : ~ActiveBy(n.ip, i)
  <1>1. n = nodes[next] /\ next \in 1 .. Len(nodes)
    BY DEF Scan, ScanTypeOK
  <1>2. \A i \in 1 .. next - 1 : nodes[i].ip # n.ip
    BY <1>1 DEF OneNodePerPeer
  <1> QED
    BY <1>2 DEF KnownBy, ActiveBy

\* The loop reads one more node.
LEMMA ScanStepOK ==
    ASSUME ScanInv, NEW n \in Node, FindUndeclared(n) \/ IgnoreIdleLeader(n) \/ FindPeer(n)
    PROVE  ScanInv'
  <1>1. ScanTypeOK /\ SampleOK /\ Scan(n)
    BY DEF ScanInv, FindUndeclared, IgnoreIdleLeader, FindPeer
  <1>2. /\ n = nodes[next] /\ next \in 1 .. Len(nodes) /\ next' = next + 1
        /\ UNCHANGED <<gossipState, scanning, nodes>>
    BY <1>1, OneMore DEF Scan
  <1>3. n.active \in BOOLEAN /\ n.voting \in BOOLEAN /\ (n.voting => n.active)
    BY DEF Node
  <1>4. sample' \in [seen : SUBSET Peer, active : SUBSET Peer,
                     undeclared : BOOLEAN, leaderless : BOOLEAN]
    <2>1. CASE FindUndeclared(n)
      BY <1>1, <2>1 DEF FindUndeclared, ScanTypeOK
    <2>2. CASE IgnoreIdleLeader(n)
      BY <1>1, <2>2 DEF IgnoreIdleLeader, ScanTypeOK
    <2>3. CASE FindPeer(n)
      BY <1>1, <1>3, <2>3 DEF FindPeer, ScanTypeOK
    <2> QED
      BY <2>1, <2>2, <2>3
  <1>5. ScanTypeOK'
    BY <1>1, <1>2, <1>4 DEF ScanTypeOK
  <1>6. sample'.active \subseteq sample'.seen
    BY <1>1 DEF SampleOK, ScanTypeOK, FindUndeclared, IgnoreIdleLeader, FindPeer
  <1>7. sample'.leaderless =>
          /\ sample.leaderless /\ ~n.voting
          /\ sample'.active = {} /\ ~sample'.undeclared
    BY <1>1, <1>3 DEF SampleOK, ScanTypeOK, FindUndeclared, IgnoreIdleLeader, FindPeer
  <1>8. sample'.leaderless => \A i \in 1 .. next' - 1 : ~nodes'[i].voting
    <2>1. next \in Nat /\ \A i \in 1 .. next' - 1 : i = next \/ i \in 1 .. next - 1
      BY <1>1, <1>2 DEF ScanTypeOK
    <2> QED
      BY <1>1, <1>2, <1>7, <2>1 DEF SampleOK
  <1>9. ASSUME OneNodePerPeer', NEW p \in Peer
        PROVE  /\ p \in sample'.seen <=> \E i \in Nat : KnownBy(p, i)'
               /\ p \in sample'.active <=> \E i \in Nat : ActiveBy(p, i)'
    <2>1. OneNodePerPeer
      BY <1>2, <1>9 DEF OneNodePerPeer
    <2>2. /\ p \in sample.seen <=> \E i \in Nat : KnownBy(p, i)
          /\ p \in sample.active <=> \E i \in Nat : ActiveBy(p, i)
      BY <1>1, <2>1, <1>9 DEF SampleOK
    <2>3. /\ (\E i \in Nat : KnownBy(p, i)') <=>
                p \in sample.seen \/ (n.ip = p /\ (n.active => n.voting))
          /\ (\E i \in Nat : ActiveBy(p, i)') <=>
                p \in sample.active \/ (n.ip = p /\ n.voting)
      BY <1>1, <2>2, OneMore
    <2>4. CASE FindUndeclared(n)
      <3>1. n.ip # p /\ sample'.seen = sample.seen /\ sample'.active = sample.active
        BY <1>1, <1>9, <2>4 DEF FindUndeclared, ScanTypeOK
      <3> QED
        BY <2>3, <3>1
    <2>5. CASE IgnoreIdleLeader(n)
      BY <2>3, <2>5 DEF IgnoreIdleLeader
    <2>6. CASE FindPeer(n)
      <3>1. n.ip \in Peer => n.ip \notin sample.active
        BY <1>1, <2>1, OneAtAnAddress DEF SampleOK
      <3>2. /\ sample'.seen = sample.seen \cup {n.ip}
            /\ sample'.active = IF n.active THEN sample.active \cup {n.ip}
                                           ELSE sample.active \ {n.ip}
            /\ n.ip \in Peer /\ (n.active => n.voting)
        BY <1>1, <2>6 DEF FindPeer, ScanTypeOK
      <3> QED
        BY <1>3, <2>3, <3>1, <3>2
    <2> QED
      BY <2>4, <2>5, <2>6
  <1> QED
    BY <1>5, <1>6, <1>7, <1>8, <1>9 DEF ScanInv, SampleOK

\* What the loop has read speaks only of the answer and the sample.
LEMMA ScanInvStable ==
    ASSUME ScanInv, UNCHANGED <<nodes, next, sample>>,
           gossipState' \in State, scanning' \in BOOLEAN
    PROVE  ScanInv'
  BY DEF ScanInv, ScanTypeOK, SampleOK, OneNodePerPeer, KnownBy, ActiveBy

\* Every node of the answer keeps the conjunction.
LEMMA ScanInvStep == ScanInv /\ [RefreshNext]_refreshVars => ScanInv'
  <1> SUFFICES ASSUME ScanInv, [RefreshNext]_refreshVars PROVE ScanInv'
    OBVIOUS
  <1>1. CASE GetClusterNodesFails \/ EndRefresh
    <2>1. RefreshError(gossipState) \in State /\ RefreshSample(gossipState, sample) \in State
      BY RefreshedType DEF ScanInv, ScanTypeOK
    <2> QED
      BY <1>1, <2>1, ScanInvStable DEF GetClusterNodesFails, EndRefresh, ScanInv, ScanTypeOK
  <1>2. CASE PanicOnNoAddress
    BY <1>2, FreshStateType, ScanInvStable DEF PanicOnNoAddress
  <1>3. CASE \E answer \in Answer : GetClusterNodes(answer)
    BY <1>3, BeginOK
  <1>4. CASE \E n \in Node : FindUndeclared(n) \/ IgnoreIdleLeader(n) \/ FindPeer(n)
    BY <1>4, ScanStepOK
  <1>5. CASE UNCHANGED refreshVars
    BY <1>5, ScanInvStable DEF refreshVars, ScanInv, ScanTypeOK
  <1> QED
    BY <1>1, <1>2, <1>3, <1>4, <1>5 DEF RefreshNext

\* The conjunction is inductive.
THEOREM RefreshInvariant == RefreshSpec => []ScanInv
  BY ScanInvInit, ScanInvStep, PTL DEF RefreshSpec

\* Every variable of the loop keeps its type, for answers of any length.
THEOREM RefreshTypeCorrect == RefreshSpec => []RefreshTypeOK
  <1>1. ScanInv => RefreshTypeOK
    <2> SUFFICES ASSUME ScanInv PROVE RefreshTypeOK
      OBVIOUS
    <2>1. nodes \in [1 .. Len(nodes) -> Node] /\ Len(nodes) \in 0 .. MaxNodes
      BY RefreshAssumption DEF ScanInv, ScanTypeOK
    <2>2. nodes \in Answer
      BY <2>1 DEF Answer
    <2> QED
      BY <2>2 DEF ScanInv, ScanTypeOK, RefreshTypeOK
  <1> QED
    BY RefreshInvariant, <1>1, PTL

\* Every refresh that ends leaves a state GossipState allows: what HAManager's model
\* takes for granted of the loop.
THEOREM RefreshAlwaysLeavesSample == RefreshSpec => RefreshLeavesSample
  <1>1. ScanInv /\ [RefreshNext]_refreshVars =>
          [gossipState' # gossipState =>
             \/ gossipState' \in Refreshed(gossipState)
             \/ gossipState' = NewState /\ nodes[next].ip = NoAddress]_refreshVars
    <2> SUFFICES ASSUME ScanInv, RefreshNext, gossipState' # gossipState
                 PROVE  \/ gossipState' \in Refreshed(gossipState)
                        \/ gossipState' = NewState /\ nodes[next].ip = NoAddress
      BY DEF refreshVars
    <2>1. sample \in Sample
      BY DEF ScanInv, ScanTypeOK, SampleOK, Sample
    <2> QED
      BY <2>1 DEF RefreshNext, GetClusterNodesFails, GetClusterNodes, Scan, FindUndeclared,
         IgnoreIdleLeader, FindPeer, EndRefresh, PanicOnNoAddress, Refreshed
  <1> QED
    BY RefreshInvariant, <1>1, PTL DEF RefreshSpec, RefreshLeavesSample

\* A leader in the answer is overlooked only behind the last peer, wherever it is and
\* whatever addresses the nodes share.
THEOREM LeaderOnlyMissedByBreak == RefreshSpec => LeaderMissedOnlyByBreak
  <1>1. ScanInv /\ [RefreshNext]_refreshVars =>
          [EndRefresh /\ sample.leaderless /\ (\E n \in Found : n.voting)
             => gossipState'.seen = Peer /\ next <= Len(nodes)]_refreshVars
    <2> SUFFICES ASSUME ScanInv, EndRefresh, sample.leaderless,
                        NEW i \in 1 .. Len(nodes), nodes[i].voting
                 PROVE  gossipState'.seen = Peer /\ next <= Len(nodes)
      BY DEF Found
    <2>1. i \notin 1 .. next - 1 /\ next \in 1 .. Len(nodes) + 1 /\ Len(nodes) \in Nat
      BY DEF ScanInv, ScanTypeOK, SampleOK
    <2>2. next <= Len(nodes)
      BY <2>1
    <2>3. AllPeersFound
      BY <2>1, <2>2 DEF EndRefresh
    <2> QED
      BY <2>2, <2>3 DEF EndRefresh, AllPeersFound, RefreshSample
  <1> QED
    BY RefreshInvariant, <1>1, PTL DEF RefreshSpec, LeaderMissedOnlyByBreak

\* With one node at each peer's address a refresh says of the peers what the answer says,
\* in whatever order the nodes come and though the loop may stop early.
THEOREM PeersAlwaysAsAnswered == RefreshSpec => PeersAsAnswered
  <1>1. ScanInv /\ [RefreshNext]_refreshVars =>
          [EndRefresh /\ OneNodePerPeer =>
             /\ gossipState'.seen = PeersIn({n \in Found : n.active => n.voting})
             /\ gossipState'.active = PeersIn({n \in Found : n.voting})]_refreshVars
    <2> SUFFICES ASSUME ScanInv, EndRefresh, OneNodePerPeer
                 PROVE  /\ gossipState'.seen = PeersIn({n \in Found : n.active => n.voting})
                        /\ gossipState'.active = PeersIn({n \in Found : n.voting})
      OBVIOUS
    <2>1. gossipState'.seen = sample.seen /\ gossipState'.active = sample.active
      BY DEF EndRefresh, RefreshSample
    <2>2. /\ sample.seen \subseteq Peer /\ sample.active \subseteq Peer
          /\ next \in 1 .. Len(nodes) + 1 /\ Len(nodes) \in Nat
      BY DEF ScanInv, ScanTypeOK
    <2>3. ASSUME NEW p \in Peer, NEW i \in 1 .. Len(nodes), nodes[i].ip = p,
                 i \notin 1 .. next - 1
          PROVE  \E j \in 1 .. next - 1 : nodes[j].ip = p
      <3>1. AllPeersFound
        BY <2>2, <2>3 DEF EndRefresh
      <3>2. \E j \in Nat : KnownBy(p, j)
        BY <3>1 DEF AllPeersFound, ScanInv, SampleOK
      <3> QED
        BY <3>2 DEF KnownBy
    <2>4. ASSUME NEW p \in Peer, NEW i \in 1 .. Len(nodes), nodes[i].ip = p
          PROVE  i \in 1 .. next - 1
      <3> SUFFICES ASSUME i \notin 1 .. next - 1 PROVE FALSE
        OBVIOUS
      <3>1. PICK j \in 1 .. next - 1 : nodes[j].ip = p
        BY <2>3, <2>4
      <3>2. j \in 1 .. Len(nodes)
        BY <2>2
      <3> QED
        BY <2>4, <3>1, <3>2 DEF OneNodePerPeer
    <2>5. ASSUME NEW p \in Peer
          PROVE  /\ p \in sample.seen <=> p \in PeersIn({n \in Found : n.active => n.voting})
                 /\ p \in sample.active <=> p \in PeersIn({n \in Found : n.voting})
      <3>1. /\ p \in sample.seen <=> \E i \in Nat : KnownBy(p, i)
            /\ p \in sample.active <=> \E i \in Nat : ActiveBy(p, i)
        BY <2>5 DEF ScanInv, SampleOK
      <3>2. 1 .. next - 1 \subseteq 1 .. Len(nodes) /\ 1 .. next - 1 \subseteq Nat
        BY <2>2
      <3>3. (\E i \in Nat : KnownBy(p, i)) <=>
              \E i \in 1 .. Len(nodes) : nodes[i].ip = p /\ (nodes[i].active => nodes[i].voting)
        BY <2>4, <3>2 DEF KnownBy
      <3>4. (\E i \in Nat : ActiveBy(p, i)) <=>
              \E i \in 1 .. Len(nodes) : nodes[i].ip = p /\ nodes[i].voting
        BY <2>4, <3>2 DEF ActiveBy
      <3> QED
        BY <2>5, <3>1, <3>3, <3>4 DEF PeersIn, Found
    <2>6. PeersIn({n \in Found : n.active => n.voting}) \subseteq Peer
          /\ PeersIn({n \in Found : n.voting}) \subseteq Peer
      BY DEF PeersIn
    <2> QED
      BY <2>1, <2>2, <2>5, <2>6
  <1> QED
    BY RefreshInvariant, <1>1, PTL DEF RefreshSpec, PeersAsAnswered
=============================================================================
