--------------------------- MODULE HAManagerProofs ---------------------------
(***************************************************************************)
(* What holds of every HA manager in every environment, for any set of     *)
(* peers and any threshold.  The argument rests on one invariant of the    *)
(* gossip state: a manager that has counted a leaderless sample knows of   *)
(* no active peer, and none appears before the count is back at zero.      *)
(***************************************************************************)
EXTENDS HAManager, FiniteSetTheorems, TLAPS

GossipOK(g) ==
    /\ g \in State
    /\ g.active \subseteq g.seen
    /\ g.count > 0 => g.active = {} /\ ~g.undeclared

GossipConsistent == \A m \in Manager : GossipOK(gossipState[m])

\* The fresh state is consistent.
LEMMA NewStateOK == GossipOK(NewState)
  BY ThresholdAssumption DEF GossipOK, NewState, State

\* Refresh keeps a state consistent, whether or not getClusterNodes answers.
LEMMA RefreshedOK ==
    ASSUME NEW g, GossipOK(g), NEW h \in Refreshed(g)
    PROVE  GossipOK(h)
<1>1. CASE h = RefreshError(g)
  BY <1>1 DEF RefreshError, GossipOK, State
<1>2. CASE \E s \in Sample : h = RefreshSample(g, s)
  <2>1. PICK s \in Sample : h = RefreshSample(g, s)
    BY <1>2
  <2>2. h.count \in 0 .. Threshold
    BY <2>1, ThresholdAssumption DEF RefreshSample, GossipOK, State
  <2>3. h.count > 0 => s.leaderless
    BY <2>1 DEF RefreshSample
  <2>4. /\ h.seen = s.seen /\ h.active = s.active
        /\ h.undeclared = s.undeclared /\ h.rpcErr = FALSE
        /\ h = [seen |-> h.seen, active |-> h.active, undeclared |-> h.undeclared,
                count |-> h.count, rpcErr |-> h.rpcErr]
    BY <2>1 DEF RefreshSample
  <2>5. /\ s.seen \in SUBSET Peer /\ s.active \in SUBSET Peer /\ s.undeclared \in BOOLEAN
        /\ s.active \subseteq s.seen /\ (s.leaderless => s.active = {} /\ ~s.undeclared)
    BY DEF Sample
  <2>. QED
    BY <2>2, <2>3, <2>4, <2>5 DEF GossipOK, State
<1>. QED
  BY <1>1, <1>2 DEF Refreshed

\* A full count leaves no room for an active peer.
LEMMA FullCount ==
    ASSUME NEW g, GossipOK(g), g.count >= Threshold
    PROVE  g.count = Threshold /\ g.active = {}
<1>1. g.count \in 0 .. Threshold /\ (g.count > 0 => g.active = {})
  BY DEF GossipOK, State
<1>. QED
  BY <1>1, ThresholdAssumption

-----------------------------------------------------------------------------
\* A rank is a natural number below the number of peers.
LEMMA RankInRange ==
    ASSUME NEW g, g.seen \in SUBSET Peer, NEW m \in Peer
    PROVE  Rank(g, m) \in Nat /\ Rank(g, m) < Cardinality(Peer)
<1>. DEFINE better == {q \in g.seen : q < m}
<1>1. better \in SUBSET Peer /\ m \notin better /\ m \in Nat
  BY PeerAssumption
<1>2. IsFiniteSet(Peer) /\ IsFiniteSet(better)
  BY <1>1, PeerAssumption, FS_Subset
<1>3. Cardinality(better) <= Cardinality(Peer)
      /\ (Cardinality(better) = Cardinality(Peer) => better = Peer)
  BY <1>1, <1>2, FS_Subset
<1>4. Cardinality(better) \in Nat /\ Cardinality(Peer) \in Nat
  BY <1>2, FS_CardinalityType
<1>. QED
  BY <1>1, <1>3, <1>4 DEF Rank

\* A peer with a manager makes the set of peers non-empty.
LEMMA PeersCounted ==
    ASSUME NEW m \in Peer
    PROVE  Cardinality(Peer) \in Nat /\ 0 < Cardinality(Peer)
BY PeerAssumption, FS_CardinalityType, FS_EmptySet

\* What refreshMetrics writes to the cache before /metrics is exported.
ExportsIdle ==
    \A m \in Manager : pc[m] \in {"exporting", "gap"} => cache[m].failover = "idle"

IInv ==
    /\ TypeOK
    /\ GossipConsistent
    /\ TakeoverJustified
    /\ DelayBounded
    /\ FailoverMetricIdle
    /\ ExportsIdle

\* The first assignments of ensurePassive preserve it: a node that begins to yield
\* is no candidate any more.
LEMMA EnsurePassiveOK ==
    ASSUME IInv, NEW m \in Manager, pc[m] \in {"dualCheck", "heartbeats", "evaluate"},
           EnsurePassive(m), UNCHANGED <<gossipState, healthyStreak, delay, metrics>>
    PROVE  IInv'
<1>. USE DEF IInv, TypeOK, Stage, CandidateStages, ActiveStages, PassiveStages
<1>1. /\ pc' = [pc EXCEPT ![m] = "passive.pre"]
      /\ cache' = [cache EXCEPT ![m].failover = "becoming_passive"]
  BY DEF EnsurePassive, GoTo
<1>2. pc' \in [Manager -> Stage] /\ pc'[m] = "passive.pre"
      /\ \A n \in Manager \ {m} : pc'[n] = pc[n] /\ cache'[n] = cache[n]
  BY <1>1
<1>3. cache' \in [Manager -> [role : Role, failover : FailoverStatus]]
  BY <1>1 DEF FailoverStatus
<1>4. TypeOK'
  BY <1>2, <1>3
<1>. HIDE DEF TypeOK
<1>5. GossipConsistent' /\ TakeoverJustified'
  BY <1>2 DEF GossipConsistent, TakeoverJustified
<1>6. DelayBounded'
  BY <1>2 DEF DelayBounded
<1>7. FailoverMetricIdle' /\ ExportsIdle'
  BY <1>2 DEF FailoverMetricIdle, ExportsIdle
<1>. QED
  BY <1>4, <1>5, <1>6, <1>7

\* Every step of every manager preserves the invariant.
LEMMA IInvStep == IInv /\ [Next]_vars => IInv'
<1>. SUFFICES ASSUME IInv, [Next]_vars PROVE IInv'
  OBVIOUS
<1>. USE DEF IInv, TypeOK, GossipConsistent, TakeoverJustified, DelayBounded,
             FailoverMetricIdle, ExportsIdle,
             Stage, CandidateStages, ActiveStages, PassiveStages
<1>1. ASSUME NEW m \in Manager, NEW g \in Refreshed(gossipState[m]),
             InitialRefresh(m, g)
      PROVE  IInv'
  <2>1. GossipOK(g)
    BY RefreshedOK
  <2>. QED
    BY <1>1, <2>1 DEF InitialRefresh, GoTo, GossipOK
<1>2. ASSUME NEW m \in Manager, NEW g \in Refreshed(gossipState[m]),
             PollGossip(m, g)
      PROVE  IInv'
  <2>1. GossipOK(g)
    BY RefreshedOK
  <2>. QED
    BY <1>2, <2>1 DEF PollGossip, GoTo, GossipOK
<1>3. ASSUME NEW m \in Manager, NEW id \in Identity, NEW id2 \in Identity,
             RefreshCache(m, id, id2)
      PROVE  IInv'
  BY <1>3 DEF RefreshCache, GoTo, RoleOf, Role, FailoverStatus, Identity
<1>4. ASSUME NEW m \in Manager,
             ResetMetadata(m) \/ SetMetrics(m)
      PROVE  IInv'
  <2>1. CASE ResetMetadata(m)
    BY <2>1 DEF ResetMetadata, GoTo, Role
  <2>2. CASE SetMetrics(m)
    BY <2>2 DEF SetMetrics, GoTo, Role, FailoverStatus
  <2>. QED
    BY <1>4, <2>1, <2>2
<1>5. ASSUME NEW m \in Manager, NEW id \in Identity,
             DetectDualInGossip(m, id)
      PROVE  IInv'
  <2>1. CASE EnsurePassive(m) /\ UNCHANGED <<gossipState, healthyStreak, delay, metrics>>
    <3>1. pc[m] = "dualCheck"
      BY <1>5 DEF DetectDualInGossip
    <3>. QED
      BY <2>1, <3>1, EnsurePassiveOK
  <2>2. CASE GoTo(m, "evaluate") /\ UNCHANGED <<gossipState, healthyStreak, delay, cache, metrics>>
    BY <1>5, <2>2 DEF DetectDualInGossip, GoTo
  <2>. QED
    BY <1>5, <2>1, <2>2 DEF DetectDualInGossip
<1>6. ASSUME NEW m \in Manager, NEW id \in Identity,
             SkipDualInGossip(m, id)
      PROVE  IInv'
  BY <1>6 DEF SkipDualInGossip, GoTo
<1>7. ASSUME NEW m \in Manager, NEW id \in Identity,
             NEW actives \in SUBSET (Peer \ {m}),
             CheckPeerHeartbeats(m, actives, id)
      PROVE  IInv'
  <2>1. CASE EnsurePassive(m) /\ UNCHANGED <<gossipState, healthyStreak, delay, metrics>>
    <3>1. pc[m] = "heartbeats"
      BY <1>7 DEF CheckPeerHeartbeats
    <3>. QED
      BY <2>1, <3>1, EnsurePassiveOK
  <2>2. CASE GoTo(m, "evaluate") /\ UNCHANGED <<gossipState, healthyStreak, delay, cache, metrics>>
    BY <1>7, <2>2 DEF CheckPeerHeartbeats, GoTo
  <2>. QED
    BY <1>7, <2>1, <2>2 DEF CheckPeerHeartbeats
<1>8. ASSUME NEW m \in Manager,
             StandBy(m)
      PROVE  IInv'
  BY <1>8 DEF StandBy, GoTo
<1>9. ASSUME NEW m \in Manager,
             YieldUnseen(m)
      PROVE  IInv'
  <2>1. /\ pc[m] = "evaluate" /\ EnsurePassive(m)
        /\ UNCHANGED <<gossipState, healthyStreak, delay, metrics>>
    BY <1>9 DEF YieldUnseen
  <2>. QED
    BY <2>1, EnsurePassiveOK
<1>10. ASSUME NEW m \in Manager,
             BecomeCandidate(m)
      PROVE  IInv'
  <2>1. GossipOK(gossipState[m]) /\ gossipState[m] \in State
    OBVIOUS
  <2>2. /\ gossipState[m].count >= Threshold
        /\ ~gossipState[m].undeclared /\ HasIP(gossipState[m], m)
    BY <1>10 DEF BecomeCandidate, FailoverRequired, LeaderlessSamplesExceedsThreshold
  <2>3. gossipState[m].count = Threshold /\ gossipState[m].active = {}
    BY <2>1, <2>2, FullCount
  <2>. QED
    BY <1>10, <2>2, <2>3 DEF BecomeCandidate, GoTo
<1>11. ASSUME NEW m \in Manager, NEW ok \in BOOLEAN,
             CheckHealth(m, ok)
      PROVE  IInv'
  BY <1>11 DEF CheckHealth, GoTo
<1>12. ASSUME NEW m \in Manager,
             CheckStreak(m)
      PROVE  IInv'
  BY <1>12 DEF CheckStreak, GoTo
<1>13. ASSUME NEW m \in Manager, NEW id \in Identity,
             DelayTakeover(m, id)
      PROVE  IInv'
  <2>1. CASE id = "active"
    BY <1>13, <2>1 DEF DelayTakeover, GoTo
  <2>2. CASE id # "active"
    <3>. DEFINE rank == Rank(gossipState[m], m)
    <3>1. rank \in Nat /\ rank < Cardinality(Peer)
      BY RankInRange, ManagerAssumption DEF State
    <3>2. /\ pc[m] = "lastCheck" /\ pc' = [pc EXCEPT ![m] = "delaying"]
          /\ delay' = [delay EXCEPT ![m] = rank]
          /\ UNCHANGED <<gossipState, healthyStreak, cache, metrics>>
      BY <1>13, <2>2 DEF DelayTakeover, GoTo
    <3>3. rank = Rank(gossipState[m], m)
      OBVIOUS
    <3>. HIDE DEF rank
    <3>4. TypeOK' /\ GossipConsistent' /\ TakeoverJustified'
      BY <3>1, <3>2
    <3>5. DelayBounded'
      BY <3>1, <3>2, <3>3
    <3>. QED
      BY <3>2, <3>4, <3>5
  <2>. QED
    BY <2>1, <2>2
<1>14. ASSUME NEW m \in Manager, NEW g \in Refreshed(gossipState[m]),
             RecheckGossip(m, g)
      PROVE  IInv'
  <2>1. GossipOK(g)
    BY RefreshedOK
  <2>2. CASE g.undeclared \/ LeaderlessSamplesBelowThreshold(g)
    <3>1. /\ pc' = [pc EXCEPT ![m] = "idle"]
          /\ gossipState' = [gossipState EXCEPT ![m] = g]
          /\ UNCHANGED <<healthyStreak, delay, cache, metrics>>
          /\ delay[m] = 0 /\ g \in State
      BY <1>14, <2>1, <2>2 DEF RecheckGossip, GoTo, GossipOK
    <3>. QED
      BY <2>1, <3>1
  <2>3. CASE ~g.undeclared /\ ~LeaderlessSamplesBelowThreshold(g)
    <3>1. g \in State /\ g.count \in 0 .. Threshold
      BY <2>1 DEF GossipOK, State
    <3>2. g.count >= Threshold
      BY <2>3, <3>1, ThresholdAssumption DEF LeaderlessSamplesBelowThreshold
    <3>3. g.count = Threshold /\ g.active = {}
      BY <2>1, <3>2, FullCount
    <3>4. /\ pc' = [pc EXCEPT ![m] = "active.pre"]
          /\ cache' = [cache EXCEPT ![m].failover = "becoming_active"]
          /\ gossipState' = [gossipState EXCEPT ![m] = g]
          /\ UNCHANGED <<healthyStreak, delay, metrics>>
          /\ pc[m] = "delaying" /\ delay[m] = 0
      BY <1>14, <2>3 DEF RecheckGossip, EnsureActive, GoTo
    <3>5. TypeOK'
      <4>1. pc' \in [Manager -> Stage] /\ gossipState' \in [Manager -> State]
        BY <3>1, <3>4
      <4>2. cache \in [Manager -> [role : Role, failover : FailoverStatus]]
        OBVIOUS
      <4>3. cache' \in [Manager -> [role : Role, failover : FailoverStatus]]
        <5>. HIDE DEF IInv, TypeOK
        <5>. QED
          BY <3>4, <4>2 DEF FailoverStatus
      <4>. QED
        BY <3>4, <4>1, <4>3
    <3>8. GossipConsistent'
      BY <2>1, <3>4
    <3>6. TakeoverJustified'
      BY <2>3, <3>3, <3>4
    <3>7. DelayBounded' /\ FailoverMetricIdle' /\ ExportsIdle'
      BY <3>4
    <3>. QED
      BY <3>5, <3>6, <3>7, <3>8
  <2>. QED
    BY <2>2, <2>3
<1>15. ASSUME NEW m \in Manager, NEW ok \in BOOLEAN,
             RunActivePreHooks(m, ok)
      PROVE  IInv'
  BY <1>15 DEF RunActivePreHooks, GoTo
<1>16. ASSUME NEW m \in Manager, NEW ok \in BOOLEAN,
             RunActiveCommand(m, ok)
      PROVE  IInv'
  BY <1>16 DEF RunActiveCommand, GoTo
<1>17. ASSUME NEW m \in Manager,
             ConfirmActive(m)
      PROVE  IInv'
  BY <1>17 DEF ConfirmActive, GoTo
<1>18. ASSUME NEW m \in Manager, NEW ok \in BOOLEAN,
             RunPassivePreHooks(m, ok)
      PROVE  IInv'
  BY <1>18 DEF RunPassivePreHooks, GoTo
<1>19. ASSUME NEW m \in Manager, NEW ok \in BOOLEAN,
             RunPassiveCommand(m, ok)
      PROVE  IInv'
  BY <1>19 DEF RunPassiveCommand, GoTo
<1>20. ASSUME NEW m \in Manager, NEW id \in Identity,
             NEW g \in Refreshed(gossipState[m]),
             ConfirmPassive(m, id, g)
      PROVE  IInv'
  <2>1. GossipOK(g)
    BY RefreshedOK
  <2>. QED
    BY <1>20, <2>1 DEF ConfirmPassive, GoTo, GossipOK
<1>21. ASSUME NEW m \in Manager, NEW ok \in BOOLEAN,
             SampleSelfHealth(m, ok)
      PROVE  IInv'
  BY <1>21 DEF SampleSelfHealth, GoTo
<1>22. ASSUME NEW m \in Manager,
             StreakMatures(m)
      PROVE  IInv'
  BY <1>22 DEF StreakMatures, GoTo
<1>23. ASSUME NEW m \in Manager,
             Restart(m)
      PROVE  IInv'
  <2>1. GossipOK(NewState) /\ NewState \in State
    BY NewStateOK DEF GossipOK
  <2>2. Cardinality(Peer) \in Nat /\ 0 < Cardinality(Peer)
    BY PeersCounted, ManagerAssumption
  <2>3. TypeOK' /\ GossipConsistent' /\ TakeoverJustified'
    BY <1>23, <2>1 DEF Restart, GoTo, NewCache, NewMetrics, Role, FailoverStatus
  <2>4. DelayBounded' /\ FailoverMetricIdle' /\ ExportsIdle'
    BY <1>23, <2>2 DEF Restart, GoTo, NewCache, NewMetrics
  <2>. QED
    BY <2>3, <2>4
<1>24. ASSUME NEW S \in SUBSET Manager, SleepOn(S)
      PROVE  IInv'
  <2>1. /\ delay' \in [Manager -> Nat]
        /\ \A m \in Manager : delay'[m] <= delay[m]
        /\ UNCHANGED <<pc, gossipState, healthyStreak, cache, metrics>>
    BY <1>24 DEF SleepOn
  <2>2. \A m \in Manager : Rank(gossipState[m], m) \in Nat /\ Cardinality(Peer) \in Nat
    BY RankInRange, PeersCounted, ManagerAssumption DEF State
  <2>3. DelayBounded'
    BY <2>1, <2>2
  <2>. QED
    BY <2>1, <2>3
<1>25. CASE UNCHANGED vars
  BY <1>25 DEF vars
<1>. HIDE DEF IInv
<1>. QED
  BY <1>1, <1>2, <1>3, <1>4, <1>5, <1>6, <1>7, <1>8, <1>9, <1>10, <1>11, <1>12,
     <1>13, <1>14, <1>15, <1>16, <1>17, <1>18, <1>19, <1>20, <1>21, <1>22, <1>23, <1>24, <1>25
  DEF Next, RefreshStep, LocalRPCStep, DecisionStep, OutcomeStep

\* The managers start in the invariant.
LEMMA IInvInit == Init => IInv
<1>. SUFFICES ASSUME Init PROVE IInv
  OBVIOUS
<1>1. TypeOK /\ GossipConsistent
  <2>1. GossipOK(NewState) /\ NewState \in State
    BY NewStateOK DEF GossipOK
  <2>. QED
    BY <2>1 DEF Init, TypeOK, GossipConsistent, Stage, NewCache, NewMetrics,
                Role, FailoverStatus
<1>2. TakeoverJustified
  BY DEF Init, TakeoverJustified, CandidateStages, ActiveStages
<1>3. DelayBounded
  BY PeersCounted, ManagerAssumption DEF Init, DelayBounded
<1>4. FailoverMetricIdle /\ ExportsIdle
  BY DEF Init, FailoverMetricIdle, ExportsIdle, NewMetrics
<1>. QED
  BY <1>1, <1>2, <1>3, <1>4 DEF IInv

\* The invariant holds throughout every behaviour of the managers.
THEOREM IInvAlways == Spec => []IInv
BY IInvInit, IInvStep, PTL DEF Spec

\* Every variable keeps its type: in particular no delay is ever negative.
THEOREM TypeCorrect == Spec => []TypeOK
<1>1. IInv => TypeOK
  BY DEF IInv
<1>. QED
  BY <1>1, IInvAlways, PTL

\* No manager takes over, or prepares to, except on a full run of leaderless
\* samples that names no active peer (ensureHAState from its threshold check on).
THEOREM TakeoverIsJustified == Spec => []TakeoverJustified
<1>1. IInv => TakeoverJustified
  BY DEF IInv
<1>. QED
  BY <1>1, IInvAlways, PTL

\* Whatever the number of peers, a takeover is delayed by less than as many poll
\* intervals (delayTakeoverAsActive).
THEOREM DelayIsBounded == Spec => []DelayBounded
<1>1. IInv => DelayBounded
  BY DEF IInv
<1>. QED
  BY <1>1, IInvAlways, PTL

\* The failover_status gauge never leaves idle (refreshMetrics).
THEOREM FailoverMetricStaysIdle == Spec => []FailoverMetricIdle
<1>1. IInv => FailoverMetricIdle
  BY DEF IInv
<1>. QED
  BY <1>1, IInvAlways, PTL

-----------------------------------------------------------------------------
\* The three steps by which a manager enters ensurePassive.
Yields(m) ==
    \/ \E id \in Identity : DetectDualInGossip(m, id)
    \/ \E id \in Identity, actives \in SUBSET (Peer \ {m}) :
          CheckPeerHeartbeats(m, actives, id)
    \/ YieldUnseen(m)

\* No other step enters it, not even one of another manager.
LEMMA EntersPassive ==
    ASSUME TypeOK, [Next]_vars, NEW n \in Manager,
           pc[n] \notin PassiveStages, pc'[n] \in PassiveStages
    PROVE  Yields(n)
<1>. USE DEF TypeOK, PassiveStages
<1>1. ASSUME NEW m \in Manager, NEW g \in Refreshed(gossipState[m]),
             InitialRefresh(m, g)
      PROVE  Yields(n)
  BY <1>1 DEF InitialRefresh, GoTo
<1>2. ASSUME NEW m \in Manager, NEW g \in Refreshed(gossipState[m]),
             PollGossip(m, g)
      PROVE  Yields(n)
  BY <1>2 DEF PollGossip, GoTo
<1>3. ASSUME NEW m \in Manager, NEW id \in Identity, NEW id2 \in Identity,
             RefreshCache(m, id, id2)
      PROVE  Yields(n)
  BY <1>3 DEF RefreshCache, GoTo
<1>4. ASSUME NEW m \in Manager,
             ResetMetadata(m) \/ SetMetrics(m)
      PROVE  Yields(n)
  BY <1>4 DEF ResetMetadata, SetMetrics, GoTo
<1>5. ASSUME NEW m \in Manager, NEW id \in Identity,
             DetectDualInGossip(m, id)
      PROVE  Yields(n)
  <2>1. \/ pc' = [pc EXCEPT ![m] = "passive.pre"]
        \/ pc' = [pc EXCEPT ![m] = "evaluate"]
    BY <1>5 DEF DetectDualInGossip, GoTo, EnsurePassive
  <2>2. n = m
    BY <2>1
  <2>. QED
    BY <1>5, <2>2 DEF Yields
<1>6. ASSUME NEW m \in Manager, NEW id \in Identity,
             SkipDualInGossip(m, id)
      PROVE  Yields(n)
  BY <1>6 DEF SkipDualInGossip, GoTo
<1>7. ASSUME NEW m \in Manager, NEW id \in Identity,
             NEW actives \in SUBSET (Peer \ {m}),
             CheckPeerHeartbeats(m, actives, id)
      PROVE  Yields(n)
  <2>1. \/ pc' = [pc EXCEPT ![m] = "passive.pre"]
        \/ pc' = [pc EXCEPT ![m] = "evaluate"]
    BY <1>7 DEF CheckPeerHeartbeats, GoTo, EnsurePassive
  <2>2. n = m
    BY <2>1
  <2>. QED
    BY <1>7, <2>2 DEF Yields
<1>8. ASSUME NEW m \in Manager,
             StandBy(m)
      PROVE  Yields(n)
  BY <1>8 DEF StandBy, GoTo
<1>9. ASSUME NEW m \in Manager,
             YieldUnseen(m)
      PROVE  Yields(n)
  <2>1. pc' = [pc EXCEPT ![m] = "passive.pre"]
    BY <1>9 DEF YieldUnseen, GoTo, EnsurePassive
  <2>2. n = m
    BY <2>1
  <2>. QED
    BY <1>9, <2>2 DEF Yields
<1>10. ASSUME NEW m \in Manager,
             BecomeCandidate(m)
      PROVE  Yields(n)
  BY <1>10 DEF BecomeCandidate, GoTo
<1>11. ASSUME NEW m \in Manager, NEW ok \in BOOLEAN,
             CheckHealth(m, ok)
      PROVE  Yields(n)
  BY <1>11 DEF CheckHealth, GoTo
<1>12. ASSUME NEW m \in Manager,
             CheckStreak(m)
      PROVE  Yields(n)
  BY <1>12 DEF CheckStreak, GoTo
<1>13. ASSUME NEW m \in Manager, NEW id \in Identity,
             DelayTakeover(m, id)
      PROVE  Yields(n)
  BY <1>13 DEF DelayTakeover, GoTo
<1>14. ASSUME NEW m \in Manager, NEW g \in Refreshed(gossipState[m]),
             RecheckGossip(m, g)
      PROVE  Yields(n)
  BY <1>14 DEF RecheckGossip, GoTo, EnsureActive
<1>15. ASSUME NEW m \in Manager, NEW ok \in BOOLEAN,
             RunActivePreHooks(m, ok)
      PROVE  Yields(n)
  BY <1>15 DEF RunActivePreHooks, GoTo
<1>16. ASSUME NEW m \in Manager, NEW ok \in BOOLEAN,
             RunActiveCommand(m, ok)
      PROVE  Yields(n)
  BY <1>16 DEF RunActiveCommand, GoTo
<1>17. ASSUME NEW m \in Manager,
             ConfirmActive(m)
      PROVE  Yields(n)
  BY <1>17 DEF ConfirmActive, GoTo
<1>18. ASSUME NEW m \in Manager, NEW ok \in BOOLEAN,
             RunPassivePreHooks(m, ok)
      PROVE  Yields(n)
  BY <1>18 DEF RunPassivePreHooks, GoTo
<1>19. ASSUME NEW m \in Manager, NEW ok \in BOOLEAN,
             RunPassiveCommand(m, ok)
      PROVE  Yields(n)
  BY <1>19 DEF RunPassiveCommand, GoTo
<1>20. ASSUME NEW m \in Manager, NEW id \in Identity,
             NEW g \in Refreshed(gossipState[m]),
             ConfirmPassive(m, id, g)
      PROVE  Yields(n)
  BY <1>20 DEF ConfirmPassive, GoTo
<1>21. ASSUME NEW m \in Manager, NEW ok \in BOOLEAN,
             SampleSelfHealth(m, ok)
      PROVE  Yields(n)
  BY <1>21 DEF SampleSelfHealth, GoTo
<1>22. ASSUME NEW m \in Manager,
             StreakMatures(m)
      PROVE  Yields(n)
  BY <1>22 DEF StreakMatures, GoTo
<1>23. ASSUME NEW m \in Manager,
             Restart(m)
      PROVE  Yields(n)
  BY <1>23 DEF Restart, GoTo
<1>24. ASSUME NEW S \in SUBSET Manager, SleepOn(S)
      PROVE  Yields(n)
  BY <1>24 DEF SleepOn
<1>25. CASE UNCHANGED vars
  BY <1>25 DEF vars
<1>. HIDE DEF TypeOK
<1>. QED
  BY <1>1, <1>2, <1>3, <1>4, <1>5, <1>6, <1>7, <1>8, <1>9, <1>10, <1>11, <1>12,
     <1>13, <1>14, <1>15, <1>16, <1>17, <1>18, <1>19, <1>20, <1>21, <1>22, <1>23, <1>24, <1>25
  DEF Next, RefreshStep, LocalRPCStep, DecisionStep, OutcomeStep

\* A set of two or more holds somebody else.
LEMMA SomebodyElse ==
    ASSUME NEW S, NEW m, Cardinality(S) > 1, IsFiniteSet(S)
    PROVE  \E p \in S : p # m
<1>1. SUFFICES ASSUME S \subseteq {m} PROVE FALSE
  OBVIOUS
<1>2. IsFiniteSet({m}) /\ Cardinality({m}) = 1
  BY FS_Singleton
<1>3. Cardinality(S) <= 1
  BY <1>1, <1>2, FS_Subset
<1>4. Cardinality(S) \in Nat
  BY FS_CardinalityType
<1>. QED
  BY <1>3, <1>4

\* A node in gossip yields only to one of a better rank (shouldStepDown), for
\* every number of nodes: so two nodes that see each other never both yield.
THEOREM YieldsToBetterRank == Spec => YieldOnlyToBetterRank
<1>1. ASSUME IInv, [Next]_vars, NEW m \in Manager,
             pc[m] \notin PassiveStages, pc'[m] \in PassiveStages,
             HasIP(gossipState[m], m)
      PROVE  \E p \in gossipState[m].seen : p < m
  <2>1. Yields(m)
    BY <1>1, EntersPassive DEF IInv
  <2>2. ASSUME NEW actives, ShouldStepDown(m, actives)
        PROVE  \E p \in gossipState[m].seen : p < m
    BY <1>1, <2>2 DEF ShouldStepDown
  <2>3. CASE \E id \in Identity : DetectDualInGossip(m, id)
    BY <1>1, <2>2, <2>3 DEF DetectDualInGossip, GoTo, PassiveStages, IInv, TypeOK
  <2>4. CASE \E id \in Identity, actives \in SUBSET (Peer \ {m}) :
               CheckPeerHeartbeats(m, actives, id)
    BY <1>1, <2>2, <2>4 DEF CheckPeerHeartbeats, GoTo, PassiveStages, IInv, TypeOK
  <2>5. CASE YieldUnseen(m)
    BY <1>1, <2>5 DEF YieldUnseen
  <2>. QED
    BY <2>1, <2>3, <2>4, <2>5 DEF Yields
<1>2. IInv /\ [Next]_vars =>
        [\A m \in Manager :
           (pc[m] \notin PassiveStages /\ pc'[m] \in PassiveStages
              /\ HasIP(gossipState[m], m))
           => \E p \in gossipState[m].seen : p < m]_vars
  BY <1>1
<1>. QED
  BY <1>2, IInvAlways, PTL DEF Spec, YieldOnlyToBetterRank

\* A node whose getClusterNodes works, and which no heartbeat asks, yields only
\* while a peer that could replace it is in gossip (ensureHAState's check for
\* the last one standing).
THEOREM YieldsLeaveSomeone == Spec => YieldLeavesSomeone
<1>1. ASSUME IInv, [Next]_vars, NEW m \in Manager,
             pc[m] \notin PassiveStages \cup {"heartbeats"},
             pc'[m] \in PassiveStages, ~gossipState[m].rpcErr
      PROVE  HasPeers(gossipState[m], m)
  <2>1. Yields(m)
    BY <1>1, EntersPassive DEF IInv
  <2>2. CASE \E id \in Identity : DetectDualInGossip(m, id)
    <3>1. /\ gossipState[m].active \in SUBSET Peer
          /\ gossipState[m].active \subseteq gossipState[m].seen
      BY <1>1 DEF IInv, GossipConsistent, GossipOK, State
    <3>2. IsFiniteSet(gossipState[m].active)
      BY <3>1, PeerAssumption, FS_Subset
    <3>3. Cardinality(gossipState[m].active) > 1
      BY <2>2 DEF DetectDualInGossip, DualInGossip
    <3>. QED
      BY <3>1, <3>2, <3>3, SomebodyElse DEF HasPeers
  <2>3. CASE \E id \in Identity, actives \in SUBSET (Peer \ {m}) :
               CheckPeerHeartbeats(m, actives, id)
    BY <1>1, <2>3 DEF CheckPeerHeartbeats
  <2>4. CASE YieldUnseen(m)
    BY <1>1, <2>4 DEF YieldUnseen, LastOneStanding
  <2>. QED
    BY <2>1, <2>2, <2>3, <2>4 DEF Yields
<1>2. IInv /\ [Next]_vars =>
        [\A m \in Manager :
           (pc[m] \notin PassiveStages \cup {"heartbeats"} /\ pc'[m] \in PassiveStages
              /\ ~gossipState[m].rpcErr)
           => HasPeers(gossipState[m], m)]_vars
  BY <1>1
<1>. QED
  BY <1>2, IInvAlways, PTL DEF Spec, YieldLeavesSomeone
=============================================================================
