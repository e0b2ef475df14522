--------------------------- MODULE HAClusterProofs ---------------------------
(***************************************************************************)
(* The managers of a cluster, whatever the world does to them, behave as   *)
(* HAManager says: so all that HAManagerProofs proves of a manager in an   *)
(* arbitrary environment holds in the cluster as well.                     *)
(***************************************************************************)
EXTENDS HACluster, HAManagerProofs

\* The part of ClusterTypeOK that does not speak of the managers.
WorldTypeOK ==
    /\ validator \in [Peer -> {"active", "passive", "down"}]
    /\ link \in [Peer -> {"up", "norpc", "cut"}]
    /\ fit \in [Peer -> BOOLEAN]
    /\ delinquent \in BOOLEAN
    /\ ran \subseteq Manager
    /\ disruptions \in 0 .. MaxDisruptions
    /\ failed \subseteq Manager /\ mustYield \subseteq Peer
    /\ quietTicks \in 0 .. Threshold

\* The world starts with its type.
LEMMA WorldTypeInit == ClusterInit => WorldTypeOK
<1>. SUFFICES ASSUME ClusterInit PROVE WorldTypeOK
  OBVIOUS
<1>1. validator \in [Peer -> {"active", "passive", "down"}]
  <2>1. PICK n \in Peer, id \in {"active", "passive"} :
               validator = [p \in Peer |-> IF p = n THEN id ELSE "passive"]
    BY DEF ClusterInit
  <2>. QED
    BY <2>1
<1>2. 0 \in 0 .. MaxDisruptions /\ 0 \in 0 .. Threshold
  BY ClusterAssumption, ThresholdAssumption
<1>. QED
  BY <1>1, <1>2 DEF ClusterInit, WorldTypeOK

\* A disruption is only possible below the bound.
LEMMA DisruptCounts ==
    ASSUME WorldTypeOK, NEW kind, GoWrong(kind)
    PROVE  disruptions' \in 0 .. MaxDisruptions
BY ClusterAssumption DEF GoWrong, WorldTypeOK

\* Every disruption and every step of a manager keeps the world's type.
LEMMA WorldTypeStep == WorldTypeOK /\ [ClusterNext]_clusterVars => WorldTypeOK'
<1>. SUFFICES ASSUME WorldTypeOK, [ClusterNext]_clusterVars PROVE WorldTypeOK'
  OBVIOUS
<1>. USE DEF world, ticks
<1>1. ASSUME NEW n \in Peer, Crash(n) PROVE WorldTypeOK'
  BY <1>1, DisruptCounts DEF Crash, Disrupt, WorldTypeOK
<1>2. ASSUME NEW n \in Peer, Return(n) PROVE WorldTypeOK'
  BY <1>2, DisruptCounts DEF Return, Disrupt, WorldTypeOK
<1>3. ASSUME NEW n \in Peer, ChangeHealth(n) PROVE WorldTypeOK'
  BY <1>3, DisruptCounts DEF ChangeHealth, Disrupt, WorldTypeOK
<1>4. ASSUME NEW n \in Peer, ChangeLink(n) PROVE WorldTypeOK'
  BY <1>4, DisruptCounts DEF ChangeLink, Disrupt, WorldTypeOK
<1>5. ASSUME NEW n \in Peer, Usurp(n) PROVE WorldTypeOK'
  BY <1>5, DisruptCounts DEF Usurp, Disrupt, WorldTypeOK
<1>6. CASE Stall
  BY <1>6, DisruptCounts DEF Stall, Disrupt, WorldTypeOK
<1>7. ASSUME NEW m \in Manager, RestartManager(m) PROVE WorldTypeOK'
  BY <1>7, DisruptCounts DEF RestartManager, Disrupt, WorldTypeOK
<1>8. ASSUME NEW m \in Manager, Begin(m) PROVE WorldTypeOK'
  BY <1>8 DEF Begin, WorldTypeOK
<1>9. ASSUME NEW m \in Manager, Observe(m) PROVE WorldTypeOK'
  BY <1>9 DEF Observe, WorldTypeOK
<1>10. ASSUME NEW m \in Manager, Decide(m) PROVE WorldTypeOK'
  BY <1>10 DEF Decide, WorldTypeOK
<1>11. ASSUME NEW m \in Manager, RunHooks(m) PROVE WorldTypeOK'
  <2>1. disruptions' \in 0 .. MaxDisruptions
    BY <1>11, DisruptCounts DEF RunHooks, WorldTypeOK
  <2>. QED
    BY <1>11, <2>1 DEF RunHooks, WorldTypeOK
<1>12. ASSUME NEW m \in Manager, RunCommands(m) PROVE WorldTypeOK'
  <2>1. disruptions' \in 0 .. MaxDisruptions
    BY <1>12, DisruptCounts DEF RunCommands, WorldTypeOK
  <2>2. ASSUME NEW ok \in BOOLEAN, RunRoleCommand(m, ok), ok
        PROVE  \E id \in {"active", "passive"} : SetIdentity(m, id)
    BY <2>2 DEF RunRoleCommand
  <2>3. UNCHANGED world \/ \E id \in {"active", "passive"} : SetIdentity(m, id)
    BY <1>12, <2>2 DEF RunCommands
  <2>4. /\ validator' \in [Peer -> {"active", "passive", "down"}]
        /\ UNCHANGED <<link, fit>> /\ delinquent' \in BOOLEAN
    BY <2>3 DEF SetIdentity, WorldTypeOK
  <2>. QED
    BY <1>12, <2>1, <2>4 DEF RunCommands, WorldTypeOK
<1>13. ASSUME NEW m \in Manager, TrackHealth(m) PROVE WorldTypeOK'
  BY <1>13 DEF TrackHealth, WorldTypeOK
<1>14. CASE Tick
  <2>1. mustYield' \subseteq Peer /\ ran' \subseteq Manager /\ failed' \subseteq Manager
    BY <1>14 DEF Tick, Outranked, Actives
  <2>2. quietTicks' \in 0 .. Threshold
    BY <1>14, ThresholdAssumption DEF Tick, WorldTypeOK
  <2>. QED
    BY <1>14, <2>1, <2>2 DEF Tick, WorldTypeOK
<1>15. CASE UNCHANGED clusterVars
  BY <1>15 DEF clusterVars, WorldTypeOK
<1>. QED
  BY <1>1, <1>2, <1>3, <1>4, <1>5, <1>6, <1>7, <1>8, <1>9, <1>10, <1>11, <1>12,
     <1>13, <1>14, <1>15 DEF ClusterNext, Disruption, ManagerStep

\* The world keeps its type in every behaviour of the cluster.
LEMMA WorldTypeAlways == ClusterSpec => []WorldTypeOK
BY WorldTypeInit, WorldTypeStep, PTL DEF ClusterSpec

-----------------------------------------------------------------------------
\* What the world answers is what HAManager expects to be answered.
LEMMA WorldAnswers ==
    ASSUME WorldTypeOK, NEW m \in Manager
    PROVE  /\ RefreshedFromWorld(m) \in Refreshed(gossipState[m])
           /\ LocalIdentity(m) \in Identity
           /\ Healthy(m) \in BOOLEAN
           /\ ActiveHeartbeats(m) \in SUBSET (Peer \ {m})
<1>1. m \in Peer
  BY ManagerAssumption
<1>2. WorldSample \in Sample
  BY DEF WorldSample, Sample
<1>3. RefreshedFromWorld(m) \in Refreshed(gossipState[m])
  BY <1>2 DEF RefreshedFromWorld, Refreshed
<1>4. LocalIdentity(m) \in Identity /\ Healthy(m) \in BOOLEAN
  BY <1>1 DEF LocalIdentity, Healthy, Identity, WorldTypeOK
<1>5. ActiveHeartbeats(m) \in SUBSET (Peer \ {m})
  BY ManagerAssumption DEF ActiveHeartbeats
<1>. QED
  BY <1>3, <1>4, <1>5

\* A step of the cluster is a step of its managers, or leaves them alone.
LEMMA ClusterStep == WorldTypeOK /\ [ClusterNext]_clusterVars => [Next]_vars
<1>. SUFFICES ASSUME WorldTypeOK, [ClusterNext]_clusterVars PROVE [Next]_vars
  OBVIOUS
<1>1. CASE Disruption
  BY <1>1 DEF Disruption, Crash, Return, ChangeHealth, ChangeLink, Usurp, Stall,
              RestartManager, Next
<1>2. ASSUME NEW m \in Manager, Begin(m) PROVE Next
  <2>1. InitialRefresh(m, RefreshedFromWorld(m)) \/ PollGossip(m, RefreshedFromWorld(m))
    BY <1>2 DEF Begin
  <2>. QED
    BY <2>1, WorldAnswers DEF Next, RefreshStep
<1>3. ASSUME NEW m \in Manager, Observe(m) PROVE Next
  <2>1. CASE \/ RefreshCache(m, LocalIdentity(m), LocalIdentity(m))
             \/ DetectDualInGossip(m, LocalIdentity(m))
             \/ SkipDualInGossip(m, LocalIdentity(m))
             \/ CheckPeerHeartbeats(m, ActiveHeartbeats(m), LocalIdentity(m))
             \/ DelayTakeover(m, LocalIdentity(m))
    BY <2>1, WorldAnswers DEF Next, LocalRPCStep
  <2>2. CASE CheckHealth(m, Healthy(m))
    BY <2>2, WorldAnswers DEF Next, OutcomeStep
  <2>3. CASE \/ RecheckGossip(m, RefreshedFromWorld(m))
             \/ ConfirmPassive(m, LocalIdentity(m), RefreshedFromWorld(m))
    BY <2>3, WorldAnswers DEF Next, RefreshStep
  <2>. QED
    BY <1>3, <2>1, <2>2, <2>3 DEF Observe
<1>4. ASSUME NEW m \in Manager, Decide(m) PROVE Next
  BY <1>4 DEF Decide, Next
<1>5. ASSUME NEW m \in Manager, RunHooks(m) PROVE Next
  BY <1>5 DEF RunHooks, Next, OutcomeStep
<1>6. ASSUME NEW m \in Manager, RunCommands(m) PROVE Next
  <2>1. \E ok \in BOOLEAN : RunActiveCommand(m, ok) \/ RunPassiveCommand(m, ok)
    BY <1>6 DEF RunCommands, RunRoleCommand
  <2>. QED
    BY <2>1 DEF Next, OutcomeStep
<1>7. ASSUME NEW m \in Manager, TrackHealth(m) PROVE Next
  BY <1>7, WorldAnswers DEF TrackHealth, Next, OutcomeStep
<1>8. CASE Tick
  <2>1. InSleep \in SUBSET Manager
    BY DEF InSleep
  <2>. QED
    BY <1>8, <2>1 DEF Tick, Next, vars
<1>9. CASE UNCHANGED clusterVars
  BY <1>9 DEF clusterVars, vars
<1>. QED
  BY <1>1, <1>2, <1>3, <1>4, <1>5, <1>6, <1>7, <1>8, <1>9 DEF ClusterNext, ManagerStep

\* The cluster implements its managers: everything proved of HAManager's Spec
\* holds of the nodes of a real deployment.
THEOREM ClusterImplementsManagers == ClusterSpec => Spec
<1>1. ClusterInit => Init
  BY DEF ClusterInit
<1>. QED
  BY <1>1, WorldTypeAlways, ClusterStep, PTL DEF ClusterSpec, Spec

\* Every variable of the cluster keeps its type, for any number of nodes and
\* any bound on the disruptions.
THEOREM ClusterTypeCorrect == ClusterSpec => []ClusterTypeOK
<1>1. TypeOK /\ WorldTypeOK => ClusterTypeOK
  BY DEF WorldTypeOK, ClusterTypeOK
<1>. QED
  BY <1>1, ClusterImplementsManagers, TypeCorrect, WorldTypeAlways, PTL

-----------------------------------------------------------------------------
\* Only the recheck, with what Refresh finds at that moment, takes a manager
\* from its sleep into ensureActive.
LEMMA WakesToTakeOver ==
    ASSUME TypeOK, [ClusterNext]_clusterVars, NEW n \in Manager,
           pc[n] = "delaying", pc'[n] = "active.pre"
    PROVE  RecheckGossip(n, RefreshedFromWorld(n))
<1>. USE DEF TypeOK, GoTo
<1>1. CASE Disruption
  <2>1. ASSUME NEW m \in Manager, RestartManager(m) PROVE FALSE
    BY <2>1 DEF RestartManager, Restart
  <2>2. UNCHANGED pc \/ \E m \in Manager : RestartManager(m)
    BY <1>1 DEF Disruption, Crash, Return, ChangeHealth, ChangeLink, Usurp, Stall, vars
  <2>. QED
    BY <2>1, <2>2
<1>2. ASSUME NEW m \in Manager, Begin(m) PROVE FALSE
  BY <1>2 DEF Begin, InitialRefresh, PollGossip
<1>3. ASSUME NEW m \in Manager, Observe(m) PROVE RecheckGossip(n, RefreshedFromWorld(n))
  <2>1. CASE RefreshCache(m, LocalIdentity(m), LocalIdentity(m))
    BY <2>1 DEF RefreshCache
  <2>2. CASE DetectDualInGossip(m, LocalIdentity(m))
    BY <2>2 DEF DetectDualInGossip, EnsurePassive
  <2>3. CASE SkipDualInGossip(m, LocalIdentity(m))
    BY <2>3 DEF SkipDualInGossip
  <2>4. CASE CheckPeerHeartbeats(m, ActiveHeartbeats(m), LocalIdentity(m))
    BY <2>4 DEF CheckPeerHeartbeats, EnsurePassive
  <2>5. CASE CheckHealth(m, Healthy(m))
    BY <2>5 DEF CheckHealth
  <2>6. CASE DelayTakeover(m, LocalIdentity(m))
    BY <2>6 DEF DelayTakeover
  <2>7. CASE RecheckGossip(m, RefreshedFromWorld(m))
    <3>1. pc'[n] # pc[n]
      OBVIOUS
    <3>2. n = m
      BY <2>7, <3>1 DEF RecheckGossip, EnsureActive
    <3>. QED
      BY <2>7, <3>2
  <2>8. CASE ConfirmPassive(m, LocalIdentity(m), RefreshedFromWorld(m))
    BY <2>8 DEF ConfirmPassive
  <2>. HIDE DEF TypeOK
  <2>. QED
    BY <1>3, <2>1, <2>2, <2>3, <2>4, <2>5, <2>6, <2>7, <2>8 DEF Observe
<1>4. ASSUME NEW m \in Manager, Decide(m) PROVE FALSE
  BY <1>4 DEF Decide, DecisionStep, ResetMetadata, SetMetrics, StandBy, YieldUnseen,
              EnsurePassive, BecomeCandidate, CheckStreak, ConfirmActive
<1>5. ASSUME NEW m \in Manager, RunHooks(m) PROVE FALSE
  BY <1>5 DEF RunHooks, RunActivePreHooks, RunPassivePreHooks
<1>6. ASSUME NEW m \in Manager, RunCommands(m) PROVE FALSE
  BY <1>6 DEF RunCommands, RunRoleCommand, RunActiveCommand, RunPassiveCommand
<1>7. ASSUME NEW m \in Manager, TrackHealth(m) PROVE FALSE
  BY <1>7 DEF TrackHealth, SampleSelfHealth, StreakMatures
<1>8. CASE Tick
  BY <1>8 DEF Tick, SleepOn, vars
<1>9. CASE UNCHANGED clusterVars
  BY <1>9 DEF clusterVars, vars
<1>. HIDE DEF TypeOK
<1>. QED
  BY <1>1, <1>2, <1>3, <1>4, <1>5, <1>6, <1>7, <1>8, <1>9 DEF ClusterNext, ManagerStep

\* A node with a cluster RPC that goes on from its sleep to ensureActive sees no
\* other active node, for any number of nodes and whatever went wrong while it
\* slept: one sighting resets the count and the threshold is at least one.
THEOREM RecheckAlwaysSeesActives == ClusterSpec => RecheckSeesActives
<1>. DEFINE Sees == \A m \in Manager :
          pc[m] = "delaying" /\ pc'[m] = "active.pre" /\ link[m] = "up"
          => \A n \in Actives \ {m} : ~Connected(n) \/ delinquent
<1>1. TypeOK /\ [ClusterNext]_clusterVars => Sees
  <2>. SUFFICES ASSUME TypeOK, [ClusterNext]_clusterVars, NEW m \in Manager,
                       pc[m] = "delaying", pc'[m] = "active.pre", link[m] = "up",
                       NEW n \in Actives \ {m}, Connected(n), ~delinquent
                PROVE  FALSE
    OBVIOUS
  <2>. DEFINE g == RefreshedFromWorld(m)
  <2>1. RecheckGossip(m, g)
    BY WakesToTakeOver
  <2>2. g.count = 0
    <3>1. n \in Peer /\ n \in WorldSample.active
      BY DEF WorldSample, Actives
    <3>2. ~WorldSample.leaderless
      BY <3>1 DEF WorldSample
    <3>3. g = RefreshSample(gossipState[m], WorldSample)
      BY DEF RefreshedFromWorld
    <3>. QED
      BY <3>2, <3>3 DEF RefreshSample
  <2>. HIDE DEF g
  <2>3. LeaderlessSamplesBelowThreshold(g)
    BY <2>2, ThresholdAssumption DEF LeaderlessSamplesBelowThreshold
  <2>4. pc' = [pc EXCEPT ![m] = "idle"]
    BY <2>1, <2>3 DEF RecheckGossip, GoTo
  <2>. QED
    BY <2>4 DEF TypeOK
<1>. QED
  BY <1>1, ClusterImplementsManagers, TypeCorrect, PTL DEF ClusterSpec, RecheckSeesActives

-----------------------------------------------------------------------------
(***************************************************************************)
(* A split brain lasts one period, whatever goes wrong between periods.    *)
(***************************************************************************)

\* b has done its work of this period and keeps the active identity it has.
Rests(b) == b \in Manager \cap ran /\ pc[b] \in {"active.post", "idle"}

\* b has looked, sees a second active node, and none before itself.
Prevails(b) ==
    /\ pc[b] \in {"refreshed", "exporting", "gap", "dualCheck"}
    /\ HasIP(gossipState[b], b)
    /\ \A q \in gossipState[b].active : ~(q < b)
    /\ \E q \in gossipState[b].active : q # b

\* b is active, can be seen, and stays so until the period is over.  Should it
\* yield when it looks, then to a node that guards in its place.
Guards(b) ==
    /\ b \in Actives /\ link[b] # "cut" /\ b \in Manager
    /\ \/ Rests(b)
       \/ /\ pc[b] = "idle" /\ b \notin ran /\ link[b] = "up"
          /\ \A q \in Actives : q < b => link[q] = "cut" \/ Rests(q)
       \/ Prevails(b) /\ b \in gossipState[b].active
       \/ pc[b] = "evaluate" /\ gossipState[b].count = 0

\* The stages of a node that must yield.
Waiting(n) ==
    /\ n \in Actives /\ link[n] = "up" /\ ~delinquent
    /\ pc[n] = "idle" /\ n \notin ran
    /\ \E b \in Manager : Guards(b) /\ b < n

Looking(n) ==
    /\ n \in Actives /\ pc[n] \in {"refreshed", "exporting", "gap", "dualCheck"}
    /\ n \in gossipState[n].active
    /\ \E p \in gossipState[n].active : p < n

Yielding(n) == pc[n] \in {"passive.pre", "passive.command"}

Yielded(n) == n \notin Actives /\ n \in ran /\ pc[n] \in {"passive.post", "idle", "start"}

SplitInv ==
    /\ \A m \in Manager : pc[m] \notin {"start", "idle"} => m \in ran
    /\ \A n \in mustYield \ failed :
          n \in Manager /\ (Waiting(n) \/ Looking(n) \/ Yielding(n) \/ Yielded(n))

\* What a step of one manager means for a split brain.
SplitMove(m) ==
    /\ UNCHANGED <<link, mustYield>> /\ failed \subseteq failed'
    /\ delinquent' => delinquent
    /\ m \in ran'
    /\ \A n \in Manager \ {m} : /\ pc'[n] = pc[n] /\ gossipState'[n] = gossipState[n]
                                /\ n \in ran' <=> n \in ran
    /\ \/ Actives' = Actives
       \/ pc[m] = "active.command" /\ pc'[m] = "active.post" /\ Actives' = Actives \cup {m}
       \/ pc[m] = "passive.command" /\ pc'[m] = "passive.post" /\ Actives' = Actives \ {m}
    /\ \/ pc[m] = "start" /\ pc'[m] = "idle"
       \/ /\ pc[m] = "idle" /\ pc'[m] = "refreshed" /\ m \notin ran
          /\ gossipState'[m] = RefreshedFromWorld(m)
       \/ /\ pc[m] \in {"refreshed", "exporting", "gap"}
          /\ pc'[m] \in {"exporting", "gap", "dualCheck"}
          /\ gossipState'[m] = gossipState[m]
       \/ /\ pc[m] = "dualCheck" /\ gossipState'[m] = gossipState[m]
          /\ m \in Actives /\ DualInGossip(m) =>
               pc'[m] = IF ShouldStepDown(m, gossipState[m].active)
                          THEN "passive.pre" ELSE "evaluate"
       \/ /\ pc[m] = "evaluate" /\ gossipState'[m] = gossipState[m]
          /\ gossipState[m].count = 0 => pc'[m] = "idle"
       \/ pc[m] \in CandidateStages \cup {"heartbeats", "active.pre", "active.command"}
       \/ pc[m] = "active.post" /\ pc'[m] = "idle"
       \/ pc[m] = "passive.pre" /\ (pc'[m] = "passive.command" \/ m \in failed')
       \/ /\ pc[m] = "passive.command"
          /\ (pc'[m] = "passive.post" /\ m \notin Actives') \/ m \in failed'
       \/ pc[m] = "passive.post" /\ pc'[m] = "idle"

\* Two active peers in gossip are a dual active.
LEMMA TwoMembers ==
    ASSUME TypeOK, NEW m \in Manager,
           NEW p \in gossipState[m].active, NEW q \in gossipState[m].active, p # q
    PROVE  DualInGossip(m)
<1>. DEFINE A == gossipState[m].active
<1>1. A \in SUBSET Peer /\ p \in A /\ q \in A
  BY DEF TypeOK, State
<1>. HIDE DEF A
<1>2. IsFiniteSet(A)
  BY <1>1, PeerAssumption, FS_Subset
<1>3. {p} \in SUBSET A /\ {p} # A
  BY <1>1
<1>4. Cardinality({p}) = 1
  BY FS_Singleton
<1>5. Cardinality({p}) <= Cardinality(A) /\ (Cardinality({p}) = Cardinality(A) => {p} = A)
  BY <1>2, <1>3, FS_Subset
<1>6. Cardinality(A) \in Nat
  BY <1>2, FS_CardinalityType
<1>. QED
  BY <1>3, <1>4, <1>5, <1>6 DEF DualInGossip, A

\* What the steps of a split brain may rely on.
SplitContext == Window # "any" /\ IInv /\ WorldTypeOK /\ SplitInv

\* A step of a manager is such a move.
LEMMA SplitMoves ==
    ASSUME SplitContext, NEW m \in Manager, ManagerStep(m)
    PROVE  SplitMove(m)
<1>. USE DEF SplitContext, IInv, TypeOK, GoTo, world, ticks
<1>0. m \in Peer
  BY ManagerAssumption
<1>1. pc[m] \notin {"start", "idle"} => m \in ran
  BY DEF SplitInv
<1>2. CASE Begin(m)
  <2>1. CASE InitialRefresh(m, RefreshedFromWorld(m))
    BY <1>2, <2>1 DEF Begin, InitialRefresh, SplitMove, Actives
  <2>2. CASE m \notin ran /\ PollGossip(m, RefreshedFromWorld(m))
    BY <1>2, <2>2 DEF Begin, PollGossip, SplitMove, Actives
  <2>. QED
    BY <1>2, <2>1, <2>2 DEF Begin
<1>3. CASE Observe(m)
  <2>0. /\ UNCHANGED <<link, mustYield, failed, delinquent, ran>> /\ Actives' = Actives
    BY <1>3 DEF Observe, Actives
  <2>1. CASE RefreshCache(m, LocalIdentity(m), LocalIdentity(m))
    BY <1>1, <2>0, <2>1 DEF RefreshCache, SplitMove
  <2>2. CASE DetectDualInGossip(m, LocalIdentity(m))
    BY <1>1, <2>0, <2>2 DEF DetectDualInGossip, EnsurePassive, SplitMove
  <2>3. CASE SkipDualInGossip(m, LocalIdentity(m))
    <3>1. ~(m \in Actives /\ DualInGossip(m))
      BY <2>3 DEF SkipDualInGossip, LocalIdentity, Actives
    <3>. QED
      BY <1>1, <2>0, <2>3, <3>1 DEF SkipDualInGossip, SplitMove
  <2>4. CASE CheckPeerHeartbeats(m, ActiveHeartbeats(m), LocalIdentity(m))
    BY <1>1, <2>0, <2>4 DEF CheckPeerHeartbeats, EnsurePassive, SplitMove
  <2>5. CASE CheckHealth(m, Healthy(m)) \/ DelayTakeover(m, LocalIdentity(m))
    BY <1>1, <2>0, <2>5 DEF CheckHealth, DelayTakeover, SplitMove, CandidateStages
  <2>6. CASE RecheckGossip(m, RefreshedFromWorld(m))
    BY <1>1, <2>0, <2>6 DEF RecheckGossip, EnsureActive, SplitMove, CandidateStages
  <2>7. CASE ConfirmPassive(m, LocalIdentity(m), RefreshedFromWorld(m))
    BY <1>1, <2>0, <2>7 DEF ConfirmPassive, SplitMove
  <2>. QED
    BY <1>3, <2>1, <2>2, <2>3, <2>4, <2>5, <2>6, <2>7 DEF Observe
<1>4. CASE Decide(m)
  <2>0. /\ UNCHANGED <<link, mustYield, failed, delinquent, ran>> /\ Actives' = Actives
    BY <1>4 DEF Decide, Actives
  <2>1. CASE ResetMetadata(m) \/ SetMetrics(m)
    BY <1>1, <2>0, <2>1 DEF ResetMetadata, SetMetrics, SplitMove
  <2>2. CASE StandBy(m)
    BY <1>1, <2>0, <2>2 DEF StandBy, SplitMove
  <2>3. CASE YieldUnseen(m) \/ BecomeCandidate(m)
    <3>1. gossipState[m].count # 0
      BY <2>3, ThresholdAssumption
         DEF YieldUnseen, BecomeCandidate, FailoverRequired, LeaderlessSamplesExceedsThreshold
    <3>. QED
      BY <1>1, <2>0, <2>3, <3>1 DEF YieldUnseen, BecomeCandidate, EnsurePassive, SplitMove
  <2>4. CASE CheckStreak(m)
    BY <1>1, <2>0, <2>4 DEF CheckStreak, SplitMove, CandidateStages
  <2>5. CASE ConfirmActive(m)
    BY <1>1, <2>0, <2>5 DEF ConfirmActive, SplitMove
  <2>. QED
    BY <1>4, <2>1, <2>2, <2>3, <2>4, <2>5 DEF Decide, DecisionStep
<1>5. CASE RunHooks(m)
  <2>0. /\ UNCHANGED <<link, mustYield, delinquent, ran>> /\ failed \subseteq failed'
        /\ Actives' = Actives
    BY <1>5 DEF RunHooks, Actives
  <2>1. CASE RunActivePreHooks(m, TRUE) \/ RunActivePreHooks(m, FALSE)
    BY <1>1, <2>0, <2>1 DEF RunActivePreHooks, SplitMove
  <2>2. CASE RunPassivePreHooks(m, TRUE)
    BY <1>1, <2>0, <2>2 DEF RunPassivePreHooks, SplitMove
  <2>3. CASE RunPassivePreHooks(m, FALSE) /\ m \in failed'
    BY <1>1, <2>0, <2>3 DEF RunPassivePreHooks, SplitMove
  <2>. QED
    BY <1>5, <2>1, <2>2, <2>3 DEF RunHooks
<1>6. CASE RunCommands(m)
  <2>0. UNCHANGED <<ran, mustYield>> /\ failed \subseteq failed'
    BY <1>6 DEF RunCommands
  <2>1. CASE RunActiveCommand(m, TRUE) /\ SetIdentity(m, "active")
    <3>1. Actives' = Actives \cup {m}
      BY <1>0, <2>1 DEF SetIdentity, Actives, WorldTypeOK
    <3>. QED
      BY <1>1, <2>0, <2>1, <3>1 DEF RunActiveCommand, SetIdentity, SplitMove
  <2>2. CASE RunPassiveCommand(m, TRUE) /\ SetIdentity(m, "passive")
    <3>1. Actives' = Actives \ {m}
      BY <1>0, <2>2 DEF SetIdentity, Actives, WorldTypeOK
    <3>. QED
      BY <1>1, <2>0, <2>2, <3>1 DEF RunPassiveCommand, SetIdentity, SplitMove
  <2>3. CASE RunRoleCommand(m, FALSE) /\ m \in failed' /\ UNCHANGED world
    <3>1. CASE RunActiveCommand(m, FALSE)
      BY <1>1, <2>0, <2>3, <3>1 DEF RunActiveCommand, SplitMove, Actives
    <3>2. CASE RunPassiveCommand(m, FALSE)
      BY <1>1, <2>0, <2>3, <3>2 DEF RunPassiveCommand, SplitMove, Actives
    <3>. QED
      BY <2>3, <3>1, <3>2 DEF RunRoleCommand
  <2>. QED
    BY <1>6, <2>1, <2>2, <2>3 DEF RunCommands, RunRoleCommand
<1>. QED
  BY <1>2, <1>3, <1>4, <1>5, <1>6 DEF ManagerStep

\* Until a node that must yield has looked, the period cannot end.
LEMMA PeriodGoesOn ==
    ASSUME SplitContext, NEW n \in Manager, Waiting(n) \/ Looking(n)
    PROVE  ~PeriodOver
<1>1. delay[n] > 0 => pc[n] = "delaying"
  BY DEF SplitContext, IInv, DelayBounded
<1>2. n \notin InSleep /\ n \notin InCommand
  BY <1>1 DEF InSleep, InCommand, Waiting, Looking, ActiveStages, PassiveStages
<1>. QED
  BY <1>2 DEF PeriodOver, Waiting, Looking

\* What a node of the network sees of the active nodes on it.
LEMMA SplitSample ==
    ASSUME SplitContext, NEW m \in Manager, link[m] = "up", ~delinquent,
           gossipState'[m] = RefreshedFromWorld(m)
    PROVE  /\ gossipState'[m].active = {q \in Actives : link[q] # "cut"}
           /\ \A q \in Actives : link[q] # "cut" => HasIP(gossipState'[m], q)
<1>1. WorldSample.active = {q \in Actives : link[q] # "cut"}
      /\ \A q \in Actives : link[q] # "cut" => q \in WorldSample.seen
  BY DEF WorldSample, Connected, Actives
<1>2. gossipState'[m] = RefreshSample(gossipState[m], WorldSample)
  BY DEF RefreshedFromWorld
<1>. QED
  BY <1>1, <1>2 DEF RefreshSample, HasIP

\* A guard goes on guarding, or a better ranked one has taken its place.
LEMMA GuardsOn ==
    ASSUME SplitContext, NEW m \in Manager, SplitMove(m), ~delinquent,
           NEW n \in Manager, n # m, n \in Actives, link[n] = "up",
           NEW b \in Manager, Guards(b), b < n
    PROVE  \E c \in Manager : Guards(c)' /\ c < n
<1>. USE DEF SplitContext, SplitInv
<1>0. \A x \in Manager : x \in Nat
  BY PeerAssumption, ManagerAssumption
<1>1. \A q \in Manager : Rests(q) /\ q \in Actives => Rests(q)' /\ q \in Actives'
  BY DEF SplitMove, Rests, CandidateStages
<1>2. \A q \in Actives' : q \notin Actives => Rests(q)'
  BY DEF SplitMove, Rests
<1>3. link' = link
  BY DEF SplitMove
<1>4. CASE b # m
  <2>1. /\ b \in Actives' /\ pc'[b] = pc[b] /\ gossipState'[b] = gossipState[b]
        /\ b \in ran' <=> b \in ran
    BY <1>4 DEF SplitMove, Guards
  <2>2. CASE Rests(b)
    BY <1>1, <1>3, <2>2 DEF Guards
  <2>3. CASE pc[b] = "idle" /\ b \notin ran /\ link[b] = "up"
             /\ \A q \in Actives : q < b => link[q] = "cut" \/ Rests(q)
    <3>1. \A q \in Actives' : q < b => link'[q] = "cut" \/ Rests(q)'
      BY <1>1, <1>2, <1>3, <2>3 DEF Rests
    <3>. QED
      BY <1>3, <2>1, <2>3, <3>1 DEF Guards
  <2>4. CASE Prevails(b) /\ b \in gossipState[b].active
    BY <1>3, <2>1, <2>4 DEF Guards, Prevails, HasIP
  <2>5. CASE pc[b] = "evaluate" /\ gossipState[b].count = 0
    BY <1>3, <2>1, <2>5 DEF Guards
  <2>. QED
    BY <2>2, <2>3, <2>4, <2>5 DEF Guards
<1>5. CASE b = m
  <2>. USE <1>5
  <2>1. CASE Rests(b)
    BY <1>1, <1>3, <2>1 DEF Guards
  <2>2. CASE pc[b] = "idle" /\ b \notin ran /\ link[b] = "up"
             /\ \A q \in Actives : q < b => link[q] = "cut" \/ Rests(q)
    <3>1. /\ pc'[b] = "refreshed" /\ gossipState'[b] = RefreshedFromWorld(b)
          /\ Actives' = Actives
      BY <2>2 DEF SplitMove, CandidateStages
    <3>2. /\ gossipState'[b].active = {q \in Actives : link[q] # "cut"}
          /\ HasIP(gossipState'[b], b)
      BY <2>2, <3>1, SplitSample DEF Guards
    <3>3. CASE \A q \in gossipState'[b].active : ~(q < b)
      <4>1. n \in gossipState'[b].active /\ b \in gossipState'[b].active /\ n # b
        BY <3>2 DEF Guards
      <4>. QED
        BY <1>3, <3>1, <3>2, <3>3, <4>1 DEF Guards, Prevails
    <3>4. ASSUME NEW q \in gossipState'[b].active, q < b
          PROVE  \E c \in Manager : Guards(c)' /\ c < n
      <4>1. q \in Actives /\ link[q] # "cut" /\ Rests(q)
        BY <2>2, <3>2, <3>4
      <4>2. q \in Manager /\ Rests(q)' /\ q \in Actives'
        BY <1>1, <4>1 DEF Rests
      <4>3. q < n
        BY <1>0, <3>4, <4>2
      <4>. QED
        BY <1>3, <4>1, <4>2, <4>3 DEF Guards
    <3>. QED
      BY <3>3, <3>4
  <2>3. CASE Prevails(b) /\ b \in gossipState[b].active
    <3>1. gossipState'[b] = gossipState[b] /\ Actives' = Actives
      BY <2>3 DEF SplitMove, Prevails, CandidateStages
    <3>2. CASE pc[b] = "dualCheck"
      <4>1. DualInGossip(b)
        BY <2>3, TwoMembers DEF Prevails, IInv
      <4>2. ~ShouldStepDown(b, gossipState[b].active)
        BY <2>3 DEF Prevails, ShouldStepDown
      <4>3. pc'[b] = "evaluate"
        BY <3>2, <4>1, <4>2 DEF SplitMove, CandidateStages, Guards
      <4>4. gossipState[b].count = 0
        <5>1. GossipOK(gossipState[b]) /\ gossipState[b].count \in Nat
          BY DEF IInv, GossipConsistent, TypeOK, State
        <5>. QED
          BY <2>3, <5>1 DEF GossipOK
      <4>. QED
        BY <1>3, <3>1, <4>3, <4>4 DEF Guards
    <3>3. CASE pc[b] # "dualCheck"
      <4>1. pc'[b] \in {"exporting", "gap", "dualCheck"}
        BY <2>3, <3>3 DEF SplitMove, Prevails, CandidateStages
      <4>. QED
        BY <1>3, <2>3, <3>1, <4>1 DEF Guards, Prevails
    <3>. QED
      BY <3>2, <3>3
  <2>4. CASE pc[b] = "evaluate" /\ gossipState[b].count = 0
    <3>1. pc'[b] = "idle" /\ b \in ran' /\ Actives' = Actives
      BY <2>4 DEF SplitMove, CandidateStages
    <3>. QED
      BY <1>3, <3>1 DEF Guards, Rests
  <2>. QED
    BY <2>1, <2>2, <2>3, <2>4 DEF Guards
<1>. QED
  BY <1>4, <1>5

\* Nobody has yet anything to yield.
LEMMA SplitInit == ClusterInit => SplitInv
BY DEF ClusterInit, Init, SplitInv

\* A node that must yield gets on with it, whoever moves.
LEMMA YieldGoesOn ==
    ASSUME SplitContext, NEW m \in Manager, SplitMove(m),
           NEW n \in Manager, n \notin failed',
           Waiting(n) \/ Looking(n) \/ Yielding(n) \/ Yielded(n)
    PROVE  (Waiting(n) \/ Looking(n) \/ Yielding(n) \/ Yielded(n))'
<1>. USE DEF SplitContext
<1>1. CASE n # m
  <2>1. /\ pc'[n] = pc[n] /\ gossipState'[n] = gossipState[n] /\ link' = link
        /\ n \in ran' <=> n \in ran
        /\ n \in Actives' <=> n \in Actives
        /\ delinquent' => delinquent
    BY <1>1 DEF SplitMove
  <2>2. CASE Waiting(n)
    <3>1. PICK b \in Manager : Guards(b) /\ b < n
      BY <2>2 DEF Waiting
    <3>2. \E c \in Manager : Guards(c)' /\ c < n
      BY <1>1, <2>2, <3>1, GuardsOn DEF Waiting
    <3>3. Waiting(n)'
      BY <2>1, <2>2, <3>2 DEF Waiting
    <3>. QED
      BY <3>3
  <2>3. CASE Looking(n)
    BY <2>1, <2>3 DEF Looking
  <2>4. CASE Yielding(n)
    BY <2>1, <2>4 DEF Yielding
  <2>5. CASE Yielded(n)
    BY <2>1, <2>5 DEF Yielded
  <2>. QED
    BY <2>2, <2>3, <2>4, <2>5
<1>2. CASE n = m
  <2>. USE <1>2
  <2>1. CASE Waiting(n)
    <3>1. /\ pc'[n] = "refreshed" /\ gossipState'[n] = RefreshedFromWorld(n)
          /\ Actives' = Actives
      BY <2>1 DEF SplitMove, Waiting, CandidateStages
    <3>2. gossipState'[n].active = {q \in Actives : link[q] # "cut"}
      BY <2>1, <3>1, SplitSample DEF Waiting
    <3>3. PICK b \in Manager : Guards(b) /\ b < n
      BY <2>1 DEF Waiting
    <3>4. n \in gossipState'[n].active /\ b \in gossipState'[n].active
      BY <2>1, <3>2, <3>3 DEF Guards, Waiting
    <3>5. Looking(n)'
      BY <2>1, <3>1, <3>3, <3>4 DEF Looking, Waiting
    <3>. QED
      BY <3>5
  <2>2. CASE Looking(n)
    <3>1. gossipState'[n] = gossipState[n] /\ Actives' = Actives
      BY <2>2 DEF SplitMove, Looking, CandidateStages
    <3>2. CASE pc[n] = "dualCheck"
      <4>1. PICK p \in gossipState[n].active : p < n
        BY <2>2 DEF Looking
      <4>2. p # n
        BY <4>1, PeerAssumption, ManagerAssumption
      <4>3. DualInGossip(n)
        BY <2>2, <4>2, TwoMembers DEF Looking, IInv
      <4>4. p \in gossipState[n].seen
        BY <4>1 DEF IInv, GossipConsistent, GossipOK
      <4>5. ShouldStepDown(n, gossipState[n].active)
        BY <4>1, <4>4 DEF ShouldStepDown
      <4>6. pc'[n] = "passive.pre"
        BY <2>2, <3>2, <4>3, <4>5 DEF SplitMove, CandidateStages, Looking
      <4>. QED
        BY <4>6 DEF Yielding
    <3>3. CASE pc[n] # "dualCheck"
      <4>1. pc'[n] \in {"exporting", "gap", "dualCheck"}
        BY <2>2, <3>3 DEF SplitMove, Looking, CandidateStages
      <4>2. Looking(n)'
        BY <2>2, <3>1, <4>1 DEF Looking
      <4>. QED
        BY <4>2
    <3>. QED
      BY <3>2, <3>3
  <2>3. CASE Yielding(n)
    <3>1. CASE pc'[n] = "passive.command"
      BY <3>1 DEF Yielding
    <3>2. CASE pc'[n] # "passive.command"
      <4>1. pc[n] = "passive.command" /\ pc'[n] = "passive.post" /\ n \notin Actives'
        BY <2>3, <3>2 DEF SplitMove, Yielding, CandidateStages
      <4>2. n \in ran'
        BY DEF SplitMove
      <4>. QED
        BY <4>1, <4>2 DEF Yielded
    <3>. QED
      BY <3>1, <3>2
  <2>4. CASE Yielded(n)
    <3>1. pc'[n] = "idle" /\ n \in ran' /\ Actives' = Actives
      BY <2>4 DEF SplitMove, Yielded, CandidateStages
    <3>2. Yielded(n)'
      BY <2>4, <3>1 DEF Yielded
    <3>. QED
      BY <3>2
  <2>. QED
    BY <2>1, <2>2, <2>3, <2>4
<1>. QED
  BY <1>1, <1>2

\* What goes wrong, goes wrong when all who must yield are at it or have done it.
LEMMA YieldSurvives ==
    ASSUME SplitContext, Disruption,
           NEW n \in Manager, n \in mustYield, n \notin failed',
           Yielding(n) \/ Yielded(n)
    PROVE  (Yielding(n) \/ Yielded(n))'
<1>. USE DEF SplitContext, WorldTypeOK, ticks, world
<1>1. ASSUME NEW m \in Manager, RestartManager(m) PROVE (Yielding(n) \/ Yielded(n))'
  <2>1. UNCHANGED <<ran, validator>> /\ (m = n => n \notin InCommand)
    BY <1>1 DEF RestartManager
  <2>2. pc'[n] = IF n = m THEN "start" ELSE pc[n]
    BY <1>1 DEF RestartManager, Restart, GoTo, IInv, TypeOK
  <2>3. Actives' = Actives
    BY <2>1 DEF Actives
  <2>. QED
    BY <2>1, <2>2, <2>3 DEF Yielding, Yielded, InCommand, PassiveStages
<1>2. ASSUME UNCHANGED <<pc, ran>>, n \in Actives' => n \in Actives
      PROVE  (Yielding(n) \/ Yielded(n))'
  BY <1>2 DEF Yielding, Yielded
<1>3. ASSUME NEW p \in Peer, Crash(p) \/ Return(p) \/ ChangeHealth(p) \/ ChangeLink(p) \/ Usurp(p)
      PROVE  UNCHANGED <<pc, ran>> /\ (n \in Actives' => n \in Actives)
  BY <1>3 DEF Crash, Return, ChangeHealth, ChangeLink, Usurp, vars, Actives
<1>4. CASE Stall
  BY <1>2, <1>4 DEF Stall, vars, Actives
<1>. QED
  BY <1>1, <1>2, <1>3, <1>4 DEF Disruption

\* A node the clock finds outranked waits, and the best of the active nodes guards it.
LEMMA OutrankedWait ==
    ASSUME SplitContext, Tick, NEW n \in Outranked
    PROVE  n \in Manager /\ Waiting(n)'
<1>. DEFINE ready == {q \in (Actives \cap Manager) \ (InSleep \cup InCommand) : link[q] = "up"}
            best  == {p \in ready : \A q \in Actives : q < p => link[q] = "cut"}
<1>1. n \in ready /\ ~delinquent /\ \E p \in best : p < n
  BY DEF Outranked
<1>2. PICK p \in best : p < n
  BY <1>1
<1>3. \A q \in ready : q \in Manager /\ q \in Actives /\ pc[q] = "idle" /\ link[q] = "up"
  BY DEF Tick, PeriodOver
<1>4. pc' = pc /\ UNCHANGED <<validator, link, delinquent>>
      /\ ran' = {m \in Manager : pc[m] # "idle"}
  BY DEF Tick, vars, world, SleepOn
<1>5. Actives' = Actives
  BY <1>4 DEF Actives
<1>6. p \in ready /\ \A q \in Actives : q < p => link[q] = "cut"
  OBVIOUS
<1>. HIDE DEF ready, best
<1>7. Guards(p)'
  BY <1>3, <1>4, <1>5, <1>6 DEF Guards
<1>8. Waiting(n)'
  BY <1>1, <1>2, <1>3, <1>4, <1>5, <1>6, <1>7 DEF Waiting
<1>. QED
  BY <1>1, <1>3, <1>8

\* Every step keeps the invariant of a split brain.
LEMMA SplitInvStep == SplitContext /\ [ClusterNext]_clusterVars => SplitInv'
<1>. SUFFICES ASSUME SplitContext, [ClusterNext]_clusterVars PROVE SplitInv'
  OBVIOUS
<1>. USE DEF SplitContext
<1>1. ASSUME NEW m \in Manager, ManagerStep(m) PROVE SplitInv'
  <2>1. SplitMove(m)
    BY <1>1, SplitMoves
  <2>2. \A n \in Manager : pc'[n] \notin {"start", "idle"} => n \in ran'
    BY <2>1 DEF SplitMove, SplitInv
  <2>3. ASSUME NEW n \in mustYield' \ failed'
        PROVE  n \in Manager /\ (Waiting(n) \/ Looking(n) \/ Yielding(n) \/ Yielded(n))'
    <3>1. n \in mustYield \ failed
      BY <2>1, <2>3 DEF SplitMove
    <3>2. n \in Manager /\ (Waiting(n) \/ Looking(n) \/ Yielding(n) \/ Yielded(n))
      BY <3>1 DEF SplitInv
    <3>. QED
      BY <2>1, <2>3, <3>2, YieldGoesOn
  <2>. QED
    BY <2>2, <2>3 DEF SplitInv
<1>2. CASE \/ UNCHANGED clusterVars
           \/ \E m \in Manager : TrackHealth(m)
  <2>1. UNCHANGED <<pc, gossipState, validator, link, delinquent, ran, failed, mustYield>>
    BY <1>2 DEF clusterVars, vars, world, ticks, TrackHealth, SampleSelfHealth, StreakMatures
  <2>. QED
    BY <2>1 DEF SplitInv, Waiting, Looking, Yielding, Yielded, Guards, Rests, Prevails,
                Actives, HasIP
<1>3. CASE Disruption
  <2>1. PeriodOver
    BY <1>3 DEF Disruption, Crash, Return, ChangeHealth, ChangeLink, Usurp, Stall,
                RestartManager, Disrupt
  <2>2. UNCHANGED <<ran, mustYield>> /\ failed \subseteq failed'
    BY <1>3 DEF Disruption, Crash, Return, ChangeHealth, ChangeLink, Usurp, Stall,
                RestartManager, ticks
  <2>3. UNCHANGED pc \/ \E m \in Manager : pc' = [pc EXCEPT ![m] = "start"]
    BY <1>3 DEF Disruption, Crash, Return, ChangeHealth, ChangeLink, Usurp, Stall,
                RestartManager, Restart, GoTo, vars
  <2>4. \A n \in Manager : pc'[n] \notin {"start", "idle"} => n \in ran'
    BY <2>2, <2>3 DEF SplitInv, IInv, TypeOK
  <2>5. ASSUME NEW n \in mustYield' \ failed'
        PROVE  n \in Manager /\ (Waiting(n) \/ Looking(n) \/ Yielding(n) \/ Yielded(n))'
    <3>1. n \in mustYield \ failed /\ n \notin failed'
      BY <2>2, <2>5
    <3>2. n \in Manager /\ (Waiting(n) \/ Looking(n) \/ Yielding(n) \/ Yielded(n))
      BY <3>1 DEF SplitInv
    <3>3. Yielding(n) \/ Yielded(n)
      BY <2>1, <3>2, PeriodGoesOn
    <3>. QED
      BY <1>3, <3>1, <3>2, <3>3, YieldSurvives
  <2>. QED
    BY <2>4, <2>5 DEF SplitInv
<1>4. CASE Tick
  <2>1. pc' = pc /\ ran' = {m \in Manager : pc[m] # "idle"} /\ mustYield' = Outranked
    BY <1>4 DEF Tick, vars, SleepOn
  <2>. QED
    BY <1>4, <2>1, OutrankedWait DEF SplitInv
<1>. QED
  BY <1>1, <1>2, <1>3, <1>4 DEF ClusterNext

\* A node that was outranked has yielded when the period ends, or its own hook or
\* command stood in the way.
LEMMA YieldedAtTick == SplitContext /\ Tick => mustYield \cap mustYield' \subseteq failed
<1>. SUFFICES ASSUME SplitContext, Tick, NEW n \in mustYield \cap mustYield', n \notin failed
              PROVE  FALSE
  OBVIOUS
<1>1. n \in Actives /\ n \notin InCommand /\ PeriodOver
  BY DEF Tick, Outranked
<1>2. n \in Manager /\ (Waiting(n) \/ Looking(n) \/ Yielding(n) \/ Yielded(n))
  BY DEF SplitContext, SplitInv
<1>3. ~Waiting(n) /\ ~Looking(n)
  BY <1>1, <1>2, PeriodGoesOn
<1>. QED
  BY <1>1, <1>2, <1>3 DEF Yielding, Yielded, InCommand, PassiveStages

\* A split brain lasts one period, for any number of nodes and whatever goes wrong
\* between the periods: of the active nodes on the network all but the best ranked
\* look within the period, while that one, or one that looked and stays, still holds
\* the identity, and each that sees it yields unless its hook or command fails.
THEOREM SplitBrainResolved ==
    ASSUME Window # "any"
    PROVE  ClusterSpec => DualActiveResolved
<1>1. WorldTypeOK /\ IInv /\ SplitInv /\ [ClusterNext]_clusterVars => SplitInv'
  BY SplitInvStep DEF SplitContext
<1>2. WorldTypeOK /\ IInv /\ SplitInv /\ [ClusterNext]_clusterVars
      => [Tick => mustYield \cap mustYield' \subseteq failed]_clusterVars
  BY YieldedAtTick DEF SplitContext
<1>. QED
  BY <1>1, <1>2, SplitInit, ClusterImplementsManagers, IInvAlways, WorldTypeAlways, PTL
     DEF ClusterSpec, DualActiveResolved
=============================================================================
