------------------------------ MODULE HAManager ------------------------------
(***************************************************************************)
(* The HA manager of every node of a cluster (internal/ha/manager.go), in  *)
(* an environment that may do anything: gossip answers, the local          *)
(* validator's identity and health, the peers' heartbeats, the results of  *)
(* the user's hooks and commands and the passage of time are arbitrary.    *)
(* What is proved here therefore holds in every deployment; HACluster puts *)
(* the same managers into a world.                                         *)
(*                                                                         *)
(* A node runs two goroutines: the monitor loop, whose place in            *)
(* ensureHAState is pc, and the health tracker.  The loop is cut into      *)
(* steps wherever it calls out, because the tracker, the metrics server    *)
(* and the other nodes move in between.  Each step takes the outcome of    *)
(* its calls as a parameter.                                               *)
(***************************************************************************)
EXTENDS GossipState, Integers

CONSTANT Manager    \* the peers that run a manager

ASSUME ManagerAssumption == Manager \subseteq Peer

VARIABLES
    pc,             \* where each monitor loop is
    gossipState,    \* Manager.gossipState
    healthyStreak,  \* selfHealthySince: none, younger, or as old as minimum_duration
    delay,          \* poll intervals left of the sleep in delayTakeoverAsActive
    cache,          \* the role and failover status the manager shares internally
    metrics         \* the role and failover statuses /metrics exposes

vars == <<pc, gossipState, healthyStreak, delay, cache, metrics>>

\* getIdentity on the local RPC: the shared active identity, another, or no answer.
Identity == {"active", "passive", "error"}

Role == {"none", "active", "passive", "unknown"}

FailoverStatus == {"none", "idle", "becoming_active", "becoming_passive"}

\* From the decision to fail over to the end of ensureActive.
CandidateStages == {"healthCheck", "streakCheck", "lastCheck", "delaying"}
ActiveStages == {"active.pre", "active.command", "active.post"}
PassiveStages == {"passive.pre", "passive.command", "passive.post"}

Stage == {"start", "idle", "refreshed", "exporting", "gap", "dualCheck",
          "heartbeats", "evaluate"} \cup CandidateStages \cup ActiveStages \cup PassiveStages

NewCache == [role |-> "none", failover |-> "none"]
NewMetrics == [role |-> "none", failover |-> {}]

Init ==
    /\ pc = [m \in Manager |-> "start"]
    /\ gossipState = [m \in Manager |-> NewState]
    /\ healthyStreak = [m \in Manager |-> "none"]
    /\ delay = [m \in Manager |-> 0]
    /\ cache = [m \in Manager |-> NewCache]
    /\ metrics = [m \in Manager |-> NewMetrics]

GoTo(m, stage) == pc' = [pc EXCEPT ![m] = stage]

\* The first assignments of ensurePassive.
EnsurePassive(m) ==
    /\ GoTo(m, "passive.pre")
    /\ cache' = [cache EXCEPT ![m].failover = "becoming_passive"]

\* The first assignments of ensureActive.
EnsureActive(m) ==
    /\ GoTo(m, "active.pre")
    /\ cache' = [cache EXCEPT ![m].failover = "becoming_active"]

-----------------------------------------------------------------------------
(***************************************************************************)
(* The monitor loop.  g is the gossip state a Refresh leaves behind, id an *)
(* answer of getIdentity, ok whether a hook or command succeeded.          *)
(***************************************************************************)

\* haMonitorLoop fills the gossip state once before its first tick.
InitialRefresh(m, g) ==
    /\ pc[m] = "start"
    /\ gossipState' = [gossipState EXCEPT ![m] = g]
    /\ GoTo(m, "idle")
    /\ UNCHANGED <<healthyStreak, delay, cache, metrics>>

\* ensureHAState begins at a tick of the poll timer.
PollGossip(m, g) ==
    /\ pc[m] = "idle"
    /\ gossipState' = [gossipState EXCEPT ![m] = g]
    /\ GoTo(m, "refreshed")
    /\ UNCHANGED <<healthyStreak, delay, cache, metrics>>

\* refreshMetrics asks for the identity twice; an active node that answers the
\* first call and not the second has role unknown, as has one that is silent.
RoleOf(id1, id2) ==
    IF id1 = "active" THEN "active"
    ELSE IF id2 = "passive" THEN "passive" ELSE "unknown"

\* Mutant: the failover status survives the refresh of the metrics.
RefreshCache_KeepStatus(m, id1, id2) ==
    /\ pc[m] = "refreshed"
    /\ cache' = [cache EXCEPT ![m].role = RoleOf(id1, id2)]
    /\ GoTo(m, "exporting")
    /\ UNCHANGED <<gossipState, healthyStreak, delay, metrics>>

RefreshCache(m, id1, id2) ==
    /\ pc[m] = "refreshed"
    /\ cache' = [cache EXCEPT ![m] = [role |-> RoleOf(id1, id2), failover |-> "idle"]]
    /\ GoTo(m, "exporting")
    /\ UNCHANGED <<gossipState, healthyStreak, delay, metrics>>

\* Metrics.RefreshMetrics: the metadata gauge is reset, so that one role remains.
\* Until it is set again a page that is served has no role on it.
ResetMetadata(m) ==
    /\ pc[m] = "exporting"
    /\ metrics' = [metrics EXCEPT ![m].role = "none"]
    /\ GoTo(m, "gap")
    /\ UNCHANGED <<gossipState, healthyStreak, delay, cache>>

\* The failover gauge is not reset: every status ever exported remains.
SetMetrics(m) ==
    /\ pc[m] = "gap"
    /\ metrics' = [metrics EXCEPT
                     ![m] = [role     |-> cache[m].role,
                             failover |-> @.failover \cup {cache[m].failover}]]
    /\ GoTo(m, "dualCheck")
    /\ UNCHANGED <<gossipState, healthyStreak, delay, cache>>

\* Mutants: every other active peer asks this node to yield; the worse ranks do.
ShouldStepDown_ToAnyPeer(m, actives) ==
    ~HasIP(gossipState[m], m) \/ \E p \in actives \cap gossipState[m].seen : p # m
ShouldStepDown_ToWorseRank(m, actives) ==
    ~HasIP(gossipState[m], m) \/ \E p \in actives \cap gossipState[m].seen : p > m

\* An active peer of a better rank asks this node to yield, and so does a node
\* that cannot find its own rank.
ShouldStepDown(m, actives) ==
    \/ ~HasIP(gossipState[m], m)
    \/ \E p \in actives \cap gossipState[m].seen : p < m

\* Mutant: a third active peer hides the split.
DualInGossip_ExactlyTwo(m) == Cardinality(gossipState[m].active) = 2

DualInGossip(m) == Cardinality(gossipState[m].active) > 1

\* checkDualActiveAndStepDown, layer 1: two active peers in gossip.
DetectDualInGossip(m, id) ==
    /\ pc[m] = "dualCheck"
    /\ id = "active" /\ DualInGossip(m)
    /\ IF ShouldStepDown(m, gossipState[m].active)
         THEN EnsurePassive(m)
         ELSE GoTo(m, "evaluate") /\ UNCHANGED cache
    /\ UNCHANGED <<gossipState, healthyStreak, delay, metrics>>

\* A passive node skips the detection, an active one goes on to layer 2.
SkipDualInGossip(m, id) ==
    /\ pc[m] = "dualCheck"
    /\ id = "active" => ~DualInGossip(m)
    /\ GoTo(m, IF id = "active" THEN "heartbeats" ELSE "evaluate")
    /\ UNCHANGED <<gossipState, healthyStreak, delay, cache, metrics>>

\* Layer 2: the peers whose /metrics says active, and our identity once more.
CheckPeerHeartbeats(m, actives, id) ==
    /\ pc[m] = "heartbeats"
    /\ IF actives # {} /\ id = "active" /\ ShouldStepDown(m, actives)
         THEN EnsurePassive(m)
         ELSE GoTo(m, "evaluate") /\ UNCHANGED cache
    /\ UNCHANGED <<gossipState, healthyStreak, delay, metrics>>

FailoverRequired(m) ==
    /\ ~gossipState[m].undeclared
    /\ LeaderlessSamplesExceedsThreshold(gossipState[m])

\* Mutant: nobody is ever the last one standing.
LastOneStanding_Never(m) == FALSE

\* Out of gossip while getClusterNodes answers, and nobody else is there to
\* take over: the node stays as it is.
LastOneStanding(m) ==
    /\ ~HasIP(gossipState[m], m)
    /\ ~gossipState[m].rpcErr
    /\ ~HasPeers(gossipState[m], m)

StandBy(m) ==
    /\ pc[m] = "evaluate"
    /\ ~FailoverRequired(m) \/ LastOneStanding(m)
    /\ GoTo(m, "idle")
    /\ UNCHANGED <<gossipState, healthyStreak, delay, cache, metrics>>

\* Out of gossip otherwise.  With an RPC error the heartbeats are asked once
\* more, but both answers end in ensurePassive.
YieldUnseen(m) ==
    /\ pc[m] = "evaluate"
    /\ FailoverRequired(m) /\ ~HasIP(gossipState[m], m) /\ ~LastOneStanding(m)
    /\ EnsurePassive(m)
    /\ UNCHANGED <<gossipState, healthyStreak, delay, metrics>>

BecomeCandidate(m) ==
    /\ pc[m] = "evaluate"
    /\ FailoverRequired(m) /\ HasIP(gossipState[m], m)
    /\ GoTo(m, "healthCheck")
    /\ UNCHANGED <<gossipState, healthyStreak, delay, cache, metrics>>

CheckHealth(m, healthy) ==
    /\ pc[m] = "healthCheck"
    /\ GoTo(m, IF healthy THEN "streakCheck" ELSE "idle")
    /\ UNCHANGED <<gossipState, healthyStreak, delay, cache, metrics>>

CheckStreak(m) ==
    /\ pc[m] = "streakCheck"
    /\ GoTo(m, IF healthyStreak[m] = "long" THEN "lastCheck" ELSE "idle")
    /\ UNCHANGED <<gossipState, healthyStreak, delay, cache, metrics>>

\* Mutants: ranks counted from one less, the number of peers for the rank, and
\* no delay at all.
DelayTakeover_By(m, id, intervals) ==
    /\ pc[m] = "lastCheck" /\ id # "active"
    /\ GoTo(m, "delaying")
    /\ delay' = [delay EXCEPT ![m] = intervals]
    /\ UNCHANGED <<gossipState, healthyStreak, cache, metrics>>
DelayTakeover_OffByOne(m, id) == DelayTakeover_By(m, id, Rank(gossipState[m], m) - 1)
DelayTakeover_PeerCount(m, id) ==
    DelayTakeover_By(m, id, Cardinality(gossipState[m].seen))
DelayTakeover_None(m, id) == DelayTakeover_By(m, id, 0)

\* The last look at our own identity, and the sleep of rank poll intervals.
\* A candidate is in gossip, so the errors of delayTakeoverAsActive cannot occur.
DelayTakeover(m, id) ==
    /\ pc[m] = "lastCheck"
    /\ IF id = "active"
         THEN GoTo(m, "idle") /\ UNCHANGED delay
         ELSE /\ GoTo(m, "delaying")
              /\ delay' = [delay EXCEPT ![m] = Rank(gossipState[m], m)]
    /\ UNCHANGED <<gossipState, healthyStreak, cache, metrics>>

\* Mutant: only an undeclared leader stops the takeover after the delay.
RecheckGossip_Undeclared(m, g) ==
    /\ pc[m] = "delaying" /\ delay[m] = 0
    /\ gossipState' = [gossipState EXCEPT ![m] = g]
    /\ IF g.undeclared THEN GoTo(m, "idle") /\ UNCHANGED cache ELSE EnsureActive(m)
    /\ UNCHANGED <<healthyStreak, delay, metrics>>

\* After the sleep: one more Refresh decides between idling and ensureActive.
RecheckGossip(m, g) ==
    /\ pc[m] = "delaying" /\ delay[m] = 0
    /\ gossipState' = [gossipState EXCEPT ![m] = g]
    /\ IF g.undeclared \/ LeaderlessSamplesBelowThreshold(g)
         THEN GoTo(m, "idle") /\ UNCHANGED cache
         ELSE EnsureActive(m)
    /\ UNCHANGED <<healthyStreak, delay, metrics>>

\* ensureActive.  ok is FALSE when a pre hook with must_succeed fails.
RunActivePreHooks(m, ok) ==
    /\ pc[m] = "active.pre"
    /\ GoTo(m, IF ok THEN "active.command" ELSE "idle")
    /\ UNCHANGED <<gossipState, healthyStreak, delay, cache, metrics>>

RunActiveCommand(m, ok) ==
    /\ pc[m] = "active.command"
    /\ GoTo(m, IF ok THEN "active.post" ELSE "idle")
    /\ UNCHANGED <<gossipState, healthyStreak, delay, cache, metrics>>

\* The post hooks and the confirmation by the local RPC only write logs.
ConfirmActive(m) ==
    /\ pc[m] = "active.post"
    /\ GoTo(m, "idle")
    /\ UNCHANGED <<gossipState, healthyStreak, delay, cache, metrics>>

\* ensurePassive.
RunPassivePreHooks(m, ok) ==
    /\ pc[m] = "passive.pre"
    /\ GoTo(m, IF ok THEN "passive.command" ELSE "idle")
    /\ UNCHANGED <<gossipState, healthyStreak, delay, cache, metrics>>

RunPassiveCommand(m, ok) ==
    /\ pc[m] = "passive.command"
    /\ GoTo(m, IF ok THEN "passive.post" ELSE "idle")
    /\ UNCHANGED <<gossipState, healthyStreak, delay, cache, metrics>>

\* A node its local RPC confirms passive refreshes its gossip state once more,
\* which counts as a sample like any other.
ConfirmPassive(m, id, g) ==
    /\ pc[m] = "passive.post"
    /\ gossipState' = IF id = "passive" THEN [gossipState EXCEPT ![m] = g]
                                        ELSE gossipState
    /\ GoTo(m, "idle")
    /\ UNCHANGED <<healthyStreak, delay, cache, metrics>>

-----------------------------------------------------------------------------
(***************************************************************************)
(* The health tracker, the clock, and the process itself.                  *)
(***************************************************************************)

\* Mutant: every healthy sample starts the streak again.
SampleSelfHealth_StartAgain(m, healthy) ==
    /\ healthyStreak' = [healthyStreak EXCEPT ![m] = IF healthy THEN "short" ELSE "none"]
    /\ UNCHANGED <<pc, gossipState, delay, cache, metrics>>

SampleSelfHealth(m, healthy) ==
    /\ healthyStreak' = [healthyStreak EXCEPT
                           ![m] = IF ~healthy THEN "none"
                                  ELSE IF @ = "none" THEN "short" ELSE @]
    /\ UNCHANGED <<pc, gossipState, delay, cache, metrics>>

\* minimum_duration has passed since selfHealthySince.
StreakMatures(m) ==
    /\ healthyStreak[m] = "short"
    /\ healthyStreak' = [healthyStreak EXCEPT ![m] = "long"]
    /\ UNCHANGED <<pc, gossipState, delay, cache, metrics>>

\* A poll interval passes for the nodes of S, which sleep.
SleepOn(S) ==
    /\ S # {} /\ \A m \in S : delay[m] > 0
    /\ delay' = [m \in Manager |-> IF m \in S THEN delay[m] - 1 ELSE delay[m]]
    /\ UNCHANGED <<pc, gossipState, healthyStreak, cache, metrics>>

\* The manager's process dies, wherever it is, and is started again: nothing
\* is persisted.
Restart(m) ==
    /\ pc[m] # "start"
    /\ GoTo(m, "start")
    /\ gossipState' = [gossipState EXCEPT ![m] = NewState]
    /\ healthyStreak' = [healthyStreak EXCEPT ![m] = "none"]
    /\ delay' = [delay EXCEPT ![m] = 0]
    /\ cache' = [cache EXCEPT ![m] = NewCache]
    /\ metrics' = [metrics EXCEPT ![m] = NewMetrics]

RefreshStep(m) ==
    \E g \in Refreshed(gossipState[m]) :
        \/ InitialRefresh(m, g)
        \/ PollGossip(m, g)
        \/ RecheckGossip(m, g)
        \/ \E id \in Identity : ConfirmPassive(m, id, g)

LocalRPCStep(m) ==
    \E id \in Identity :
        \/ \E id2 \in Identity : RefreshCache(m, id, id2)
        \/ DetectDualInGossip(m, id)
        \/ SkipDualInGossip(m, id)
        \/ \E actives \in SUBSET (Peer \ {m}) : CheckPeerHeartbeats(m, actives, id)
        \/ DelayTakeover(m, id)

DecisionStep(m) ==
    \/ ResetMetadata(m)
    \/ SetMetrics(m)
    \/ StandBy(m)
    \/ YieldUnseen(m)
    \/ BecomeCandidate(m)
    \/ CheckStreak(m)
    \/ ConfirmActive(m)

OutcomeStep(m) ==
    \E ok \in BOOLEAN :
        \/ CheckHealth(m, ok)
        \/ RunActivePreHooks(m, ok)
        \/ RunActiveCommand(m, ok)
        \/ RunPassivePreHooks(m, ok)
        \/ RunPassiveCommand(m, ok)
        \/ SampleSelfHealth(m, ok)

Next ==
    \/ \E m \in Manager :
          \/ RefreshStep(m)
          \/ LocalRPCStep(m)
          \/ DecisionStep(m)
          \/ OutcomeStep(m)
          \/ StreakMatures(m)
          \/ Restart(m)
    \/ \E S \in SUBSET Manager : SleepOn(S)

Spec == Init /\ [][Next]_vars

-----------------------------------------------------------------------------
TypeOK ==
    /\ pc \in [Manager -> Stage]
    /\ gossipState \in [Manager -> State]
    /\ healthyStreak \in [Manager -> {"none", "short", "long"}]
    /\ delay \in [Manager -> Nat]
    /\ cache \in [Manager -> [role : Role, failover : FailoverStatus]]
    /\ metrics \in [Manager -> [role : Role, failover : SUBSET FailoverStatus]]

\* A node that is about to take over, or is taking over, rests on a gossip
\* state with a full run of leaderless samples, no active peer, declared or
\* not, and (while it is a candidate) itself in it.  The samples may be old:
\* a failed refresh keeps the count (see HACluster for what that costs).
TakeoverJustified ==
    \A m \in Manager :
        /\ pc[m] \in CandidateStages \cup ActiveStages =>
             /\ gossipState[m].count = Threshold
             /\ gossipState[m].active = {}
             /\ ~gossipState[m].undeclared
        /\ pc[m] \in CandidateStages => HasIP(gossipState[m], m)

\* The sleep is shorter than the number of peers in gossip, so the last of N
\* nodes acts at most N - 1 intervals after the first; no other node sleeps.
DelayBounded ==
    \A m \in Manager :
        /\ delay[m] > 0 => pc[m] = "delaying"
        /\ delay[m] < Cardinality(Peer)
        /\ pc[m] = "delaying" => delay[m] <= Rank(gossipState[m], m)

\* Whatever the manager is doing, the failover_status gauge never says anything
\* but idle: ensureActive and ensurePassive set the status in the cache alone,
\* and refreshMetrics puts idle back before it exports.
FailoverMetricIdle ==
    \A m \in Manager : metrics[m].failover \subseteq {"idle"}

\* A node that sees itself in gossip starts ensurePassive only while a peer
\* with a better rank is in gossip too.  So the first of the nodes in gossip
\* is never talked out of its role, and two active nodes that see each other
\* do not both yield.
YieldOnlyToBetterRank ==
    [][\A m \in Manager :
          (pc[m] \notin PassiveStages /\ pc'[m] \in PassiveStages
             /\ HasIP(gossipState[m], m))
          => \E p \in gossipState[m].seen : p < m]_vars

\* With getClusterNodes working and no active heartbeat, a node yields only when
\* a peer it could leave the role to is in gossip: only an RPC error makes a node
\* yield with nobody in sight.
YieldLeavesSomeone ==
    [][\A m \in Manager :
          (pc[m] \notin PassiveStages \cup {"heartbeats"} /\ pc'[m] \in PassiveStages
             /\ ~gossipState[m].rpcErr)
          => HasPeers(gossipState[m], m)]_vars
=============================================================================
