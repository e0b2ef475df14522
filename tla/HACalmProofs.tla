---------------------------- MODULE HACalmProofs ----------------------------
(***************************************************************************)
(* What a calm cluster promises, for any number of nodes, any threshold    *)
(* and any number of disruptions: validators crash, return, fall ill and   *)
(* recover, but only while all managers have the same view, none of them   *)
(* sleeps, and nobody's hooks or commands fail or outlast a period.        *)
(***************************************************************************)
EXTENDS HAClusterProofs

\* The constants of a calm deployment.
Calm ==
    /\ Window = "calm" /\ ~SlowCommands
    /\ Disruptions \subseteq {"crash", "return", "sick", "well"}

Running == {n \in Peer : validator[n] # "down"}

AllIdle == \A m \in Manager : pc[m] = "idle" /\ m \in ran

\* The place of n among the nodes that run: the rank all views agree on.
Place(n) == Cardinality({q \in Running : q < n})

\* The count after one more leaderless sample.
CountUp(c) == IF c < Threshold THEN c + 1 ELSE c

-----------------------------------------------------------------------------
(***************************************************************************)
(* The inductive invariant.                                                *)
(***************************************************************************)
CalmWorld ==
    /\ \A n \in Peer : link[n] = "up"
    /\ ~delinquent
    /\ \A m, n \in Actives : m = n

\* A manager at work has seen the nodes that run; nobody has ever seen two
\* active ones.
CalmViews ==
    \A m \in Manager :
        /\ ~gossipState[m].undeclared
        /\ \A p, q \in gossipState[m].active : p = q
        /\ pc[m] \notin {"start", "idle"} => m \in ran /\ gossipState[m].seen = Running

\* The managers start together, before any of them polls.
StartTogether ==
    (\E m \in Manager : pc[m] = "start")
    => \A m \in Manager : /\ pc[m] \in {"start", "idle"}
                          /\ pc[m] = "start" <=> m \notin ran
                          /\ healthyStreak[m] = "none" /\ metrics[m].role # "active"

\* Only the managers of validators that are down try to become passive, in
\* vain, and nobody begins to take over from a leader.
CalmRoles ==
    \A m \in Manager :
        /\ pc[m] \in PassiveStages => m \notin Running /\ pc[m] # "passive.post"
        /\ pc[m] = "active.post" => m \in Actives
        /\ pc[m] \in {"active.pre", "active.command"} => Actives = {}

\* Whoever has passed the checks would pass them still.
CandidatesEligible ==
    \A m \in Manager :
        /\ pc[m] = "streakCheck" => Healthy(m)
        /\ pc[m] \in {"lastCheck", "delaying", "active.pre", "active.command"} => Eligible(m)

\* Without a leader the managers count in step.
InStep ==
    Actives = {} =>
    \A m, n \in Manager :
        /\ (m \in ran <=> n \in ran) => gossipState[m].count = gossipState[n].count
        /\ m \in ran /\ n \notin ran => gossipState[m].count = CountUp(gossipState[n].count)

InLine(m) == pc[m] \in {"delaying", "active.pre", "active.command"}

\* The candidates queue by their place: k periods after the first of them went to
\* sleep, the one at place k is at the head, and no eligible node is left out.
QueueAt(k) ==
    \A m \in Manager :
        /\ pc[m] = "delaying" => delay[m] + k = Place(m)
        /\ pc[m] \in {"active.pre", "active.command"} => Place(m) = k
        /\ k > 0 /\ Eligible(m) => InLine(m)

QueueByPlace == Actives = {} => \E k \in Nat : QueueAt(k)

\* An eligible node whose count is full does not rest while others still work.
NoneLeftOut ==
    Actives = {} =>
    \A m \in Manager :
        m \in ran /\ pc[m] = "idle" /\ Eligible(m) /\ gossipState[m].count = Threshold
        => AllIdle

StillExported(m) == pc[m] \in {"refreshed", "exporting", "gap"}

\* The page of a leader that crashed says active until its manager's next pass, and
\* a successor that takes over before that has done its own work of the period.
StalePages ==
    \A n \in Manager :
        /\ metrics[n].role = "active" /\ n \notin Actives =>
             /\ \A a \in Actives \cap Manager : a \in ran /\ pc[a] \in {"active.post", "idle"}
             /\ n \in ran /\ ~StillExported(n) => Actives = {} /\ AllIdle
        /\ cache[n].role = "active" /\ pc[n] \in {"exporting", "gap"} => n \in Actives

\* No manager has counted more leaderless samples than there were quiet instants,
\* and the poll of this period.
CountsQuiet ==
    \A m \in Manager :
        /\ m \in ran /\ (Actives = {} \/ pc[m] # "delaying")
             => gossipState[m].count <= quietTicks + 1
        /\ m \notin ran /\ Actives = {} => gossipState[m].count <= quietTicks

CalmInv ==
    /\ CalmWorld /\ CalmViews /\ StartTogether /\ CalmRoles /\ CandidatesEligible
    /\ InStep /\ QueueByPlace /\ NoneLeftOut /\ StalePages /\ CountsQuiet

-----------------------------------------------------------------------------
(***************************************************************************)
(* What the cluster does in calm: a manager moves, the world changes while *)
(* all are idle, or a period ends.                                         *)
(***************************************************************************)

\* A refresh of a calm cluster's gossip.
SeesCalm(m) ==
    /\ gossipState'[m].seen = Running
    /\ gossipState'[m].active = Actives
    /\ ~gossipState'[m].undeclared
    /\ gossipState'[m].count =
         IF Actives = {} THEN CountUp(gossipState[m].count) ELSE 0

\* m alone moves, and only by the end of an active command does the world.
MovesAlone(m) ==
    /\ UNCHANGED <<link, fit, delinquent, healthyStreak, quietTicks, Running>>
    /\ \A n \in Manager \ {m} :
          /\ pc'[n] = pc[n] /\ gossipState'[n] = gossipState[n] /\ delay'[n] = delay[n]
          /\ cache'[n].role = cache[n].role /\ metrics'[n].role = metrics[n].role
          /\ n \in ran' <=> n \in ran
    /\ m \in ran'

Stays(m) == UNCHANGED <<Actives, ran>> /\ gossipState'[m] = gossipState[m] /\ m \in ran

SameRoles(m) == cache'[m].role = cache[m].role /\ metrics'[m].role = metrics[m].role

\* The passage of a manager through one period.
CalmMove(m) ==
    /\ MovesAlone(m)
    /\ \/ /\ pc[m] = "start" /\ pc'[m] = "idle" /\ m \notin ran
          /\ SeesCalm(m) /\ SameRoles(m) /\ Actives' = Actives
       \/ /\ pc[m] = "idle" /\ pc'[m] = "refreshed" /\ m \notin ran
          /\ SeesCalm(m) /\ SameRoles(m) /\ Actives' = Actives
       \/ /\ pc[m] = "refreshed" /\ pc'[m] = "exporting" /\ Stays(m)
          /\ cache'[m].role = "active" => m \in Actives
          /\ metrics'[m].role = metrics[m].role
       \/ /\ pc[m] = "exporting" /\ pc'[m] = "gap" /\ Stays(m)
          /\ cache'[m].role = cache[m].role /\ metrics'[m].role = "none"
       \/ /\ pc[m] = "gap" /\ pc'[m] = "dualCheck" /\ Stays(m)
          /\ metrics'[m].role = cache[m].role
       \/ /\ pc[m] = "dualCheck" /\ pc'[m] \in {"heartbeats", "evaluate"}
          /\ Stays(m) /\ SameRoles(m)
       \/ /\ pc[m] = "heartbeats" /\ pc'[m] = "evaluate"
          /\ Stays(m) /\ SameRoles(m)
       \/ /\ pc[m] = "evaluate" /\ pc'[m] = "idle"
          /\ gossipState[m].count < Threshold \/ m \notin Running
          /\ Stays(m) /\ SameRoles(m)
       \/ /\ pc[m] = "evaluate" /\ pc'[m] = "passive.pre" /\ m \notin Running
          /\ Stays(m) /\ SameRoles(m)
       \/ /\ pc[m] = "evaluate" /\ pc'[m] = "healthCheck"
          /\ gossipState[m].count = Threshold
          /\ Stays(m) /\ SameRoles(m)
       \/ /\ pc[m] = "healthCheck" /\ pc'[m] = IF Healthy(m) THEN "streakCheck" ELSE "idle"
          /\ Stays(m) /\ SameRoles(m)
       \/ /\ pc[m] = "streakCheck"
          /\ pc'[m] = IF healthyStreak[m] = "long" THEN "lastCheck" ELSE "idle"
          /\ Stays(m) /\ SameRoles(m)
       \/ /\ pc[m] = "lastCheck" /\ m \notin Actives /\ pc'[m] = "delaying"
          /\ delay'[m] = Place(m)
          /\ Stays(m) /\ SameRoles(m)
       \/ /\ pc[m] = "lastCheck" /\ m \in Actives /\ pc'[m] = "idle"
          /\ Stays(m) /\ SameRoles(m)
       \/ /\ pc[m] = "delaying" /\ delay[m] = 0
          /\ pc'[m] = IF Actives = {} THEN "active.pre" ELSE "idle"
          /\ SeesCalm(m) /\ SameRoles(m) /\ UNCHANGED <<Actives, ran>>
       \/ /\ pc[m] = "active.pre" /\ pc'[m] = "active.command"
          /\ Stays(m) /\ SameRoles(m)
       \/ /\ pc[m] = "active.command" /\ pc'[m] = "active.post" /\ Actives' = {m}
          /\ gossipState'[m] = gossipState[m] /\ ran' = ran /\ SameRoles(m)
       \/ /\ pc[m] = "active.post" /\ pc'[m] = "idle"
          /\ Stays(m) /\ SameRoles(m)
       \/ /\ pc[m] = "passive.pre" /\ pc'[m] = "passive.command"
          /\ Stays(m) /\ SameRoles(m)
       \/ /\ pc[m] = "passive.command" /\ pc'[m] = "idle" /\ m \notin Running
          /\ Stays(m) /\ SameRoles(m)

\* Validators and streaks change while all managers are idle, and the
\* leader is only lost when all views are equal.
CalmChange ==
    /\ AllIdle
    /\ \/ Actives' = Actives
       \/ Actives' = {} /\ \A m, n \in Manager : gossipState[m] = gossipState[n]
    /\ UNCHANGED <<pc, gossipState, delay, cache, metrics, link, delinquent, ran, quietTicks>>

CalmTick ==
    /\ \A m \in Manager : (pc[m] = "idle" /\ m \in ran) \/ delay[m] > 0
    /\ \A m \in Manager : delay'[m] = IF delay[m] > 0 THEN delay[m] - 1 ELSE delay[m]
    /\ ran' = {m \in Manager : pc[m] # "idle"}
    /\ quietTicks' = IF Actives = {} THEN CountUp(quietTicks) ELSE 0
    /\ UNCHANGED <<world, pc, gossipState, healthyStreak, cache, metrics>>

CalmNext == CalmTick \/ CalmChange \/ \E m \in Manager : CalmMove(m)

-----------------------------------------------------------------------------
\* Places are natural numbers, and a running node has a smaller one than whoever
\* ranks behind it.
LEMMA PlaceOrder ==
    ASSUME NEW m \in Running, NEW n \in Peer
    PROVE  /\ Place(m) \in Nat /\ Place(n) \in Nat
           /\ m < n => Place(m) < Place(n)
<1>. DEFINE Before(x) == {q \in Running : q < x}
<1>1. \A x : Before(x) \in SUBSET Peer
  BY DEF Running
<1>2. \A x : IsFiniteSet(Before(x))
  BY <1>1, PeerAssumption, FS_Subset
<1>3. Place(m) = Cardinality(Before(m)) /\ Place(n) = Cardinality(Before(n))
  BY DEF Place
<1>4. Place(m) \in Nat /\ Place(n) \in Nat
  BY <1>2, <1>3, FS_CardinalityType
<1>5. ASSUME m < n PROVE Place(m) < Place(n)
  <2>1. m \in Nat /\ n \in Nat /\ \A q \in Running : q \in Nat
    BY PeerAssumption DEF Running
  <2>2. ~(m < m) /\ \A q \in Running : q < m => q < n
    BY <1>5, <2>1
  <2>3. Before(m) \in SUBSET Before(n) /\ m \in Before(n) /\ m \notin Before(m)
    BY <1>5, <2>2
  <2>. HIDE DEF Before
  <2>4. Cardinality(Before(m)) <= Cardinality(Before(n))
        /\ (Cardinality(Before(m)) = Cardinality(Before(n)) => Before(m) = Before(n))
    BY <1>2, <2>3, FS_Subset
  <2>. QED
    BY <1>3, <1>4, <2>3, <2>4
<1>. QED
  BY <1>4, <1>5

\* Two running nodes never have the same place.
LEMMA PlaceUnique ==
    ASSUME NEW m \in Running, NEW n \in Running, Place(m) = Place(n)
    PROVE  m = n
<1>1. m \in Peer /\ n \in Peer /\ m \in Nat /\ n \in Nat
  BY PeerAssumption DEF Running
<1>2. m < n \/ n < m \/ m = n
  BY <1>1
<1>. QED
  BY <1>1, <1>2, PlaceOrder

\* A set whose members are all equal has at most one.
LEMMA OneMember ==
    ASSUME NEW S, \A p, q \in S : p = q
    PROVE  ~(Cardinality(S) > 1)
<1>1. CASE S = {}
  BY <1>1, FS_EmptySet
<1>2. ASSUME NEW p \in S PROVE ~(Cardinality(S) > 1)
  <2>1. S = {p}
    OBVIOUS
  <2>2. Cardinality(S) = 1
    BY <2>1, FS_Singleton
  <2>. QED
    BY <2>2
<1>. QED
  BY <1>1, <1>2

\* The managers start in step, with nobody in line.
LEMMA CalmInit == ClusterInit => CalmInv
<1>. SUFFICES ASSUME ClusterInit PROVE CalmInv
  OBVIOUS
<1>. USE DEF ClusterInit, Init
<1>1. CalmWorld
  <2>1. PICK n \in Peer, id \in {"active", "passive"} :
               validator = [p \in Peer |-> IF p = n THEN id ELSE "passive"]
    OBVIOUS
  <2>2. \A m \in Actives : m = n
    BY <2>1 DEF Actives
  <2>. QED
    BY <2>2 DEF CalmWorld
<1>2. CalmViews /\ StartTogether
  BY DEF CalmViews, StartTogether, NewState, NewMetrics
<1>3. CalmRoles /\ CandidatesEligible /\ NoneLeftOut
  BY DEF CalmRoles, CandidatesEligible, NoneLeftOut, PassiveStages
<1>4. InStep /\ QueueByPlace
  <2>1. QueueAt(0)
    BY DEF QueueAt
  <2>. QED
    BY <2>1 DEF InStep, QueueByPlace
<1>5. StalePages /\ CountsQuiet
  BY DEF StalePages, CountsQuiet, NewMetrics, NewCache, NewState
<1>. QED
  BY <1>1, <1>2, <1>3, <1>4, <1>5 DEF CalmInv

-----------------------------------------------------------------------------
\* All a step may rely on.
Background == Calm /\ TypeOK /\ WorldTypeOK /\ IInv /\ CalmInv

\* Hooks and commands do not go wrong, nor does anything else that is not listed.
LEMMA CalmKinds ==
    ASSUME Calm, NEW kind, GoWrong(kind)
    PROVE  kind \in {"crash", "return", "sick", "well"}
BY DEF Calm, GoWrong

\* Nobody asleep and no slow command: the end of a period finds all managers idle.
LEMMA PeriodOverIdle == Calm /\ PeriodOver /\ InSleep = {} => AllIdle
BY DEF Calm, PeriodOver, AllIdle

\* The gossip of a calm cluster.
LEMMA CalmSample ==
    ASSUME Background, NEW m \in Manager,
           gossipState' = [gossipState EXCEPT ![m] = RefreshedFromWorld(m)]
    PROVE  SeesCalm(m)
<1>1. m \in Peer /\ link[m] = "up"
  BY ManagerAssumption DEF Background, CalmInv, CalmWorld
<1>2. Running \cap Actives = Actives
  BY DEF Running, Actives
<1>3. /\ WorldSample.seen = Running /\ WorldSample.active = Actives
      /\ ~WorldSample.undeclared /\ (WorldSample.leaderless <=> Actives = {})
  <2>1. {n \in Peer : Connected(n) /\ ~(delinquent /\ n \in Actives)} = Running
    BY DEF Background, CalmInv, CalmWorld, Connected, Running
  <2>. QED
    BY <2>1, <1>2 DEF WorldSample
<1>4. gossipState'[m] = RefreshSample(gossipState[m], WorldSample)
  BY <1>1 DEF RefreshedFromWorld, Background, TypeOK
<1>. HIDE DEF Background
<1>. QED
  BY <1>3, <1>4 DEF RefreshSample, SeesCalm, CountUp

\* A count is a natural number that goes no further than the threshold.
LEMMA CountTyped ==
    ASSUME Background, NEW m \in Manager
    PROVE  /\ gossipState[m].count \in Nat /\ gossipState[m].count <= Threshold
           /\ Threshold \in Nat /\ Threshold > 0
<1>1. gossipState[m].count \in 0 .. Threshold
  BY DEF Background, TypeOK, State
<1>. QED
  BY <1>1, ThresholdAssumption

\* Where the managers' common clock lets them be at work.
LEMMA AtWork ==
    ASSUME Background, NEW m \in Manager, pc[m] \notin {"start", "idle"}
    PROVE  m \in ran /\ gossipState[m].seen = Running
BY DEF Background, CalmInv, CalmViews

\* The beginning of a manager's period.
LEMMA CalmBegin == ASSUME Background, NEW m \in Manager, Begin(m) PROVE CalmMove(m)
<1>1. CASE InitialRefresh(m, RefreshedFromWorld(m))
  <2>. USE <1>1 DEF InitialRefresh
  <2>1. SeesCalm(m)
    BY CalmSample
  <2>2. m \notin ran
    BY DEF Background, CalmInv, StartTogether
  <2>3. /\ pc'[m] = "idle" /\ MovesAlone(m) /\ Actives' = Actives
    BY DEF Begin, GoTo, world, ticks, MovesAlone, Background, TypeOK, Running, Actives
  <2>. QED
    BY <2>1, <2>2, <2>3 DEF CalmMove, SameRoles
<1>2. CASE m \notin ran /\ PollGossip(m, RefreshedFromWorld(m))
  <2>. USE <1>2 DEF PollGossip
  <2>1. SeesCalm(m)
    BY CalmSample
  <2>2. /\ pc'[m] = "refreshed" /\ MovesAlone(m) /\ Actives' = Actives
    BY DEF Begin, GoTo, world, ticks, MovesAlone, Background, TypeOK, Running, Actives
  <2>. QED
    BY <2>1, <2>2 DEF CalmMove, SameRoles
<1>. QED
  BY <1>1, <1>2 DEF Begin

\* In calm there is nothing to step down for: the leader is alone in every view,
\* and no other page says active while it looks.
LEMMA NothingToYieldTo ==
    ASSUME Background, NEW m \in Manager
    PROVE  /\ ~DualInGossip(m)
           /\ pc[m] = "heartbeats" /\ LocalIdentity(m) = "active"
                => ~ShouldStepDown(m, ActiveHeartbeats(m)) \/ ActiveHeartbeats(m) = {}
<1>1. ~DualInGossip(m)
  BY OneMember DEF DualInGossip, Background, CalmInv, CalmViews
<1>2. ASSUME pc[m] = "heartbeats", LocalIdentity(m) = "active"
      PROVE  ~ShouldStepDown(m, ActiveHeartbeats(m)) \/ ActiveHeartbeats(m) = {}
  <2>1. m \in Actives /\ m \in Running
    BY <1>2, ManagerAssumption DEF LocalIdentity, Actives, Running
  <2>2. HasIP(gossipState[m], m)
    BY <1>2, <2>1, AtWork DEF HasIP
  <2>3. ASSUME NEW p \in ActiveHeartbeats(m), p < m PROVE FALSE
    <3>1. p \in Manager /\ p # m /\ metrics[p].role = "active"
      BY <2>3 DEF ActiveHeartbeats
    <3>2. p \notin Actives
      BY <2>1, <3>1 DEF Background, CalmInv, CalmWorld
    <3>. QED
      BY <1>2, <2>1, <3>1, <3>2 DEF Background, CalmInv, StalePages
  <2>. QED
    BY <2>2, <2>3 DEF ShouldStepDown
<1>. QED
  BY <1>1, <1>2

\* What a manager sees and measures in its period.
LEMMA CalmObserve == ASSUME Background, NEW m \in Manager, Observe(m) PROVE CalmMove(m)
<1>. USE DEF GoTo, world, ticks
<1>0. m \in Peer
  BY ManagerAssumption
<1>1. CASE RefreshCache(m, LocalIdentity(m), LocalIdentity(m))
  <2>. USE <1>1 DEF RefreshCache
  <2>1. MovesAlone(m) /\ Stays(m) /\ pc'[m] = "exporting"
    BY AtWork DEF Observe, MovesAlone, Stays, Background, TypeOK, Running, Actives
  <2>2. cache'[m].role = "active" => m \in Actives
    BY <1>0 DEF LocalIdentity, RoleOf, Actives, Background, TypeOK
  <2>. QED
    BY <2>1, <2>2 DEF CalmMove
<1>2. CASE DetectDualInGossip(m, LocalIdentity(m))
  BY <1>2, NothingToYieldTo DEF DetectDualInGossip
<1>3. CASE SkipDualInGossip(m, LocalIdentity(m))
  <2>. USE <1>3 DEF SkipDualInGossip
  <2>1. MovesAlone(m) /\ Stays(m) /\ SameRoles(m) /\ pc'[m] \in {"heartbeats", "evaluate"}
    BY AtWork DEF Observe, MovesAlone, Stays, SameRoles, Background, TypeOK, Running, Actives
  <2>. QED
    BY <2>1 DEF CalmMove
<1>4. CASE CheckPeerHeartbeats(m, ActiveHeartbeats(m), LocalIdentity(m))
  <2>. USE <1>4 DEF CheckPeerHeartbeats
  <2>1. pc' = [pc EXCEPT ![m] = "evaluate"] /\ UNCHANGED cache
    BY NothingToYieldTo
  <2>2. MovesAlone(m) /\ Stays(m) /\ SameRoles(m) /\ pc'[m] = "evaluate"
    BY <2>1, AtWork DEF Observe, MovesAlone, Stays, SameRoles, Background, TypeOK, Running, Actives
  <2>. QED
    BY <2>2 DEF CalmMove
<1>5. CASE CheckHealth(m, Healthy(m))
  <2>. USE <1>5 DEF CheckHealth
  <2>1. MovesAlone(m) /\ Stays(m) /\ SameRoles(m)
        /\ pc'[m] = IF Healthy(m) THEN "streakCheck" ELSE "idle"
    BY AtWork DEF Observe, MovesAlone, Stays, SameRoles, Background, TypeOK, Running, Actives
  <2>. QED
    BY <2>1 DEF CalmMove
<1>6. CASE DelayTakeover(m, LocalIdentity(m))
  <2>. USE <1>6 DEF DelayTakeover
  <2>1. Rank(gossipState[m], m) = Place(m)
    BY AtWork DEF Rank, Place
  <2>2. LocalIdentity(m) = "active" <=> m \in Actives
    BY <1>0 DEF LocalIdentity, Actives
  <2>3. MovesAlone(m) /\ Stays(m) /\ SameRoles(m)
    BY AtWork DEF Observe, MovesAlone, Stays, SameRoles, Background, TypeOK, Running, Actives
  <2>4. CASE m \in Actives
    BY <2>2, <2>3, <2>4 DEF CalmMove, Background, TypeOK
  <2>5. CASE m \notin Actives
    <3>1. pc'[m] = "delaying" /\ delay'[m] = Place(m)
      BY <2>1, <2>2, <2>5 DEF Background, TypeOK
    <3>. QED
      BY <2>3, <2>5, <3>1 DEF CalmMove
  <2>. QED
    BY <2>4, <2>5
<1>7. CASE RecheckGossip(m, RefreshedFromWorld(m))
  <2>. USE <1>7 DEF RecheckGossip
  <2>1. SeesCalm(m)
    BY CalmSample
  <2>2. gossipState'[m] = RefreshedFromWorld(m)
    BY DEF Background, TypeOK
  <2>3. gossipState[m].count = Threshold
    BY DEF Background, IInv, TakeoverJustified, CandidateStages
  <2>4. RefreshedFromWorld(m).undeclared \/ LeaderlessSamplesBelowThreshold(RefreshedFromWorld(m))
        <=> Actives # {}
    BY <2>1, <2>2, <2>3, ThresholdAssumption
       DEF SeesCalm, CountUp, LeaderlessSamplesBelowThreshold
  <2>5. pc'[m] = IF Actives = {} THEN "active.pre" ELSE "idle"
    BY <2>4 DEF EnsureActive, Background, TypeOK
  <2>6. MovesAlone(m) /\ SameRoles(m) /\ UNCHANGED <<Actives, ran>>
    BY AtWork DEF EnsureActive, Observe, MovesAlone, SameRoles, Background, TypeOK, Running, Actives
  <2>. QED
    BY <2>1, <2>5, <2>6 DEF CalmMove
<1>8. CASE ConfirmPassive(m, LocalIdentity(m), RefreshedFromWorld(m))
  BY <1>8 DEF ConfirmPassive, PassiveStages, Background, CalmInv, CalmRoles
<1>. QED
  BY <1>1, <1>2, <1>3, <1>4, <1>5, <1>6, <1>7, <1>8 DEF Observe

\* What a manager decides and exports in its period.
LEMMA CalmDecide == ASSUME Background, NEW m \in Manager, Decide(m) PROVE CalmMove(m)
<1>. USE DEF Decide, GoTo, world, ticks
<1>1. CASE ResetMetadata(m)
  <2>. USE <1>1 DEF ResetMetadata
  <2>1. MovesAlone(m) /\ Stays(m) /\ pc'[m] = "gap"
        /\ cache'[m].role = cache[m].role /\ metrics'[m].role = "none"
    BY AtWork DEF MovesAlone, Stays, Background, TypeOK, Running, Actives
  <2>. QED
    BY <2>1 DEF CalmMove
<1>2. CASE SetMetrics(m)
  <2>. USE <1>2 DEF SetMetrics
  <2>1. MovesAlone(m) /\ Stays(m) /\ pc'[m] = "dualCheck" /\ metrics'[m].role = cache[m].role
    BY AtWork DEF MovesAlone, Stays, Background, TypeOK, Running, Actives
  <2>. QED
    BY <2>1 DEF CalmMove
<1>3. CASE StandBy(m)
  <2>. USE <1>3 DEF StandBy
  <2>1. MovesAlone(m) /\ Stays(m) /\ SameRoles(m) /\ pc'[m] = "idle"
    BY AtWork DEF MovesAlone, Stays, SameRoles, Background, TypeOK, Running, Actives
  <2>2. gossipState[m].count < Threshold \/ m \notin Running
    BY AtWork, CountTyped
       DEF FailoverRequired, LastOneStanding, LeaderlessSamplesExceedsThreshold, HasIP,
           Background, CalmInv, CalmViews
  <2>. QED
    BY <2>1, <2>2 DEF CalmMove
<1>4. CASE YieldUnseen(m)
  <2>. USE <1>4 DEF YieldUnseen, EnsurePassive
  <2>1. MovesAlone(m) /\ Stays(m) /\ SameRoles(m) /\ pc'[m] = "passive.pre"
    BY AtWork DEF MovesAlone, Stays, SameRoles, Background, TypeOK, Running, Actives
  <2>2. m \notin Running
    BY AtWork DEF HasIP
  <2>. QED
    BY <2>1, <2>2 DEF CalmMove
<1>5. CASE BecomeCandidate(m)
  <2>. USE <1>5 DEF BecomeCandidate
  <2>1. MovesAlone(m) /\ Stays(m) /\ SameRoles(m) /\ pc'[m] = "healthCheck"
    BY AtWork DEF MovesAlone, Stays, SameRoles, Background, TypeOK, Running, Actives
  <2>2. gossipState[m].count = Threshold
    BY CountTyped DEF FailoverRequired, LeaderlessSamplesExceedsThreshold
  <2>. QED
    BY <2>1, <2>2 DEF CalmMove
<1>6. CASE CheckStreak(m)
  <2>. USE <1>6 DEF CheckStreak
  <2>1. MovesAlone(m) /\ Stays(m) /\ SameRoles(m)
        /\ pc'[m] = IF healthyStreak[m] = "long" THEN "lastCheck" ELSE "idle"
    BY AtWork DEF MovesAlone, Stays, SameRoles, Background, TypeOK, Running, Actives
  <2>. QED
    BY <2>1 DEF CalmMove
<1>7. CASE ConfirmActive(m)
  <2>. USE <1>7 DEF ConfirmActive
  <2>1. MovesAlone(m) /\ Stays(m) /\ SameRoles(m) /\ pc'[m] = "idle"
    BY AtWork DEF MovesAlone, Stays, SameRoles, Background, TypeOK, Running, Actives
  <2>. QED
    BY <2>1 DEF CalmMove
<1>. QED
  BY <1>1, <1>2, <1>3, <1>4, <1>5, <1>6, <1>7 DEF DecisionStep

\* Hooks do not fail in calm.
LEMMA CalmHooks == ASSUME Background, NEW m \in Manager, RunHooks(m) PROVE CalmMove(m)
<1>. USE DEF RunHooks, GoTo, world, ticks
<1>1. ~GoWrong("hook")
  BY CalmKinds DEF Background
<1>2. CASE RunActivePreHooks(m, TRUE)
  <2>. USE <1>2 DEF RunActivePreHooks
  <2>1. MovesAlone(m) /\ Stays(m) /\ SameRoles(m) /\ pc'[m] = "active.command"
    BY <1>1, AtWork DEF MovesAlone, Stays, SameRoles, Background, TypeOK, Running, Actives
  <2>. QED
    BY <2>1 DEF CalmMove
<1>3. CASE RunPassivePreHooks(m, TRUE)
  <2>. USE <1>3 DEF RunPassivePreHooks
  <2>1. MovesAlone(m) /\ Stays(m) /\ SameRoles(m) /\ pc'[m] = "passive.command"
    BY <1>1, AtWork DEF MovesAlone, Stays, SameRoles, Background, TypeOK, Running, Actives
  <2>. QED
    BY <2>1 DEF CalmMove
<1>. QED
  BY <1>1, <1>2, <1>3

\* Commands fail only for a validator that is down, and those are never active
\* commands.
LEMMA CalmCommands == ASSUME Background, NEW m \in Manager, RunCommands(m) PROVE CalmMove(m)
<1>. USE DEF GoTo, world, ticks
<1>0. m \in Peer
  BY ManagerAssumption
<1>1. ~GoWrong("command")
  BY CalmKinds DEF Background
<1>2. CASE validator[m] # "down" /\ RunRoleCommand(m, TRUE)
  <2>1. pc[m] # "passive.command"
    BY <1>0, <1>2 DEF Background, CalmInv, CalmRoles, PassiveStages, Running
  <2>2. RunActiveCommand(m, TRUE) /\ SetIdentity(m, "active")
    BY <1>2, <2>1 DEF RunRoleCommand, RunPassiveCommand
  <2>. USE <2>2 DEF RunActiveCommand, SetIdentity
  <2>3. Actives = {}
    BY DEF Background, CalmInv, CalmRoles
  <2>4. Actives' = {m}
    BY <1>0, <2>3 DEF Actives, Background, WorldTypeOK
  <2>5. Running' = Running
    BY <1>0, <1>2 DEF Running, Background, WorldTypeOK
  <2>6. delinquent' = delinquent
    <3>1. delinquent = FALSE
      BY DEF Background, CalmInv, CalmWorld, WorldTypeOK
    <3>. QED
      BY <3>1
  <2>7. /\ MovesAlone(m) /\ SameRoles(m) /\ pc'[m] = "active.post"
        /\ gossipState'[m] = gossipState[m] /\ ran' = ran
    BY <1>1, <2>5, <2>6, AtWork DEF RunCommands, MovesAlone, SameRoles, Background, TypeOK
  <2>. QED
    BY <2>4, <2>7 DEF CalmMove
<1>3. CASE validator[m] = "down" /\ RunRoleCommand(m, FALSE) /\ UNCHANGED world
  <2>1. pc[m] # "active.command"
    BY <1>3 DEF Background, CalmInv, CandidatesEligible, Eligible, Healthy
  <2>2. RunPassiveCommand(m, FALSE)
    BY <1>3, <2>1 DEF RunRoleCommand, RunActiveCommand
  <2>. USE <2>2 DEF RunPassiveCommand
  <2>3. MovesAlone(m) /\ Stays(m) /\ SameRoles(m) /\ pc'[m] = "idle" /\ m \notin Running
    BY <1>3, AtWork DEF RunCommands, MovesAlone, Stays, SameRoles, Background, TypeOK,
                        Running, Actives
  <2>. QED
    BY <2>3 DEF CalmMove
<1>. QED
  BY <1>1, <1>2, <1>3 DEF RunCommands

\* The world and the health streaks wait for the managers to be idle.
LEMMA CalmDisruption ==
    ASSUME Background, Disruption \/ \E m \in Manager : TrackHealth(m)
    PROVE  CalmChange
<1>. USE DEF vars, world, ticks
<1>1. ASSUME NEW kind, Disrupt(kind)
      PROVE  /\ kind \in {"crash", "return", "sick", "well"}
             /\ AllIdle /\ \A m, n \in Manager : gossipState[m] = gossipState[n]
  BY <1>1, CalmKinds, PeriodOverIdle DEF Disrupt, Settled, Background, Calm
<1>2. ASSUME NEW n \in Peer, Crash(n) PROVE CalmChange
  <2>1. Actives' = Actives \/ Actives' = {}
    <3>1. CASE n \in Actives
      <4>1. Actives = {n}
        BY <3>1 DEF Background, CalmInv, CalmWorld
      <4>. QED
        BY <1>2, <4>1 DEF Crash, Actives, Background, WorldTypeOK
    <3>2. CASE n \notin Actives
      BY <1>2, <3>2 DEF Crash, Actives, Background, WorldTypeOK
    <3>. QED
      BY <3>1, <3>2
  <2>. QED
    BY <1>1, <1>2, <2>1 DEF Crash, CalmChange
<1>3. ASSUME NEW n \in Peer, Return(n) PROVE CalmChange
  <2>1. Actives' = Actives
    BY <1>3 DEF Return, Actives, Background, WorldTypeOK
  <2>. QED
    BY <1>1, <1>3, <2>1 DEF Return, CalmChange
<1>4. ASSUME NEW n \in Peer, ChangeHealth(n) PROVE CalmChange
  BY <1>1, <1>4 DEF ChangeHealth, CalmChange, Actives
<1>5. ASSUME NEW n \in Peer PROVE ~ChangeLink(n) /\ ~Usurp(n)
  BY <1>1 DEF ChangeLink, Usurp
<1>6. ~Stall /\ \A m \in Manager : ~RestartManager(m)
  BY <1>1 DEF Stall, RestartManager
<1>7. ASSUME NEW m \in Manager, TrackHealth(m) PROVE CalmChange
  <2>1. AllIdle
    BY <1>7, PeriodOverIdle DEF TrackHealth, Background, Calm
  <2>. QED
    BY <1>7, <2>1 DEF TrackHealth, SampleSelfHealth, StreakMatures, CalmChange, Actives
<1>. QED
  BY <1>2, <1>3, <1>4, <1>5, <1>6, <1>7 DEF Disruption

\* A period ends when every manager is idle or asleep.
LEMMA CalmInstant == ASSUME Background, Tick PROVE CalmTick
<1>. USE DEF vars, world, ticks
<1>1. \A m \in Manager : (pc[m] = "idle" /\ m \in ran) \/ delay[m] > 0
  BY DEF Tick, PeriodOver, InSleep, Background, Calm
<1>2. \A m \in Manager : delay'[m] = IF delay[m] > 0 THEN delay[m] - 1 ELSE delay[m]
  <2>1. \A m \in Manager : m \in InSleep <=> delay[m] > 0
    BY DEF InSleep
  <2>. QED
    BY <2>1 DEF Tick, SleepOn
<1>3. UNCHANGED <<pc, gossipState, healthyStreak, cache, metrics>>
  BY DEF Tick, SleepOn
<1>4. WorldSample.leaderless <=> Actives = {}
  <2>1. \A n \in Actives : Connected(n) /\ ~delinquent /\ n \in Peer
    BY DEF Background, CalmInv, CalmWorld, Connected, Actives
  <2>. QED
    BY <2>1 DEF WorldSample
<1>5. quietTicks' = IF Actives = {} THEN CountUp(quietTicks) ELSE 0
  BY <1>4 DEF Tick, CountUp
<1>. QED
  BY <1>1, <1>2, <1>3, <1>5 DEF Tick, CalmTick

\* So these are all the steps of a calm cluster.
LEMMA CalmSteps == ASSUME Background, ClusterNext PROVE CalmNext
<1>1. ASSUME NEW m \in Manager, ManagerStep(m) PROVE CalmMove(m)
  BY <1>1, CalmBegin, CalmObserve, CalmDecide, CalmHooks, CalmCommands DEF ManagerStep
<1>. QED
  BY <1>1, CalmDisruption, CalmInstant DEF ClusterNext, CalmNext

-----------------------------------------------------------------------------
(***************************************************************************)
(* Each part of the invariant survives each of these steps.                *)
(***************************************************************************)

\* What a period's end finds: those asleep are in the line, and everybody has run.
LEMMA InstantFinds ==
    ASSUME Background, CalmTick, NEW m \in Manager
    PROVE  /\ m \in ran
           /\ (pc[m] = "idle" /\ delay[m] = 0) \/ (pc[m] = "delaying" /\ delay[m] > 0)
           /\ delay[m] \in Nat
<1>1. delay[m] \in Nat /\ (delay[m] > 0 => pc[m] = "delaying")
  BY DEF Background, IInv, DelayBounded, TypeOK
<1>. QED
  BY <1>1, AtWork DEF CalmTick

\* The network stays up and at most one node holds the identity: it is taken only
\* when nobody has it.
LEMMA CalmWorldStep == ASSUME Background, CalmNext PROVE CalmWorld'
<1>1. ASSUME NEW m \in Manager, CalmMove(m) PROVE CalmWorld'
  <2>1. UNCHANGED <<link, delinquent>> /\ (Actives' = Actives \/ Actives' = {m})
    BY <1>1 DEF CalmMove, MovesAlone, Stays
  <2>. QED
    BY <2>1 DEF Background, CalmInv, CalmWorld
<1>2. CASE CalmChange
  BY <1>2 DEF CalmChange, Background, CalmInv, CalmWorld
<1>3. CASE CalmTick
  BY <1>3 DEF CalmTick, world, Background, CalmInv, CalmWorld, Actives
<1>. QED
  BY <1>1, <1>2, <1>3 DEF CalmNext

\* Nobody looks twice at different worlds within a period.
LEMMA CalmViewsStep == ASSUME Background, CalmNext PROVE CalmViews'
<1>. USE DEF Background, CalmInv, CalmViews
<1>1. ASSUME NEW m \in Manager, CalmMove(m) PROVE CalmViews'
  <2>1. ASSUME NEW n \in Manager \ {m} PROVE CalmViews!(n)'
    BY <1>1, <2>1 DEF CalmMove, MovesAlone
  <2>2. CASE SeesCalm(m)
    BY <1>1, <2>1, <2>2 DEF CalmMove, MovesAlone, SeesCalm, CalmWorld
  <2>3. CASE ~SeesCalm(m)
    <3>1. gossipState'[m] = gossipState[m] /\ m \in ran' /\ Running' = Running
          /\ pc[m] \notin {"start", "idle"}
      BY <1>1, <2>3 DEF CalmMove, MovesAlone, Stays
    <3>. QED
      BY <2>1, <3>1
  <2>. QED
    BY <2>2, <2>3
<1>2. CASE CalmChange
  BY <1>2 DEF CalmChange, AllIdle
<1>3. CASE CalmTick
  <2>1. Running' = Running
    BY <1>3 DEF CalmTick, world, Running
  <2>. QED
    BY <1>3, <2>1 DEF CalmTick
<1>. QED
  BY <1>1, <1>2, <1>3 DEF CalmNext

\* The managers begin together.
LEMMA StartTogetherStep == ASSUME Background, CalmNext PROVE StartTogether'
<1>. USE DEF Background, CalmInv, StartTogether
<1>1. ASSUME NEW m \in Manager, CalmMove(m) PROVE StartTogether'
  <2>. SUFFICES ASSUME NEW s \in Manager, pc'[s] = "start" PROVE StartTogether'
    OBVIOUS
  <2>1. pc'[m] # "start"
    BY <1>1 DEF CalmMove
  <2>2. s # m /\ pc[s] = "start"
    BY <1>1, <2>1 DEF CalmMove, MovesAlone
  <2>3. pc[m] = "start" /\ pc'[m] = "idle"
    BY <1>1, <2>2 DEF CalmMove, Stays
  <2>4. m \in ran' /\ SameRoles(m)
    BY <1>1, <2>3 DEF CalmMove, MovesAlone
  <2>5. \A n \in Manager \ {m} : /\ pc'[n] = pc[n] /\ metrics'[n].role = metrics[n].role
                                 /\ n \in ran' <=> n \in ran
    BY <1>1 DEF CalmMove, MovesAlone
  <2>6. healthyStreak' = healthyStreak
    BY <1>1 DEF CalmMove, MovesAlone
  <2>. QED
    BY <2>2, <2>3, <2>4, <2>5, <2>6 DEF SameRoles
<1>2. CASE CalmChange
  BY <1>2 DEF CalmChange, AllIdle
<1>3. CASE CalmTick
  BY <1>3, InstantFinds DEF CalmTick
<1>. QED
  BY <1>1, <1>2, <1>3 DEF CalmNext

\* Nobody becomes passive, and nobody starts to take over from a leader.
LEMMA CalmRolesStep == ASSUME Background, CalmNext PROVE CalmRoles'
<1>. USE DEF Background, CalmInv, CalmRoles, PassiveStages
<1>1. ASSUME NEW m \in Manager, CalmMove(m) PROVE CalmRoles'
  <2>1. \A n \in Manager \ {m} : pc'[n] = pc[n]
    BY <1>1 DEF CalmMove, MovesAlone
  <2>2. Running' = Running
    BY <1>1 DEF CalmMove, MovesAlone
  <2>3. CASE pc[m] = "active.command"
    <3>1. pc'[m] = "active.post" /\ Actives' = {m} /\ Actives = {}
      BY <1>1, <2>3 DEF CalmMove
    <3>2. ASSUME NEW n \in Manager, pc'[n] \in {"active.pre", "active.command"} PROVE FALSE
      <4>1. n # m /\ pc[n] \in {"active.pre", "active.command"}
        BY <2>1, <3>1, <3>2
      <4>2. Place(n) = Place(m)
        BY <2>3, <3>1, <4>1 DEF QueueByPlace, QueueAt
      <4>3. n \in Running /\ m \in Running
        BY <2>3, <4>1, ManagerAssumption
           DEF CandidatesEligible, Eligible, Healthy, Running
      <4>. QED
        BY <4>1, <4>2, <4>3, PlaceUnique
    <3>. QED
      BY <2>1, <2>2, <3>1, <3>2
  <2>4. CASE pc[m] # "active.command"
    <3>1. Actives' = Actives
      BY <1>1, <2>4 DEF CalmMove, Stays
    <3>2. /\ pc'[m] \in PassiveStages => m \notin Running /\ pc'[m] # "passive.post"
          /\ pc'[m] # "active.post"
          /\ pc'[m] \in {"active.pre", "active.command"} => Actives = {}
      BY <1>1, <2>4 DEF CalmMove
    <3>. QED
      BY <2>1, <2>2, <3>1, <3>2
  <2>. QED
    BY <2>3, <2>4
<1>2. CASE CalmChange
  BY <1>2 DEF CalmChange, AllIdle
<1>3. CASE CalmTick
  BY <1>3, InstantFinds DEF CalmTick
<1>. QED
  BY <1>1, <1>2, <1>3 DEF CalmNext

\* What was checked stays true until the takeover.
LEMMA CandidatesEligibleStep == ASSUME Background, CalmNext PROVE CandidatesEligible'
<1>. USE DEF Background, CalmInv, CandidatesEligible
<1>1. ASSUME NEW m \in Manager, CalmMove(m) PROVE CandidatesEligible'
  <2>1. \A n \in Manager : /\ Healthy(n)' <=> Healthy(n)
                           /\ Eligible(n)' <=> Eligible(n)
    BY <1>1, ManagerAssumption DEF CalmMove, MovesAlone, Eligible, Healthy, Running
  <2>2. /\ pc'[m] = "streakCheck" => Healthy(m)
        /\ pc'[m] \in {"lastCheck", "delaying", "active.pre", "active.command"} => Eligible(m)
    BY <1>1, ManagerAssumption DEF CalmMove, CalmWorld, Eligible
  <2>. QED
    BY <1>1, <2>1, <2>2 DEF CalmMove, MovesAlone
<1>2. CASE CalmChange
  BY <1>2 DEF CalmChange, AllIdle
<1>3. CASE CalmTick
  BY <1>3 DEF CalmTick, world, Eligible, Healthy
<1>. QED
  BY <1>1, <1>2, <1>3 DEF CalmNext

\* Without a leader nobody's count gets ahead.
LEMMA InStepStep == ASSUME Background, CalmNext PROVE InStep'
<1>. USE DEF Background, CalmInv
<1>1. ASSUME NEW m \in Manager, CalmMove(m), Actives' = {} PROVE InStep'
  <2>1. Actives = {}
    BY <1>1 DEF CalmMove, Stays
  <2>2. \A n \in Manager \ {m} : gossipState'[n] = gossipState[n] /\ (n \in ran' <=> n \in ran)
    BY <1>1 DEF CalmMove, MovesAlone
  <2>3. m \in ran'
    BY <1>1 DEF CalmMove, MovesAlone
  <2>4. gossipState'[m].count = IF m \in ran THEN gossipState[m].count
                                             ELSE CountUp(gossipState[m].count)
    <3>1. CASE pc[m] = "delaying"
      <4>1. m \in ran /\ gossipState[m].count = Threshold
        BY <3>1, AtWork DEF IInv, TakeoverJustified, CandidateStages
      <4>. QED
        BY <1>1, <2>1, <3>1, <4>1, CountTyped DEF CalmMove, SeesCalm, CountUp
    <3>2. CASE pc[m] \in {"start", "idle"}
      BY <1>1, <2>1, <3>2 DEF CalmMove, SeesCalm, Stays
    <3>3. CASE pc[m] \notin {"delaying", "start", "idle"}
      BY <1>1, <3>3, AtWork DEF CalmMove, Stays
    <3>. QED
      BY <3>1, <3>2, <3>3
  <2>. HIDE DEF Background
  <2>5. \A n \in Manager :
           /\ (m \in ran <=> n \in ran) => gossipState[m].count = gossipState[n].count
           /\ m \in ran /\ n \notin ran => gossipState[m].count = CountUp(gossipState[n].count)
           /\ n \in ran /\ m \notin ran => gossipState[n].count = CountUp(gossipState[m].count)
    BY <2>1 DEF InStep, Background
  <2>6. \A n \in Manager \ {m} : 
           /\ n \in ran' => gossipState'[m].count = gossipState'[n].count
           /\ n \notin ran' => gossipState'[m].count = CountUp(gossipState'[n].count)
    BY <2>2, <2>4, <2>5
  <2>7. \A n, q \in Manager \ {m} :
           /\ (q \in ran' <=> n \in ran') => gossipState'[q].count = gossipState'[n].count
           /\ q \in ran' /\ n \notin ran' =>
                gossipState'[q].count = CountUp(gossipState'[n].count)
    BY <2>1, <2>2 DEF InStep, Background
  <2>. QED
    BY <2>3, <2>6, <2>7 DEF InStep, CountUp
<1>2. CASE CalmChange
  <2>. SUFFICES ASSUME Actives' = {} PROVE InStep'
    BY DEF InStep
  <2>1. \A n, q \in Manager : gossipState[n].count = gossipState[q].count
    BY <1>2 DEF CalmChange, InStep, AllIdle
  <2>. QED
    BY <1>2, <2>1 DEF CalmChange, InStep, AllIdle
<1>3. CASE CalmTick
  <2>. SUFFICES ASSUME Actives' = {} PROVE InStep'
    BY DEF InStep
  <2>1. Actives = {}
    BY <1>3 DEF CalmTick, world, Actives
  <2>2. \A n, q \in Manager : gossipState[n].count = gossipState[q].count
    BY <1>3, <2>1, InstantFinds DEF InStep
  <2>3. \A n \in Manager : n \in ran' => CountUp(gossipState[n].count) = gossipState[n].count
    <3>1. \A n \in Manager : n \in ran' => gossipState[n].count = Threshold
      BY <1>3, InstantFinds DEF CalmTick, IInv, TakeoverJustified, CandidateStages
    <3>. QED
      BY <3>1, CountTyped DEF CountUp
  <2>4. gossipState' = gossipState
    BY <1>3 DEF CalmTick
  <2>. HIDE DEF Background
  <2>. QED
    BY <2>2, <2>3, <2>4 DEF InStep, CountUp
<1>4. CASE Actives' # {}
  BY <1>4 DEF InStep
<1>. QED
  BY <1>1, <1>2, <1>3, <1>4 DEF CalmNext

\* The line moves on with the clock: nobody joins it late, and only its head leaves.
LEMMA QueueByPlaceStep == ASSUME Background, CalmNext PROVE QueueByPlace'
<1>. USE DEF Background, CalmInv
<1>1. ASSUME NEW m \in Manager, CalmMove(m), Actives' = {} PROVE QueueByPlace'
  <2>1. Actives = {}
    BY <1>1 DEF CalmMove, Stays
  <2>2. PICK k \in Nat : QueueAt(k)
    BY <2>1 DEF QueueByPlace
  <2>3. \A n \in Manager \ {m} : pc'[n] = pc[n] /\ delay'[n] = delay[n]
    BY <1>1 DEF CalmMove, MovesAlone
  <2>4. \A n \in Manager : /\ Place(n)' = Place(n)
                           /\ Eligible(n)' <=> Eligible(n)
    <3>1. \A n \in Manager : Place(n)' = Place(n)
      BY <1>1 DEF CalmMove, MovesAlone, Place
    <3>2. \A n \in Manager : Eligible(n)' <=> Eligible(n)
      BY <1>1, ManagerAssumption DEF CalmMove, MovesAlone, Running, Eligible, Healthy
    <3>. QED
      BY <3>1, <3>2
  <2>5. /\ pc'[m] = "delaying" => delay'[m] + k = Place(m)
        /\ pc'[m] \in {"active.pre", "active.command"} => Place(m) = k
        /\ k > 0 /\ Eligible(m) => InLine(m)'
    <3>1. CASE pc[m] = "lastCheck"
      <4>1. k = 0
        BY <2>2, <3>1 DEF QueueAt, InLine, CandidatesEligible
      <4>2. pc'[m] = "delaying" /\ delay'[m] = Place(m)
        BY <1>1, <2>1, <3>1 DEF CalmMove
      <4>3. Place(m) \in Nat
        <5>1. m \in Running
          BY <3>1, ManagerAssumption DEF CandidatesEligible, Eligible, Healthy, Running
        <5>. QED
          BY <5>1, PlaceOrder DEF Running
      <4>. QED
        BY <4>1, <4>2, <4>3
    <3>2. CASE pc[m] = "delaying"
      <4>1. pc'[m] = "active.pre" /\ delay[m] = 0
        BY <1>1, <2>1, <3>2 DEF CalmMove
      <4>. QED
        BY <2>2, <3>2, <4>1 DEF QueueAt, InLine
    <3>3. CASE pc[m] \in {"active.pre", "active.command"}
      <4>1. pc[m] = "active.pre" /\ pc'[m] = "active.command"
        BY <1>1, <3>3 DEF CalmMove
      <4>. QED
        BY <2>2, <4>1 DEF QueueAt, InLine
    <3>4. CASE pc[m] \notin {"lastCheck", "delaying", "active.pre", "active.command"}
      <4>1. pc'[m] \notin {"delaying", "active.pre", "active.command"}
        BY <1>1, <3>4 DEF CalmMove
      <4>. QED
        BY <2>2, <3>4, <4>1 DEF QueueAt, InLine
    <3>. QED
      BY <3>1, <3>2, <3>3, <3>4
  <2>. HIDE DEF Background
  <2>6. QueueAt(k)'
    BY <2>2, <2>3, <2>4, <2>5 DEF QueueAt, InLine
  <2>. QED
    BY <2>6 DEF QueueByPlace
<1>2. CASE CalmChange
  <2>1. QueueAt(0)'
    BY <1>2 DEF CalmChange, AllIdle, QueueAt
  <2>. QED
    BY <2>1 DEF QueueByPlace
<1>3. ASSUME CalmTick, Actives' = {} PROVE QueueByPlace'
  <2>1. Actives = {}
    BY <1>3 DEF CalmTick, world, Actives
  <2>2. PICK k \in Nat : QueueAt(k)
    BY <2>1 DEF QueueByPlace
  <2>3. CASE \A m \in Manager : pc[m] = "idle"
    <3>1. QueueAt(0)'
      BY <1>3, <2>3 DEF CalmTick, QueueAt
    <3>. QED
      BY <3>1 DEF QueueByPlace
  <2>4. ASSUME NEW s \in Manager, pc[s] # "idle" PROVE QueueByPlace'
    <3>1. \A m \in Manager : pc[m] \in {"idle", "delaying"} /\ m \in ran
      BY <1>3, InstantFinds
    <3>2. \A m \in Manager : pc[m] = "delaying" => delay'[m] + (k + 1) = Place(m)
      BY <1>3, <2>2, InstantFinds DEF CalmTick, QueueAt
    <3>3. \A m \in Manager : gossipState[m].count = Threshold
      BY <2>1, <2>4, <3>1 DEF IInv, TakeoverJustified, CandidateStages, InStep
    <3>4. \A m \in Manager : Eligible(m) => pc[m] = "delaying"
      BY <2>1, <2>4, <3>1, <3>3 DEF NoneLeftOut, AllIdle
    <3>5. \A m \in Manager : /\ Place(m)' = Place(m) /\ pc'[m] = pc[m]
                             /\ Eligible(m)' <=> Eligible(m)
      BY <1>3 DEF CalmTick, world, Place, Running, Eligible, Healthy
    <3>. HIDE DEF Background
    <3>6. QueueAt(k + 1)'
      BY <3>1, <3>2, <3>4, <3>5 DEF QueueAt, InLine
    <3>. QED
      BY <3>6 DEF QueueByPlace
  <2>. QED
    BY <2>3, <2>4
<1>4. CASE Actives' # {}
  BY <1>4 DEF QueueByPlace
<1>. QED
  BY <1>1, <1>2, <1>3, <1>4 DEF CalmNext

\* An eligible manager with a full count goes on to the line.
LEMMA NoneLeftOutStep == ASSUME Background, CalmNext PROVE NoneLeftOut'
<1>. USE DEF Background, CalmInv
<1>1. ASSUME NEW m \in Manager, CalmMove(m), Actives' = {} PROVE NoneLeftOut'
  <2>1. Actives = {}
    BY <1>1 DEF CalmMove, Stays
  <2>2. ~AllIdle
    BY <1>1 DEF CalmMove, Stays, AllIdle
  <2>3. \A n \in Manager \ {m} : pc'[n] = pc[n] /\ gossipState'[n] = gossipState[n]
                                 /\ (n \in ran' <=> n \in ran)
    BY <1>1 DEF CalmMove, MovesAlone
  <2>4. \A n \in Manager : Eligible(n)' <=> Eligible(n)
    BY <1>1, ManagerAssumption DEF CalmMove, MovesAlone, Running, Eligible, Healthy
  <2>5. ~(pc'[m] = "idle" /\ Eligible(m) /\ gossipState'[m].count = Threshold)
    <3>. SUFFICES ASSUME pc'[m] = "idle", Eligible(m), gossipState'[m].count = Threshold
                  PROVE  FALSE
      OBVIOUS
    <3>1. Healthy(m) /\ healthyStreak[m] = "long" /\ m \in Running
      BY ManagerAssumption DEF Eligible, Healthy, Running
    <3>2. pc[m] # "start"
      BY <3>1 DEF StartTogether
    <3>3. pc[m] = "evaluate" /\ gossipState'[m] = gossipState[m]
          /\ gossipState[m].count < Threshold
      BY <1>1, <2>1, <3>1, <3>2 DEF CalmMove, Stays, CalmRoles
    <3>. QED
      BY <3>3, CountTyped
  <2>. HIDE DEF Background
  <2>. QED
    BY <2>1, <2>2, <2>3, <2>4, <2>5 DEF NoneLeftOut, Background
<1>2. CASE CalmChange
  BY <1>2 DEF CalmChange, AllIdle, NoneLeftOut
<1>3. CASE CalmTick
  BY <1>3 DEF CalmTick, NoneLeftOut
<1>4. CASE Actives' # {}
  BY <1>4 DEF NoneLeftOut
<1>. QED
  BY <1>1, <1>2, <1>3, <1>4 DEF CalmNext

\* The page of a lost leader is renewed in its manager's next pass.
LEMMA StalePagesStep == ASSUME Background, CalmNext PROVE StalePages'
<1>. USE DEF Background, CalmInv, StalePages, StillExported
<1>1. ASSUME NEW m \in Manager, CalmMove(m) PROVE StalePages'
  <2>1. ~AllIdle
    BY <1>1 DEF CalmMove, Stays, AllIdle
  <2>2. \A n \in Manager \ {m} :
           /\ pc'[n] = pc[n] /\ (n \in ran' <=> n \in ran)
           /\ cache'[n].role = cache[n].role /\ metrics'[n].role = metrics[n].role
    BY <1>1 DEF CalmMove, MovesAlone
  <2>3. m \in ran'
    BY <1>1 DEF CalmMove, MovesAlone
  <2>4. Actives \subseteq Actives'
    BY <1>1 DEF CalmMove, Stays, CalmRoles
  <2>5. CASE pc[m] = "active.command"
    <3>1. /\ Actives = {} /\ Actives' = {m} /\ pc'[m] = "active.post" /\ SameRoles(m)
      BY <1>1, <2>5 DEF CalmMove, CalmRoles
    <3>. QED
      BY <2>1, <2>2, <2>3, <3>1 DEF SameRoles
  <2>6. CASE pc[m] # "active.command"
    <3>1. Actives' = Actives
      BY <1>1, <2>6 DEF CalmMove, Stays
    <3>2. ASSUME NEW n \in Manager, metrics'[n].role = "active", n \notin Actives
          PROVE  /\ metrics[n].role = "active"
                 /\ n \notin ran' \/ StillExported(n)'
      <4>1. CASE n = m
        BY <1>1, <2>1, <2>6, <3>2, <4>1 DEF CalmMove, Stays, SameRoles, StartTogether
      <4>2. CASE n # m
        BY <2>1, <2>2, <3>2, <4>2
      <4>. QED
        BY <4>1, <4>2
    <3>3. ASSUME NEW n \in Manager, metrics'[n].role = "active", n \notin Actives,
                 NEW a \in Actives \cap Manager
          PROVE  a \in ran' /\ pc'[a] \in {"active.post", "idle"}
      <4>1. a \in ran /\ pc[a] \in {"active.post", "idle"}
        BY <3>2, <3>3
      <4>2. CASE a = m
        BY <1>1, <2>3, <4>1, <4>2 DEF CalmMove
      <4>. QED
        BY <2>2, <4>1, <4>2
    <3>4. ASSUME NEW n \in Manager, cache'[n].role = "active", pc'[n] \in {"exporting", "gap"}
          PROVE  n \in Actives
      <4>1. CASE n = m
        BY <1>1, <3>4, <4>1 DEF CalmMove
      <4>2. CASE n # m
        BY <2>2, <3>4, <4>2
      <4>. QED
        BY <4>1, <4>2
    <3>. HIDE DEF Background
    <3>. QED
      BY <3>1, <3>2, <3>3, <3>4
  <2>. QED
    BY <2>5, <2>6
<1>2. CASE CalmChange
  BY <1>2 DEF CalmChange, AllIdle
<1>3. CASE CalmTick
  <2>1. Actives' = Actives
    BY <1>3 DEF CalmTick, world, Actives
  <2>2. \A n \in Manager : metrics[n].role = "active" /\ n \notin Actives => Actives = {} /\ AllIdle
    BY <1>3, InstantFinds
  <2>. QED
    BY <1>3, <2>1, <2>2 DEF CalmTick, AllIdle
<1>. QED
  BY <1>1, <1>2, <1>3 DEF CalmNext

\* A count grows by one a period, as does the number of quiet instants.
LEMMA CountsQuietStep == ASSUME Background, CalmNext PROVE CountsQuiet'
<1>. USE DEF Background, CalmInv
<1>0. quietTicks \in Nat /\ quietTicks <= Threshold
  BY ThresholdAssumption DEF WorldTypeOK
<1>1. ASSUME NEW m \in Manager, CalmMove(m) PROVE CountsQuiet'
  <2>1. /\ quietTicks' = quietTicks /\ m \in ran'
        /\ \A n \in Manager \ {m} : /\ pc'[n] = pc[n] /\ gossipState'[n] = gossipState[n]
                                    /\ n \in ran' <=> n \in ran
    BY <1>1 DEF CalmMove, MovesAlone
  <2>2. Actives' = {} => Actives = {}
    BY <1>1 DEF CalmMove, Stays
  <2>3. Actives' = {} \/ pc'[m] # "delaying" => gossipState'[m].count <= quietTicks + 1
    <3>1. CASE pc[m] = "delaying"
      BY <1>0, <1>1, <3>1, AtWork, CountTyped
         DEF CalmMove, SeesCalm, CountUp, CountsQuiet, IInv, TakeoverJustified, CandidateStages
    <3>2. CASE pc[m] \in {"start", "idle"}
      <4>1. m \notin ran /\ SeesCalm(m)
        BY <1>1, <3>2 DEF CalmMove
      <4>. QED
        BY <1>0, <4>1, CountTyped DEF SeesCalm, CountUp, CountsQuiet
    <3>3. CASE pc[m] \notin {"delaying", "start", "idle"}
      <4>1. gossipState'[m] = gossipState[m] /\ m \in ran
        BY <1>1, <3>3, AtWork DEF CalmMove, Stays
      <4>. QED
        BY <3>3, <4>1 DEF CountsQuiet
    <3>. QED
      BY <3>1, <3>2, <3>3
  <2>. HIDE DEF Background
  <2>. QED
    BY <2>1, <2>2, <2>3 DEF CountsQuiet, Background
<1>2. CASE CalmChange
  BY <1>2 DEF CalmChange, AllIdle, CountsQuiet
<1>3. CASE CalmTick
  <2>1. Actives' = Actives
    BY <1>3 DEF CalmTick, world, Actives
  <2>2. ASSUME NEW n \in Manager, Actives = {}
        PROVE  /\ gossipState[n].count <= quietTicks'
               /\ gossipState[n].count <= quietTicks' + 1
    <3>1. gossipState[n].count <= quietTicks + 1
      BY <1>3, <2>2, InstantFinds DEF CountsQuiet
    <3>2. quietTicks' = CountUp(quietTicks)
      BY <1>3, <2>2 DEF CalmTick
    <3>. QED
      BY <1>0, <3>1, <3>2, CountTyped DEF CountUp
  <2>3. \A n \in Manager : n \in ran' => pc[n] = "delaying"
    BY <1>3, InstantFinds DEF CalmTick
  <2>. HIDE DEF Background
  <2>. QED
    BY <1>3, <2>1, <2>2, <2>3 DEF CalmTick, CountsQuiet
<1>. QED
  BY <1>1, <1>2, <1>3 DEF CalmNext

-----------------------------------------------------------------------------
(***************************************************************************)
(* The theorems.                                                           *)
(***************************************************************************)

\* The invariant is inductive.
LEMMA CalmInvStep == Background /\ [ClusterNext]_clusterVars => CalmInv'
<1>. SUFFICES ASSUME Background, [ClusterNext]_clusterVars PROVE CalmInv'
  OBVIOUS
<1>1. CASE ClusterNext
  <2>1. CalmNext
    BY <1>1, CalmSteps
  <2>. QED
    BY <2>1, CalmWorldStep, CalmViewsStep, StartTogetherStep, CalmRolesStep,
       CandidatesEligibleStep, InStepStep, QueueByPlaceStep, NoneLeftOutStep,
       StalePagesStep, CountsQuietStep DEF CalmInv
<1>2. CASE UNCHANGED clusterVars
  <2>. USE <1>2 DEF clusterVars, vars, world, ticks, Background, CalmInv, Running, Actives,
                    Eligible, Healthy, AllIdle
  <2>1. (CalmWorld /\ CalmViews /\ StartTogether /\ CalmRoles)'
    BY DEF CalmWorld, CalmViews, StartTogether, CalmRoles
  <2>2. (CandidatesEligible /\ InStep /\ NoneLeftOut)'
    BY DEF CandidatesEligible, InStep, NoneLeftOut
  <2>3. QueueByPlace'
    <3>1. \A m \in Manager : (Eligible(m)' <=> Eligible(m)) /\ (InLine(m)' <=> InLine(m))
      BY DEF InLine
    <3>2. \A m \in Manager : Place(m)' = Place(m)
      BY DEF Place
    <3>3. Actives' = Actives /\ pc' = pc /\ delay' = delay
      OBVIOUS
    <3>4. QueueByPlace
      OBVIOUS
    <3>. QED
      BY ONLY <3>1, <3>2, <3>3, <3>4 DEF QueueByPlace, QueueAt
  <2>4. StalePages'
    BY DEF StalePages, StillExported
  <2>5. CountsQuiet'
    BY DEF CountsQuiet
  <2>. QED
    BY <2>1, <2>2, <2>3, <2>4, <2>5
<1>. QED
  BY <1>1, <1>2

\* The invariant holds throughout every behaviour of a calm cluster.
THEOREM CalmInvAlways == ASSUME Calm PROVE ClusterSpec => []Background
<1>1. ClusterInit /\ TypeOK /\ WorldTypeOK /\ IInv => Background
  BY CalmInit DEF Background
<1>2. Background /\ (TypeOK /\ WorldTypeOK /\ IInv)' /\ [ClusterNext]_clusterVars => Background'
  BY CalmInvStep DEF Background, Calm
<1>. QED
  BY <1>1, <1>2, ClusterImplementsManagers, TypeCorrect, WorldTypeAlways, IInvAlways,
     PTL DEF ClusterSpec

\* The cluster implements Leadership: the identity is never held twice, and it is
\* taken only while nobody holds it, by however many nodes it may be contended for.
THEOREM CalmElectsOneLeader == ASSUME Calm PROVE ClusterSpec => ElectsOneLeader
<1>1. ClusterInit => Leader!Init
  <2>. SUFFICES ASSUME ClusterInit PROVE Leader!Init
    OBVIOUS
  <2>1. PICK n \in Peer, id \in {"active", "passive"} :
               validator = [p \in Peer |-> IF p = n THEN id ELSE "passive"]
    BY DEF ClusterInit
  <2>2. Actives = IF id = "active" THEN {n} ELSE {}
    BY <2>1 DEF Actives
  <2>. QED
    BY <2>2 DEF Leader!Init
<1>2. Background /\ [ClusterNext]_clusterVars => [Leader!Next]_Actives
  <2>. SUFFICES ASSUME Background, [ClusterNext]_clusterVars, Actives' # Actives
                PROVE  Leader!Next
    OBVIOUS
  <2>1. CASE CalmTick \/ UNCHANGED clusterVars
    BY <2>1 DEF CalmTick, clusterVars, world, Actives
  <2>2. CASE CalmChange
    BY <2>2 DEF CalmChange, Leader!Next, Leader!StepDown
  <2>3. ASSUME NEW m \in Manager, CalmMove(m) PROVE Leader!Next
    <3>1. pc[m] = "active.command" /\ Actives' = {m}
      BY <2>3 DEF CalmMove, Stays
    <3>2. Actives = {}
      BY <3>1 DEF Background, CalmInv, CalmRoles
    <3>. QED
      BY <3>1, <3>2, ManagerAssumption DEF Leader!Next, Leader!TakeOver
  <2>. QED
    BY <2>1, <2>2, <2>3, CalmSteps DEF CalmNext
<1>. QED
  BY <1>1, <1>2, CalmInvAlways, PTL DEF ClusterSpec, ElectsOneLeader, Leader!Spec

\* The node that takes over is eligible, and no eligible node ranks before it:
\* at the head of the line is the best of all that could lead.
THEOREM CalmBestCandidate == ASSUME Calm PROVE ClusterSpec => BestCandidateTakesOver
<1>. DEFINE Best == \A m \in Manager :
                      TakesOver(m) => Eligible(m) /\ \A n \in Manager : n < m => ~Eligible(n)
<1>1. Background => Best
  <2>. SUFFICES ASSUME Background, NEW m \in Manager, TakesOver(m)
                PROVE  Eligible(m) /\ \A n \in Manager : n < m => ~Eligible(n)
    OBVIOUS
  <2>. USE DEF Background, CalmInv
  <2>1. pc[m] = "active.command" /\ Actives = {} /\ Eligible(m)
    BY DEF TakesOver, CalmRoles, CandidatesEligible
  <2>2. PICK k \in Nat : QueueAt(k)
    BY <2>1 DEF QueueByPlace
  <2>3. ASSUME NEW n \in Manager, n < m, Eligible(n) PROVE FALSE
    <3>1. n \in Running /\ m \in Peer
      BY <2>3, ManagerAssumption DEF Eligible, Healthy, Running
    <3>2. Place(n) \in Nat /\ Place(n) < k
      BY <2>1, <2>2, <2>3, <3>1, PlaceOrder DEF QueueAt
    <3>3. InLine(n)
      BY <2>2, <2>3, <3>2 DEF QueueAt
    <3>4. CASE pc[n] = "delaying"
      <4>1. delay[n] \in Nat /\ delay[n] + k = Place(n)
        BY <2>2, <3>4 DEF QueueAt, TypeOK
      <4>. QED
        BY <3>2, <4>1
    <3>5. CASE pc[n] \in {"active.pre", "active.command"}
      BY <2>2, <3>2, <3>5 DEF QueueAt
    <3>. QED
      BY <3>3, <3>4, <3>5 DEF InLine
  <2>. QED
    BY <2>1, <2>3
<1>2. [ClusterNext]_clusterVars /\ Background => [Best]_clusterVars
  BY <1>1
<1>. QED
  BY <1>2, CalmInvAlways, PTL DEF ClusterSpec, BestCandidateTakesOver

\* A short outage passes unnoticed: a candidate has counted no more leaderless
\* samples than there were instants without a leader.
THEOREM CalmNoHaste == ASSUME Calm PROVE ClusterSpec => NoHastyCandidate
<1>. DEFINE Patient == \A m \in Manager : pc[m] = "evaluate" /\ pc'[m] = "healthCheck"
                                          => quietTicks >= Threshold - 1
<1>1. Background /\ [ClusterNext]_clusterVars => Patient
  <2>. SUFFICES ASSUME Background, [ClusterNext]_clusterVars,
                       NEW m \in Manager, pc[m] = "evaluate", pc'[m] = "healthCheck"
                PROVE  quietTicks >= Threshold - 1
    OBVIOUS
  <2>1. PICK n \in Manager : CalmMove(n)
    BY CalmSteps DEF CalmNext, CalmTick, CalmChange, clusterVars, vars
  <2>2. n = m
    BY <2>1 DEF CalmMove, MovesAlone
  <2>3. gossipState[m].count = Threshold
    BY <2>1, <2>2 DEF CalmMove
  <2>4. gossipState[m].count <= quietTicks + 1
    BY AtWork DEF Background, CalmInv, CountsQuiet
  <2>5. quietTicks \in Nat
    BY ThresholdAssumption DEF Background, WorldTypeOK
  <2>. QED
    BY <2>3, <2>4, <2>5, CountTyped
<1>2. Background /\ [ClusterNext]_clusterVars => [Patient]_clusterVars
  BY <1>1
<1>. QED
  BY <1>2, CalmInvAlways, PTL DEF ClusterSpec, NoHastyCandidate

\* In calm the shared active identity is never in use twice, for any number of nodes:
\* what HACluster_race refutes of a cluster that is not calm.
THEOREM CalmAtMostOneActive == ASSUME Calm PROVE ClusterSpec => []AtMostOneActive
<1>1. Background => AtMostOneActive
  <2>. SUFFICES ASSUME Background PROVE AtMostOneActive
    OBVIOUS
  <2>1. Actives \in SUBSET Peer /\ \A p, q \in Actives : p = q
    BY DEF Background, CalmInv, CalmWorld, Actives
  <2>2. IsFiniteSet(Actives)
    BY <2>1, PeerAssumption, FS_Subset
  <2>3. Cardinality(Actives) \in Nat /\ ~(Cardinality(Actives) > 1)
    BY <2>1, <2>2, OneMember, FS_CardinalityType
  <2>. QED
    BY <2>3 DEF AtMostOneActive
<1>. QED
  BY <1>1, CalmInvAlways, PTL
=============================================================================
