------------------------------ MODULE HACluster ------------------------------
(***************************************************************************)
(* The HA managers of a cluster together with the world they act on: the   *)
(* validators and their identities, the network, the polling clock.  Every *)
(* step of a manager is a step of HAManager whose parameters are read off  *)
(* the world, so ClusterSpec implies Spec (proved in HAClusterProofs).     *)
(*                                                                         *)
(* The clock is the one haMonitorLoop builds: all nodes poll at the same   *)
(* multiples of poll_interval_duration.  A period is the time between two  *)
(* such instants; inside one the nodes' steps interleave in any order, and *)
(* Tick ends it once every node has done the work it began.                *)
(*                                                                         *)
(* Gossip is what integration/mock-solana serves: each running validator   *)
(* that is connected, with the identity it has at that moment.             *)
(***************************************************************************)
EXTENDS HAManager

CONSTANTS
    Disruptions,     \* the kinds of things that may go wrong (see Kinds)
    MaxDisruptions,  \* how many of them, at most
    Window,          \* when: "any" time, "between" periods, or when "calm"
    SlowCommands     \* whether a hook or command may outlast a period

Kinds == {"crash", "return", "sick", "well", "stall", "norpc", "cut", "mend",
          "restart", "hook", "command", "usurp"}

ASSUME ClusterAssumption ==
    /\ Disruptions \subseteq Kinds
    /\ MaxDisruptions \in Nat
    /\ Window \in {"any", "between", "calm"}
    /\ SlowCommands \in BOOLEAN

VARIABLES
    validator,   \* the identity each node's validator runs with, or "down"
    link,        \* "up"; "norpc": no cluster RPC; "cut": no network at all
    fit,         \* whether getHealth says ok while the validator runs
    delinquent,  \* the vote account of the active identity is delinquent
    ran,         \* the managers that have begun their work of this period
    disruptions, \* how many things have gone wrong
    failed,      \* the managers whose role change failed, or was cut short by a
                 \* restart, since the last instant
    mustYield,   \* the active nodes outranked at the last instant
    quietTicks   \* at how many instants in a row no active node was to be seen

world == <<validator, link, fit, delinquent>>
ticks == <<failed, mustYield, quietTicks>>
clusterVars == <<vars, world, ran, disruptions, ticks>>

Actives == {n \in Peer : validator[n] = "active"}

Connected(n) == validator[n] # "down" /\ link[n] # "cut"

Healthy(n) == fit[n] /\ validator[n] # "down"

LocalIdentity(n) == IF validator[n] = "down" THEN "error" ELSE validator[n]

\* A delinquent identity takes every node that holds it out of the sample.
WorldSample ==
    LET seen == {n \in Peer : Connected(n) /\ ~(delinquent /\ n \in Actives)}
    IN  [seen |-> seen, active |-> seen \cap Actives, undeclared |-> FALSE,
         leaderless |-> seen \cap Actives = {}]

RefreshedFromWorld(m) ==
    IF link[m] = "up" THEN RefreshSample(gossipState[m], WorldSample)
                      ELSE RefreshError(gossipState[m])

\* queryPeerRole gets an answer from the managers it can reach.
ActiveHeartbeats(m) ==
    {n \in Manager \ {m} : /\ link[m] # "cut" /\ link[n] # "cut"
                           /\ metrics[n].role = "active"}

ClusterInit ==
    /\ Init
    /\ \E n \in Peer : validator \in {[p \in Peer |-> IF p = n THEN id ELSE "passive"] :
                                        id \in {"active", "passive"}}
    /\ link = [n \in Peer |-> "up"]
    /\ fit = [n \in Peer |-> TRUE]
    /\ delinquent = FALSE
    /\ ran = {}
    /\ disruptions = 0
    /\ failed = {}
    /\ mustYield = {}
    /\ quietTicks = 0

-----------------------------------------------------------------------------
(***************************************************************************)
(* Disruptions.                                                            *)
(***************************************************************************)
InSleep == {m \in Manager : delay[m] > 0}

InCommand == {m \in Manager : pc[m] \in ActiveStages \cup PassiveStages}

\* Every manager has done its work of this period, or is still in the middle
\* of a sleep or of a slow command.
PeriodOver ==
    \A m \in Manager : \/ pc[m] = "idle" /\ m \in ran
                       \/ m \in InSleep
                       \/ SlowCommands /\ m \in InCommand

\* Nobody is about to take over and all nodes have seen the same.
Settled ==
    /\ PeriodOver /\ InSleep = {}
    /\ \A m, n \in Manager : gossipState[m] = gossipState[n]

GoWrong(kind) ==
    /\ kind \in Disruptions /\ disruptions < MaxDisruptions
    /\ disruptions' = disruptions + 1

Disrupt(kind) ==
    /\ GoWrong(kind)
    /\ Window # "any" => PeriodOver
    /\ Window = "calm" => Settled

Crash(n) ==
    /\ Disrupt("crash") /\ validator[n] # "down"
    /\ validator' = [validator EXCEPT ![n] = "down"]
    /\ UNCHANGED <<vars, link, fit, delinquent, ran, ticks>>

\* Validators are configured to start with their passive identity.
Return(n) ==
    /\ Disrupt("return") /\ validator[n] = "down"
    /\ validator' = [validator EXCEPT ![n] = "passive"]
    /\ UNCHANGED <<vars, link, fit, delinquent, ran, ticks>>

ChangeHealth(n) ==
    /\ Disrupt(IF fit[n] THEN "sick" ELSE "well")
    /\ fit' = [fit EXCEPT ![n] = ~@]
    /\ UNCHANGED <<vars, validator, link, delinquent, ran, ticks>>

\* The active identity stops voting for delinquentSlotDistance slots.
Stall ==
    /\ Disrupt("stall") /\ Actives # {} /\ ~delinquent
    /\ delinquent' = TRUE
    /\ UNCHANGED <<vars, validator, link, fit, ran, ticks>>

ChangeLink(n) ==
    /\ \E kind \in {"norpc", "cut"} :
          \/ link[n] = "up" /\ Disrupt(kind) /\ link' = [link EXCEPT ![n] = kind]
          \/ link[n] = kind /\ Disrupt("mend") /\ link' = [link EXCEPT ![n] = "up"]
    /\ UNCHANGED <<vars, validator, fit, delinquent, ran, ticks>>

\* Somebody gives a second validator the active identity by hand, but not twice
\* in a row.
Usurp(n) ==
    /\ Disrupt("usurp") /\ validator[n] = "passive" /\ Actives # {}
    /\ n \notin mustYield
    /\ validator' = [validator EXCEPT ![n] = "active"]
    /\ UNCHANGED <<vars, link, fit, delinquent, ran, ticks>>

RestartManager(m) ==
    /\ Disrupt("restart") /\ Restart(m)
    /\ failed' = failed \cup ({m} \cap InCommand)
    /\ UNCHANGED <<world, ran, mustYield, quietTicks>>

Disruption ==
    \/ \E n \in Peer : \/ Crash(n) \/ Return(n) \/ ChangeHealth(n)
                       \/ ChangeLink(n) \/ Usurp(n)
    \/ Stall
    \/ \E m \in Manager : RestartManager(m)

-----------------------------------------------------------------------------
(***************************************************************************)
(* The managers.                                                           *)
(***************************************************************************)

\* The timer of haMonitorLoop first fires a whole interval after the initial
\* refresh, and one that fired while the loop was busy waits for the next instant.
Begin(m) ==
    /\ \/ InitialRefresh(m, RefreshedFromWorld(m))
       \/ m \notin ran /\ PollGossip(m, RefreshedFromWorld(m))
    /\ ran' = ran \cup {m}
    /\ UNCHANGED <<world, disruptions, ticks>>

Observe(m) ==
    /\ \/ RefreshCache(m, LocalIdentity(m), LocalIdentity(m))
       \/ DetectDualInGossip(m, LocalIdentity(m))
       \/ SkipDualInGossip(m, LocalIdentity(m))
       \/ CheckPeerHeartbeats(m, ActiveHeartbeats(m), LocalIdentity(m))
       \/ CheckHealth(m, Healthy(m))
       \/ DelayTakeover(m, LocalIdentity(m))
       \/ RecheckGossip(m, RefreshedFromWorld(m))
       \/ ConfirmPassive(m, LocalIdentity(m), RefreshedFromWorld(m))
    /\ UNCHANGED <<world, ran, disruptions, ticks>>

Decide(m) ==
    /\ DecisionStep(m)
    /\ UNCHANGED <<world, ran, disruptions, ticks>>

RunHooks(m) ==
    /\ \/ /\ RunActivePreHooks(m, TRUE) \/ RunPassivePreHooks(m, TRUE)
          /\ UNCHANGED <<disruptions, failed>>
       \/ /\ GoWrong("hook")
          /\ RunActivePreHooks(m, FALSE) \/ RunPassivePreHooks(m, FALSE)
          /\ failed' = failed \cup {m}
    /\ UNCHANGED <<world, ran, mustYield, quietTicks>>

\* The user's commands set the identity of a running validator and fail on
\* one that is down.  The new holder of the active identity votes at once.
SetIdentity(m, id) ==
    /\ validator' = [validator EXCEPT ![m] = id]
    /\ delinquent' = (delinquent /\ id = "passive")
    /\ UNCHANGED <<link, fit>>

RunRoleCommand(m, ok) ==
    \/ RunActiveCommand(m, ok) /\ (ok => SetIdentity(m, "active"))
    \/ RunPassiveCommand(m, ok) /\ (ok => SetIdentity(m, "passive"))

RunCommands(m) ==
    /\ \/ /\ validator[m] # "down"
          /\ RunRoleCommand(m, TRUE)
          /\ UNCHANGED <<disruptions, failed>>
       \/ /\ IF validator[m] = "down" THEN UNCHANGED disruptions ELSE GoWrong("command")
          /\ RunRoleCommand(m, FALSE)
          /\ failed' = failed \cup {m}
          /\ UNCHANGED world
    /\ UNCHANGED <<ran, mustYield, quietTicks>>

TrackHealth(m) ==
    /\ \/ SampleSelfHealth(m, Healthy(m)) /\ healthyStreak' # healthyStreak
       \/ StreakMatures(m)
    /\ Window = "calm" => PeriodOver /\ InSleep = {}
    /\ UNCHANGED <<world, ran, disruptions, ticks>>

\* Active nodes that must step down in the coming period: the best ranked of the
\* active nodes on the network ranks before them, both have a cluster RPC and a
\* manager that is neither asleep nor in the middle of a command, and the identity
\* votes.
Outranked ==
    LET ready == {n \in (Actives \cap Manager) \ (InSleep \cup InCommand) : link[n] = "up"}
        best  == {p \in ready : \A q \in Actives : q < p => link[q] = "cut"}
    IN  {n \in ready : ~delinquent /\ \E p \in best : p < n}

\* The next polling instant.
Tick ==
    /\ PeriodOver
    /\ IF InSleep = {} THEN UNCHANGED vars ELSE SleepOn(InSleep)
    /\ ran' = {m \in Manager : pc[m] # "idle"}
    /\ failed' = {}
    /\ mustYield' = Outranked
    /\ quietTicks' = IF ~WorldSample.leaderless THEN 0
                     ELSE IF quietTicks < Threshold THEN quietTicks + 1 ELSE quietTicks
    /\ UNCHANGED <<world, disruptions>>

ManagerStep(m) ==
    \/ Begin(m)
    \/ Observe(m)
    \/ Decide(m)
    \/ RunHooks(m)
    \/ RunCommands(m)

ClusterNext ==
    \/ Disruption
    \/ \E m \in Manager : ManagerStep(m) \/ TrackHealth(m)
    \/ Tick

ClusterSpec == ClusterInit /\ [][ClusterNext]_clusterVars

\* A manager's process keeps running, so do its timers and its commands end.
Fairness ==
    /\ \A m \in Manager : WF_clusterVars(ManagerStep(m)) /\ WF_clusterVars(TrackHealth(m))
    /\ WF_clusterVars(Tick)

FairClusterSpec == ClusterSpec /\ Fairness
-----------------------------------------------------------------------------
ClusterTypeOK ==
    /\ TypeOK
    /\ validator \in [Peer -> {"active", "passive", "down"}]
    /\ link \in [Peer -> {"up", "norpc", "cut"}]
    /\ fit \in [Peer -> BOOLEAN]
    /\ delinquent \in BOOLEAN
    /\ ran \subseteq Manager
    /\ disruptions \in 0 .. MaxDisruptions
    /\ failed \subseteq Manager /\ mustYield \subseteq Peer
    /\ quietTicks \in 0 .. Threshold

\* What the rank delay is for: the shared active identity is not in use twice.
AtMostOneActive == Cardinality(Actives) <= 1

\* The settled cluster keeps that promise, and more: the identity is only ever
\* taken while nobody holds it, whatever fails and returns between takeovers.
Leader == INSTANCE Leadership WITH Node <- Peer, holders <- Actives
ElectsOneLeader == Leader!Spec

TakesOver(m) == validator[m] # "active" /\ validator'[m] = "active" /\ pc[m] = "active.command"

Eligible(m) == link[m] = "up" /\ Healthy(m) /\ healthyStreak[m] = "long"

\* The node that takes over is eligible and no eligible node ranks before it.
BestCandidateTakesOver ==
    [][\A m \in Manager :
          TakesOver(m) => Eligible(m) /\ \A n \in Manager : n < m => ~Eligible(n)]_clusterVars

\* A node becomes a candidate only if there was no leader to be seen at the last
\* Threshold - 1 polling instants: a shorter outage passes unnoticed.
NoHastyCandidate ==
    [][\A m \in Manager :
          pc[m] = "evaluate" /\ pc'[m] = "healthCheck"
          => quietTicks >= Threshold - 1]_clusterVars

\* A split brain lasts one period: an active node outranked by the best of them at
\* one polling instant is no longer outranked at the next, unless its own hook or
\* command failed in between or its manager was restarted while they ran.
DualActiveResolved == [][Tick => mustYield \cap mustYield' \subseteq failed]_clusterVars

\* When the recheck after the delay lets a node with a cluster RPC take over, no
\* other node that can be seen is active.  (Without one the recheck sees nobody
\* and the node takes over all the same.)
RecheckSeesActives ==
    [][\A m \in Manager :
          pc[m] = "delaying" /\ pc'[m] = "active.pre" /\ link[m] = "up"
          => \A n \in Actives \ {m} : ~Connected(n) \/ delinquent]_clusterVars

\* An active node looks at the page of another between Reset and Set.
HeartbeatMissed ==
    \E m, n \in Manager : /\ {m, n} \subseteq Actives /\ link[m] = "norpc"
                          /\ pc[m] = "heartbeats" /\ pc[n] = "gap"

\* Once some node stays able to lead, the connected nodes end up with one
\* active node among them for good: unless one of two active nodes has lost its
\* cluster RPC and the other's page happens to be without a role whenever it looks.
LeaderRestored ==
    <>[](\E m \in Manager : link[m] = "up" /\ Healthy(m))
    => \/ <>[](Cardinality({n \in Actives : Connected(n)}) = 1)
       \/ []<>HeartbeatMissed

\* An active node cut off from the network does not keep the active identity.
IsolatedActiveYields ==
    \A m \in Manager :
        (m \in Actives /\ link[m] = "cut") ~> (m \notin Actives \/ link[m] # "cut")
=============================================================================
