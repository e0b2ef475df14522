---------------------------- MODULE GossipRefresh ----------------------------
(***************************************************************************)
(* The loop of State.Refresh over the answer of getClusterNodes            *)
(* (internal/gossip/state.go).  GossipState takes the result of that loop  *)
(* as a Sample; this module shows what a sample says about the answer, and *)
(* what it depends on: the order of the nodes, and how many of them share  *)
(* an address.                                                             *)
(***************************************************************************)
EXTENDS GossipState, Sequences

CONSTANTS
    Outsider,   \* the addresses of the cluster that are not in failover.peers
    NoAddress,  \* a node that publishes no gossip address
    MaxNodes    \* the longest answer of getClusterNodes considered

ASSUME RefreshAssumption ==
    Outsider \cap Peer = {} /\ NoAddress \notin Peer \cup Outsider /\ MaxNodes \in Nat

\* active: the node's pubkey is the shared active identity.  voting: what
\* isNodeActiveAndVoting would answer for it, only ever asked of active nodes.
Node == {n \in [ip : Peer \cup Outsider \cup {NoAddress}, active : BOOLEAN,
                 voting : BOOLEAN] : n.voting => n.active}

Answer == UNION {[1 .. k -> Node] : k \in 0 .. MaxNodes}

VARIABLES
    gossipState,    \* the State between two refreshes
    scanning,       \* Refresh is in its loop
    nodes,          \* the answer it loops over
    next,           \* the index of the next node
    sample          \* what the loop has gathered

refreshVars == <<gossipState, scanning, nodes, next, sample>>

NoSample == [seen |-> {}, active |-> {}, undeclared |-> FALSE, leaderless |-> TRUE]

RefreshInit ==
    /\ gossipState = NewState
    /\ scanning = FALSE
    /\ nodes = <<>> /\ next = 1
    /\ sample = NoSample

GetClusterNodesFails ==
    /\ ~scanning
    /\ gossipState' = RefreshError(gossipState)
    /\ UNCHANGED <<scanning, nodes, next, sample>>

GetClusterNodes(answer) ==
    /\ ~scanning
    /\ scanning' = TRUE
    /\ nodes' = answer /\ next' = 1
    /\ sample' = NoSample
    /\ UNCHANGED gossipState

\* len(configPeers) == len(latestPeerStatesByName): the loop breaks, whatever
\* the rest of the answer holds.
AllPeersFound == sample.seen = Peer

Scan(n) ==
    /\ scanning /\ next <= Len(nodes) /\ ~AllPeersFound
    /\ n = nodes[next] /\ n.ip # NoAddress
    /\ next' = next + 1
    /\ UNCHANGED <<gossipState, scanning, nodes>>

\* Mutants: an outsider is registered like a peer; it does not end the count.
FindUndeclared_AsPeer(n) ==
    /\ Scan(n) /\ n.ip \notin Peer
    /\ sample' = [sample EXCEPT !.seen = @ \cup {n.ip}]
FindUndeclared_StillLeaderless(n) ==
    /\ Scan(n) /\ n.ip \notin Peer
    /\ sample' = [sample EXCEPT !.undeclared = n.voting]

\* An address outside failover.peers counts only if its node is active and voting.
FindUndeclared(n) ==
    /\ Scan(n) /\ n.ip \notin Peer
    /\ sample' = IF n.active /\ n.voting
                   THEN [sample EXCEPT !.undeclared = TRUE, !.leaderless = FALSE]
                   ELSE sample

\* A peer that holds the active identity and does not vote is left out.
IgnoreIdleLeader(n) ==
    /\ Scan(n) /\ n.ip \in Peer
    /\ n.active /\ ~n.voting
    /\ UNCHANGED sample

\* Mutants: an idle leader is registered too; the last peer decides.
FindPeer_Idle(n) ==
    /\ Scan(n) /\ n.ip \in Peer
    /\ sample' = [sample EXCEPT
                    !.seen = @ \cup {n.ip},
                    !.active = IF n.active THEN @ \cup {n.ip} ELSE @ \ {n.ip},
                    !.leaderless = @ /\ ~n.active]
FindPeer_LastDecides(n) ==
    /\ Scan(n) /\ n.ip \in Peer
    /\ n.active => n.voting
    /\ sample' = [sample EXCEPT
                    !.seen = @ \cup {n.ip},
                    !.active = IF n.active THEN @ \cup {n.ip} ELSE @ \ {n.ip},
                    !.leaderless = ~n.active]

\* The peer's entry replaces one an earlier node with its address left.
FindPeer(n) ==
    /\ Scan(n) /\ n.ip \in Peer
    /\ n.active => n.voting
    /\ sample' = [sample EXCEPT
                    !.seen = @ \cup {n.ip},
                    !.active = IF n.active THEN @ \cup {n.ip} ELSE @ \ {n.ip},
                    !.leaderless = @ /\ ~n.active]

\* *node.Gossip is read unchecked: without an address the program panics, and
\* starts again knowing nothing (Restart in HAManager).
PanicOnNoAddress ==
    /\ scanning /\ next <= Len(nodes) /\ ~AllPeersFound
    /\ nodes[next].ip = NoAddress
    /\ gossipState' = NewState /\ scanning' = FALSE
    /\ UNCHANGED <<nodes, next, sample>>

EndRefresh ==
    /\ scanning
    /\ next > Len(nodes) \/ AllPeersFound
    /\ gossipState' = RefreshSample(gossipState, sample)
    /\ scanning' = FALSE
    /\ UNCHANGED <<nodes, next, sample>>

RefreshNext ==
    \/ GetClusterNodesFails
    \/ \E answer \in Answer : GetClusterNodes(answer)
    \/ \E n \in Node : FindUndeclared(n) \/ IgnoreIdleLeader(n) \/ FindPeer(n)
    \/ EndRefresh \/ PanicOnNoAddress

RefreshSpec == RefreshInit /\ [][RefreshNext]_refreshVars
-----------------------------------------------------------------------------
RefreshTypeOK ==
    /\ gossipState \in State
    /\ scanning \in BOOLEAN
    /\ nodes \in Answer /\ next \in 1 .. Len(nodes) + 1
    /\ sample \in [seen : SUBSET Peer, active : SUBSET Peer,
                   undeclared : BOOLEAN, leaderless : BOOLEAN]

\* The answer as a set, and what it says of each peer.
Found == {nodes[i] : i \in 1 .. Len(nodes)}

PeersIn(answer) == {n.ip : n \in answer} \cap Peer

OneNodePerPeer ==
    \A i, j \in 1 .. Len(nodes) :
        nodes[i].ip = nodes[j].ip /\ nodes[i].ip \in Peer => i = j

\* Every refresh leaves the state GossipState says it may leave, so HAManager
\* meets each of them, unless a node of the answer without an address ends it.
RefreshLeavesSample ==
    [][gossipState' # gossipState =>
         \/ gossipState' \in Refreshed(gossipState)
         \/ gossipState' = NewState /\ nodes[next].ip = NoAddress]_refreshVars

\* With one node per peer the order of the answer does not matter to what is
\* known of the peers: those in gossip are the ones that are not idle leaders,
\* the active ones among them hold the identity and vote.
PeersAsAnswered ==
    [][EndRefresh /\ OneNodePerPeer =>
         /\ gossipState'.seen = PeersIn({n \in Found : n.active => n.voting})
         /\ gossipState'.active = PeersIn({n \in Found : n.voting})]_refreshVars

\* Whatever addresses the nodes share: a refresh that saw no leader, in an answer
\* with a node that votes as the leader, stopped early with every peer found.
LeaderMissedOnlyByBreak ==
    [][EndRefresh /\ sample.leaderless /\ (\E n \in Found : n.voting)
         => gossipState'.seen = Peer /\ next <= Len(nodes)]_refreshVars

\* A node that votes with the active identity from an address outside
\* failover.peers is noticed.
UndeclaredNoticed ==
    [][EndRefresh /\ (\E n \in Found : n.voting /\ n.ip \in Outsider)
         => gossipState'.undeclared]_refreshVars
=============================================================================
