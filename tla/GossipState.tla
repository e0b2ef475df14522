----------------------------- MODULE GossipState -----------------------------
(***************************************************************************)
(* What an HA manager remembers of the Solana gossip network               *)
(* (internal/gossip/state.go, type State) and the questions it asks of it. *)
(*                                                                         *)
(* A configured peer is a natural number: its place in the string order of *)
(* the peers' IP addresses, the order getSortedIPs ranks by.  One call of  *)
(* Refresh is reduced to the sample its loop over getClusterNodes leaves   *)
(* behind (GossipRefresh models that loop and shows it only leaves members *)
(* of Sample).  Names, pubkeys, timestamps and the fields that only feed   *)
(* log lines are left out.                                                 *)
(***************************************************************************)
EXTENDS Naturals, FiniteSets

CONSTANTS
    Peer,       \* the members of failover.peers with this node added to them
    Threshold   \* failover.leaderless_samples_threshold

ASSUME PeerAssumption == Peer \subseteq Nat /\ IsFiniteSet(Peer)

\* Failover.Validate refuses any other threshold at start-up.
ASSUME ThresholdAssumption == Threshold \in Nat \ {0}

(***************************************************************************)
(* LeaderlessSamplesCount is only ever compared with the threshold, with   *)
(* >= and <, so counting no further than the threshold loses nothing.      *)
(***************************************************************************)
State == [seen       : SUBSET Peer,    \* peerStatesByName
          active     : SUBSET Peer,    \* those of them with LastSeenActive
          undeclared : BOOLEAN,        \* configUndeclaredActivePeer is set
          count      : 0 .. Threshold, \* LeaderlessSamplesCount
          rpcErr     : BOOLEAN]        \* lastRefreshHadRPCError

NewState == [seen |-> {}, active |-> {}, undeclared |-> FALSE,
             count |-> 0, rpcErr |-> FALSE]

\* What the loop over the cluster's nodes leaves behind.  A sample with no
\* leader has neither an active peer nor an undeclared one; the converse fails
\* when two nodes share an address and the second overwrites the first.
Sample == {s \in [seen : SUBSET Peer, active : SUBSET Peer,
                  undeclared : BOOLEAN, leaderless : BOOLEAN] :
             /\ s.active \subseteq s.seen
             /\ s.leaderless => s.active = {} /\ ~s.undeclared}

\* getClusterNodes failed: the peers are forgotten, the count is left as it is.
RefreshError(g) ==
    [g EXCEPT !.seen = {}, !.active = {}, !.undeclared = FALSE, !.rpcErr = TRUE]

\* Mutant: a sample with a leader leaves the count as it is.
RefreshSample_KeepCount(g, s) ==
    [seen |-> s.seen, active |-> s.active, undeclared |-> s.undeclared,
     count |-> IF s.leaderless /\ g.count < Threshold THEN g.count + 1 ELSE g.count,
     rpcErr |-> FALSE]

\* getClusterNodes answered and the loop over its nodes left sample s behind.
RefreshSample(g, s) ==
    [seen       |-> s.seen,
     active     |-> s.active,
     undeclared |-> s.undeclared,
     count      |-> IF ~s.leaderless THEN 0
                    ELSE IF g.count < Threshold THEN g.count + 1 ELSE g.count,
     rpcErr     |-> FALSE]

\* Every state a call of Refresh can leave g in.
Refreshed(g) == {RefreshError(g)} \cup {RefreshSample(g, s) : s \in Sample}

HasIP(g, p) == p \in g.seen

HasPeers(g, p) == g.seen \ {p} # {}

LeaderlessSamplesExceedsThreshold(g) == g.count >= Threshold

LeaderlessSamplesBelowThreshold(g) == g.count < Threshold

\* Mutant: the addresses are ranked in descending order.
Rank_Descending(g, p) == Cardinality({q \in g.seen : q > p})

\* PeerIPRankMap: the place of p among the addresses in gossip.
Rank(g, p) == Cardinality({q \in g.seen : q < p})
=============================================================================
