------------------------------ MODULE Startup ------------------------------
(***************************************************************************)
(* A node from its configuration file to its monitor loop: the defaults    *)
(* and checks of internal/config, the construction of the manager, the     *)
(* public address, the addition of this node to its peers, the two servers *)
(* and the two tickers.  What the other modules assume of their constants  *)
(* is what this sequence lets through.                                     *)
(***************************************************************************)
EXTENDS Integers, Sequences, FiniteSets

CONSTANTS
    Name, Host, Key, Url,   \* validator names, machines, public keys, good URLs
    Configs                 \* the configurations considered

Label == {"validator_name", "public_ip", "validator_role", "validator_status",
          "status", "malformed", "custom"}
BadLabels == Label \ {"custom"}     \* the metrics' own, and what is no label name

\* net.ParseIP takes 10.0.0.1 and ::ffff:10.0.0.1 for IPv4; the code compares strings.
Address == [host : Host, form : {"dotted", "mapped", "invalid"}]

\* An identity comes from a keypair file or a public key string.
Source == {"none", "unreadable"} \cup Key

\* Parts that are only checked for their form.
Part == {"log", "rpc_url", "public_ip_service_urls", "command", "hook", "template"}

NoName == "no name"

PeerMap == UNION {[N -> Address] : N \in SUBSET Name}

\* Durations are in seconds, and the numbers those of the code.
Config ==
    [name : Name \cup {NoName},
     activeFile : Source, activePubkey : Source,
     passiveFile : Source, passivePubkey : Source,
     cluster : {"mainnet-beta", "unknown"}, rpcURLs : Seq(Url \cup {"malformed"}),
     labels : SUBSET Label, port : Int, healthCheckPort : Int,
     pollInterval : Int, threshold : Int, minimumDuration : Int, healthPoll : Int,
     override : [enabled : BOOLEAN, value : Nat],
     peers : PeerMap, malformed : SUBSET Part]

ASSUME StartupAssumption == Configs \subseteq Config /\ "default" \in Url

VARIABLES
    cfg,        \* Config, defaults and corrections included
    stage,      \* how far the start has come
    self,       \* Manager.peerSelf: this node's address
    peers,      \* the peers gossip looks for: the configured ones, then this node too
    listening   \* the servers that hold a port

startVars == <<cfg, stage, self, peers, listening>>

Servers == {"metrics", "health"}

\* A server that has not tried, has failed, or holds its port.
Attempt == {"waiting", "failed", "bound"}

Unknown == [host |-> "unknown", form |-> "invalid"]

StartInit ==
    /\ cfg \in Configs
    /\ stage = "loaded"
    /\ self = Unknown /\ peers = cfg.peers
    /\ listening = [s \in Servers |-> "waiting"]

GoOn(next) == stage' = next

Default(value, default) == IF value = 0 THEN default ELSE value

\* setDefaults: absent numbers are zero.
SetDefaults ==
    /\ stage = "loaded" /\ GoOn("defaulted")
    /\ cfg' = [cfg EXCEPT
                 !.rpcURLs = IF @ = <<>> /\ cfg.cluster = "mainnet-beta"
                               THEN <<"default">> ELSE @,
                 !.port = Default(@, 9090), !.healthCheckPort = Default(@, 9091),
                 !.pollInterval = Default(@, 5), !.threshold = Default(@, 3),
                 !.minimumDuration = Default(@, 45), !.healthPoll = Default(@, 5)]
    /\ UNCHANGED <<self, peers, listening>>

\* ValidatorIdentities: a keypair file takes precedence over a public key.
Identity(file, pubkey) == IF file # "none" THEN file ELSE pubkey
ActiveIdentity == Identity(cfg.activeFile, cfg.activePubkey)
PassiveIdentity == Identity(cfg.passiveFile, cfg.passivePubkey)

LoadIdentities ==
    /\ stage = "defaulted"
    /\ GoOn(IF {ActiveIdentity, PassiveIdentity} \subseteq Key THEN "identified" ELSE "refused")
    /\ UNCHANGED <<cfg, self, peers, listening>>

\* Validate of Validator, Cluster and Prometheus.
ValidNode ==
    /\ cfg.name # NoName
    /\ ActiveIdentity # PassiveIdentity
    /\ cfg.cluster = "mainnet-beta"
    /\ cfg.rpcURLs # <<>> /\ \A i \in 1 .. Len(cfg.rpcURLs) : cfg.rpcURLs[i] # "malformed"
    /\ cfg.port > 0 /\ cfg.healthCheckPort > 0

\* Mutants: the self_healthy poll interval is checked like the other one;
\* addresses are not compared.
ValidFailover_PollNotZero ==
    /\ cfg.pollInterval # 0 /\ cfg.threshold > 0
    /\ cfg.minimumDuration > 0 /\ cfg.healthPoll # 0
    /\ DOMAIN cfg.peers # {}
    /\ \A n \in DOMAIN cfg.peers : cfg.peers[n].form # "invalid"
    /\ \A n, o \in DOMAIN cfg.peers : cfg.peers[n] = cfg.peers[o] => n = o
ValidFailover_SharedAddress ==
    /\ cfg.pollInterval # 0 /\ cfg.threshold > 0
    /\ cfg.minimumDuration > 0 /\ cfg.healthPoll > 0
    /\ DOMAIN cfg.peers # {}
    /\ \A n \in DOMAIN cfg.peers : cfg.peers[n].form # "invalid"

\* Failover.Validate.  Of the poll interval it only says that it is not zero.
ValidFailover ==
    /\ cfg.pollInterval # 0 /\ cfg.threshold > 0
    /\ cfg.minimumDuration > 0 /\ cfg.healthPoll > 0
    /\ DOMAIN cfg.peers # {}
    /\ \A n \in DOMAIN cfg.peers : cfg.peers[n].form # "invalid"
    /\ \A n, o \in DOMAIN cfg.peers : cfg.peers[n] = cfg.peers[o] => n = o

\* validate corrects the override; nothing else changes.
Validate ==
    /\ stage = "identified"
    /\ IF ValidNode /\ ValidFailover /\ cfg.malformed \subseteq {"template"}
         THEN /\ GoOn("validated")
              /\ cfg' = IF cfg.override.enabled /\ cfg.override.value <= 1
                          THEN [cfg EXCEPT !.override = [enabled |-> TRUE, value |-> 2]] ELSE cfg
         ELSE GoOn("refused") /\ UNCHANGED cfg
    /\ UNCHANGED <<self, peers, listening>>

RenderRoleCommands ==
    /\ stage = "validated"
    /\ GoOn(IF "template" \in cfg.malformed THEN "refused" ELSE "rendered")
    /\ UNCHANGED <<cfg, self, peers, listening>>

\* NewManager registers the metrics, which must not have a label twice or a bad one.
NewManager ==
    /\ stage = "rendered"
    /\ GoOn(IF cfg.labels \cap BadLabels = {} THEN "created" ELSE "panicked")
    /\ UNCHANGED <<cfg, self, peers, listening>>

PublicIPFails ==
    /\ stage = "created" /\ GoOn("refused")
    /\ UNCHANGED <<cfg, self, peers, listening>>

HasIP(ip) == \E n \in DOMAIN peers : peers[n] = ip

\* Mutants: Add leaves a peer of this name alone; it starts a new map.
Add_Keep(ip) ==
    [n \in DOMAIN peers \cup {cfg.name} |-> IF n \in DOMAIN peers THEN peers[n] ELSE ip]
Add_Reset(ip) == [n \in {cfg.name} |-> ip]

\* Peers.Add: an entry of a map, old or new.
Add(ip) == [n \in DOMAIN peers \cup {cfg.name} |-> IF n = cfg.name THEN ip ELSE peers[n]]

\* Mutant: peerSelf is set before the check that refuses the start.
Initialize_SelfFirst(ip) ==
    /\ stage = "created" /\ ip.form # "invalid"
    /\ self' = ip
    /\ IF HasIP(ip) THEN GoOn("refused") /\ UNCHANGED peers
                    ELSE GoOn("initialized") /\ peers' = Add(ip)
    /\ UNCHANGED <<cfg, listening>>

\* Manager.initialize, with the address the public IP services agree on.
Initialize(ip) ==
    /\ stage = "created" /\ ip.form # "invalid"
    /\ IF HasIP(ip)
         THEN GoOn("refused") /\ UNCHANGED <<self, peers>>
         ELSE /\ GoOn("initialized")
              /\ self' = ip /\ peers' = Add(ip)
    /\ UNCHANGED <<cfg, listening>>

\* Run starts the servers in goroutines of their own and goes on.
Started == {"initialized", "tracking", "running"}

\* Mutant: both servers take health_check_port.
Port_Copied(s) == cfg.healthCheckPort

Port(s) == IF s = "metrics" THEN cfg.port ELSE cfg.healthCheckPort

\* A port can be bound once, and there are 65535.  A failure is only logged.
Listen(s) ==
    /\ stage \in Started /\ listening[s] = "waiting"
    /\ listening' = [listening EXCEPT
         ![s] = IF Port(s) > 65535 \/ \E t \in Servers : listening[t] = "bound" /\ Port(t) = Port(s)
                  THEN "failed" ELSE "bound"]
    /\ UNCHANGED <<cfg, stage, self, peers>>

\* time.NewTicker panics unless its interval is positive.
StartTicker(from, to, interval) ==
    /\ stage = from
    /\ GoOn(IF interval > 0 THEN to ELSE "panicked")
    /\ UNCHANGED <<cfg, self, peers, listening>>

StartHealthyTracker == StartTicker("initialized", "tracking", cfg.healthPoll)
StartMonitorLoop == StartTicker("tracking", "running", cfg.pollInterval)

GetPublicIP == PublicIPFails \/ \E ip \in Address : Initialize(ip)

Configure == SetDefaults \/ LoadIdentities \/ Validate \/ RenderRoleCommands

Run == NewManager \/ GetPublicIP \/ StartHealthyTracker \/ StartMonitorLoop

StartNext == Configure \/ Run \/ \E s \in Servers : Listen(s)

StartSpec == StartInit /\ [][StartNext]_startVars

\* The program runs, and so do its goroutines.
FairStartSpec ==
    StartSpec /\ WF_startVars(Configure \/ Run) /\ \A s \in Servers : WF_startVars(Listen(s))
-----------------------------------------------------------------------------
Stages == {"loaded", "defaulted", "identified", "validated", "rendered", "created",
           "refused", "panicked"} \cup Started

StartTypeOK ==
    /\ cfg \in Config
    /\ stage \in Stages
    /\ DOMAIN peers \subseteq Name \cup {NoName}
    /\ \A n \in DOMAIN peers : peers[n] \in Address
    /\ self = Unknown \/ (self \in Address /\ stage \in Started \cup {"panicked"})
    /\ listening \in [Servers -> Attempt]

\* A node that runs meets what the other modules assume of it: a positive
\* threshold, an identity to share that is not its own, an endpoint to ask, and
\* peers, itself among them, no two of which have the same address, so that each
\* has a rank of its own.
StartedSound ==
    stage \in Started =>
        /\ cfg.threshold > 0 /\ cfg.rpcURLs # <<>>
        /\ ActiveIdentity # PassiveIdentity
        /\ cfg.override.enabled => cfg.override.value > 1
        /\ cfg.name \in DOMAIN peers /\ peers[cfg.name] = self
        /\ \A n, o \in DOMAIN peers : peers[n] = peers[o] => n = o

\* No configured peer is lost when the node adds itself to them, except one that
\* was given this node's own name: it is overwritten without a word.
PeersKept ==
    stage \in Started =>
        \A n \in DOMAIN cfg.peers : HasIP(cfg.peers[n]) \/ n = cfg.name

\* A configuration that was accepted makes the program panic in two ways only: by
\* a negative poll interval, and by a static label the metrics cannot have.
PanicsKnown ==
    stage = "panicked" => cfg.pollInterval < 0 \/ cfg.labels \cap BadLabels # {}

\* A node that keeps running serves the metrics its peers take for its heartbeat,
\* unless the health server has the same port and was faster or the port does not exist.
HeartbeatServed ==
    <>(stage \in {"refused", "panicked"})
    \/ <>(listening["metrics"] = "bound")
    \/ cfg.port > 65535 \/ <>(cfg.port = cfg.healthCheckPort)
=============================================================================
