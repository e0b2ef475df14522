--------------------------- MODULE StartupProofs ---------------------------
(***************************************************************************)
(* What every start guarantees, whatever the configuration: validate makes *)
(* the configuration sound, nothing changes it afterwards, and the one     *)
(* address that joins the peers is checked against the ones already there. *)
(***************************************************************************)
EXTENDS Startup, TLAPS

Accepted == {"validated", "rendered", "created", "panicked"} \cup Started

\* What validate establishes.
ConfigSound ==
    /\ cfg.name # NoName /\ cfg.threshold > 0 /\ cfg.rpcURLs # <<>>
    /\ ActiveIdentity # PassiveIdentity
    /\ cfg.override.enabled => cfg.override.value > 1
    /\ cfg.pollInterval # 0 /\ cfg.healthPoll > 0
    /\ \A n, o \in DOMAIN cfg.peers : cfg.peers[n] = cfg.peers[o] => n = o

\* The peers after the addition of this node: its address is none of the others'.
Joined ==
    /\ self \in Address
    /\ \A n \in DOMAIN cfg.peers : cfg.peers[n] # self
    /\ peers = [n \in DOMAIN cfg.peers \cup {cfg.name} |->
                  IF n = cfg.name THEN self ELSE cfg.peers[n]]

StartInv ==
    /\ StartTypeOK /\ PanicsKnown
    /\ stage \in Accepted => ConfigSound
    /\ stage \notin Started \cup {"panicked"} => self = Unknown /\ peers = cfg.peers
    /\ stage \in Started => Joined

\* The corrected override leaves the rest of the configuration alone.
LEMMA Corrected ==
    ASSUME NEW c \in Config, NEW d,
           d = [c EXCEPT !.override = [enabled |-> TRUE, value |-> 2]]
    PROVE  d \in Config /\ d.peers = c.peers /\ d.override.value = 2
  <1> DEFINE o == [enabled |-> TRUE, value |-> 2]
  <1>1. o \in [enabled : BOOLEAN, value : Nat] /\ o.value = 2
    OBVIOUS
  <1> HIDE DEF o
  <1>2. d = [c EXCEPT !.override = o]
    BY DEF o
  <1> QED
    BY <1>1, <1>2 DEF Config

\* A configuration is read as it was written.
LEMMA StartInvInit == StartInit => StartInv
  <1> SUFFICES ASSUME StartInit PROVE StartInv
    OBVIOUS
  <1>1. cfg \in Config /\ cfg.peers \in PeerMap
    BY StartupAssumption DEF StartInit, Config
  <1>2. DOMAIN cfg.peers \subseteq Name /\ \A n \in DOMAIN cfg.peers : cfg.peers[n] \in Address
    BY <1>1 DEF PeerMap
  <1> QED
    BY <1>1, <1>2 DEF StartInit, StartInv, StartTypeOK, PanicsKnown, Accepted, Started,
       Stages, Servers, Attempt

\* The defaults and the checks, up to the rendered commands.
LEMMA StartInvConfigure == StartInv /\ Configure => StartInv'
  <1> SUFFICES ASSUME StartInv, Configure PROVE StartInv'
    OBVIOUS
  <1> USE DEF GoOn, Accepted, Started, Stages, PanicsKnown
  <1>1. CASE SetDefaults
    <2> DEFINE urls == IF cfg.rpcURLs = <<>> /\ cfg.cluster = "mainnet-beta"
                         THEN <<"default">> ELSE cfg.rpcURLs
               port == Default(cfg.port, 9090)
               healthCheckPort == Default(cfg.healthCheckPort, 9091)
               pollInterval == Default(cfg.pollInterval, 5)
               threshold == Default(cfg.threshold, 3)
               minimumDuration == Default(cfg.minimumDuration, 45)
               healthPoll == Default(cfg.healthPoll, 5)
    <2>1. cfg' = [cfg EXCEPT !.rpcURLs = urls, !.port = port,
                    !.healthCheckPort = healthCheckPort, !.pollInterval = pollInterval,
                    !.threshold = threshold, !.minimumDuration = minimumDuration,
                    !.healthPoll = healthPoll]
      BY <1>1 DEF SetDefaults
    <2>2. urls \in Seq(Url \cup {"malformed"})
      <3>1. <<"default">> \in Seq(Url \cup {"malformed"})
        BY StartupAssumption
      <3> QED
        BY <3>1 DEF StartInv, StartTypeOK, Config
    <2>3. /\ port \in Int /\ healthCheckPort \in Int /\ pollInterval \in Int
          /\ threshold \in Int /\ minimumDuration \in Int /\ healthPoll \in Int
      BY DEF Default, StartInv, StartTypeOK, Config
    <2>4. cfg \in Config
      BY DEF StartInv, StartTypeOK
    <2> HIDE DEF urls, port, healthCheckPort, pollInterval, threshold, minimumDuration,
                 healthPoll
    <2>5. cfg' \in Config /\ cfg'.peers = cfg.peers
      BY <2>1, <2>2, <2>3, <2>4 DEF Config
    <2> QED
      BY <1>1, <2>5 DEF SetDefaults, StartInv, StartTypeOK
  <1>2. CASE LoadIdentities
    BY <1>2 DEF LoadIdentities, StartInv, StartTypeOK
  <1>3. CASE Validate
    <2>1. CASE stage' = "refused"
      BY <1>3, <2>1 DEF Validate, StartInv, StartTypeOK
    <2>2. CASE stage' # "refused"
      <3>1. /\ stage' = "validated" /\ ValidNode /\ ValidFailover
            /\ cfg' = IF cfg.override.enabled /\ cfg.override.value <= 1
                        THEN [cfg EXCEPT !.override = [enabled |-> TRUE, value |-> 2]]
                        ELSE cfg
        BY <1>3, <2>2 DEF Validate
      <3>2. /\ cfg' \in Config /\ cfg'.peers = cfg.peers
            /\ cfg'.override.enabled => cfg'.override.value > 1
        <4>1. cfg \in Config
          BY DEF StartInv, StartTypeOK
        <4>2. CASE ~(cfg.override.enabled /\ cfg.override.value <= 1)
          BY <3>1, <4>1, <4>2 DEF Config
        <4>3. CASE cfg.override.enabled /\ cfg.override.value <= 1
          <5>1. cfg' = [cfg EXCEPT !.override = [enabled |-> TRUE, value |-> 2]]
            BY <3>1, <4>3
          <5> QED
            BY <4>1, <5>1, Corrected
        <4> QED
          BY <3>1, <4>2, <4>3
      <3>3. ConfigSound'
        BY <3>1, <3>2 DEF ConfigSound, ValidNode, ValidFailover, ActiveIdentity,
           PassiveIdentity, Identity, StartInv, StartTypeOK, Config
      <3> QED
        BY <1>3, <3>1, <3>2, <3>3 DEF Validate, StartInv, StartTypeOK
    <2> QED
      BY <2>1, <2>2
  <1>4. CASE RenderRoleCommands
    BY <1>4 DEF RenderRoleCommands, StartInv, StartTypeOK, ConfigSound, ActiveIdentity,
       PassiveIdentity, Identity
  <1> QED
    BY <1>1, <1>2, <1>3, <1>4 DEF Configure

\* Manager.initialize adds an address only if no peer has it.
LEMMA StartInvInitialize ==
    ASSUME StartInv, NEW ip \in Address, Initialize(ip)
    PROVE  StartInv'
  <1> USE DEF GoOn, Accepted, Started, Stages, PanicsKnown
  <1>1. peers = cfg.peers /\ ConfigSound /\ cfg' = cfg /\ listening' = listening
    BY DEF Initialize, StartInv
  <1>2. ConfigSound'
    BY <1>1 DEF ConfigSound, ActiveIdentity, PassiveIdentity, Identity
  <1>3. CASE HasIP(ip)
    BY <1>1, <1>2, <1>3 DEF Initialize, StartInv, StartTypeOK
  <1>4. CASE ~HasIP(ip)
    <2>1. stage' = "initialized" /\ self' = ip /\ peers' = Add(ip)
      BY <1>4 DEF Initialize
    <2>2. Joined'
      BY <1>1, <1>4, <2>1 DEF Joined, HasIP, Add
    <2>3. cfg.name \in Name \cup {NoName}
      BY DEF StartInv, StartTypeOK, Config
    <2>4. /\ DOMAIN peers' \subseteq Name \cup {NoName}
          /\ \A n \in DOMAIN peers' : peers'[n] \in Address
      BY <2>1, <2>3 DEF Add, StartInv, StartTypeOK
    <2> QED
      BY <1>1, <1>2, <2>1, <2>2, <2>4 DEF StartInv, StartTypeOK
  <1> QED
    BY <1>3, <1>4

\* The rest of the start: metrics, servers and tickers.
LEMMA StartInvRun ==
    StartInv /\ (Run \/ \E s \in Servers : Listen(s)) => StartInv'
  <1> SUFFICES ASSUME StartInv, Run \/ \E s \in Servers : Listen(s) PROVE StartInv'
    OBVIOUS
  <1> USE DEF GoOn, Accepted, Started, Stages, PanicsKnown
  <1>1. CASE \E ip \in Address : Initialize(ip)
    BY <1>1, StartInvInitialize
  <1>2. CASE NewManager \/ PublicIPFails
    BY <1>2 DEF NewManager, PublicIPFails, StartInv, StartTypeOK, ConfigSound,
       ActiveIdentity, PassiveIdentity, Identity
  <1>3. CASE StartHealthyTracker \/ StartMonitorLoop
    <2>1. UNCHANGED <<cfg, self, peers, listening>> /\ stage \in Started
      BY <1>3 DEF StartHealthyTracker, StartMonitorLoop, StartTicker
    <2>2. ConfigSound /\ ConfigSound' /\ Joined /\ Joined'
      BY <2>1 DEF StartInv, ConfigSound, Joined, ActiveIdentity, PassiveIdentity, Identity
    <2>3. cfg.pollInterval \in Int /\ cfg.healthPoll \in Int
      BY DEF StartInv, StartTypeOK, Config
    <2>4. stage' \in {"tracking", "running"} \/ (stage' = "panicked" /\ cfg.pollInterval < 0)
      BY <1>3, <2>2, <2>3 DEF StartHealthyTracker, StartMonitorLoop, StartTicker, ConfigSound
    <2> QED
      BY <2>1, <2>2, <2>4 DEF StartInv, StartTypeOK, Joined
  <1>4. CASE \E s \in Servers : Listen(s)
    <2>1. UNCHANGED <<cfg, stage, self, peers>> /\ listening' \in [Servers -> Attempt]
      BY <1>4 DEF Listen, StartInv, StartTypeOK, Attempt
    <2> QED
      BY <2>1 DEF StartInv, StartTypeOK, ConfigSound, Joined, ActiveIdentity,
         PassiveIdentity, Identity
  <1> QED
    BY <1>1, <1>2, <1>3, <1>4 DEF Run, GetPublicIP

\* The conjunction is inductive.
THEOREM StartInvariant == StartSpec => []StartInv
  <1>1. ASSUME StartInv, UNCHANGED startVars PROVE StartInv'
    BY <1>1 DEF startVars, StartInv, StartTypeOK, PanicsKnown, ConfigSound, Joined,
       ActiveIdentity, PassiveIdentity, Identity
  <1>2. StartInv /\ [StartNext]_startVars => StartInv'
    BY <1>1, StartInvConfigure, StartInvRun DEF StartNext
  <1> QED
    BY StartInvInit, <1>2, PTL DEF StartSpec

\* Every variable of the start keeps its type.
THEOREM StartTypeCorrect == StartSpec => []StartTypeOK
  BY StartInvariant, PTL DEF StartInv

\* A node that runs has sound settings, and peers with an address of their own each,
\* itself among them, whatever the configuration: what the managers' model assumes.
THEOREM StartIsSound == StartSpec => []StartedSound
  <1>1. StartInv => StartedSound
    BY DEF StartInv, StartedSound, ConfigSound, Joined, Accepted, Started
  <1> QED
    BY StartInvariant, <1>1, PTL

\* No peer is lost but one that has this node's name.
THEOREM StartKeepsPeers == StartSpec => []PeersKept
  <1>1. StartInv => PeersKept
    BY DEF StartInv, PeersKept, HasIP, Joined
  <1> QED
    BY StartInvariant, <1>1, PTL

\* Only a negative poll interval and a bad label make an accepted configuration panic.
THEOREM StartPanicsKnown == StartSpec => []PanicsKnown
  BY StartInvariant, PTL DEF StartInv
=============================================================================
