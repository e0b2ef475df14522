----------------------------- MODULE MCStartup -----------------------------
\* A good configuration, and every one that differs from it in up to two fields.
EXTENDS Startup

MCName == {"a", "b", "c"}
MCHost == {"h1", "h2", "h3"}
MCKey == {"active", "passive"}
MCUrl == {"default", "remote"}

Dotted(h) == [host |-> h, form |-> "dotted"]
Mapped(h) == [host |-> h, form |-> "mapped"]

Good ==
    [name |-> "a", activeFile |-> "active", activePubkey |-> "none",
     passiveFile |-> "none", passivePubkey |-> "passive",
     cluster |-> "mainnet-beta", rpcURLs |-> <<"remote">>,
     labels |-> {"custom"}, port |-> 0, healthCheckPort |-> 0,
     pollInterval |-> 0, threshold |-> 1, minimumDuration |-> 1, healthPoll |-> 1,
     override |-> [enabled |-> FALSE, value |-> 0],
     peers |-> [n \in {"b", "c"} |-> IF n = "b" THEN Dotted("h2") ELSE Dotted("h3")],
     malformed |-> {}]

Values ==
    [name |-> {"b", NoName}, activeFile |-> {"none", "unreadable"},
     activePubkey |-> {"passive"}, passiveFile |-> {"active", "passive"},
     passivePubkey |-> {"none", "active"}, cluster |-> {"unknown"},
     rpcURLs |-> {<<>>, <<"remote", "malformed">>, <<"remote", "remote">>},
     labels |-> {{}, {"status"}, {"custom", "malformed"}}, port |-> {-1, 9091, 65536}, healthCheckPort |-> {-1, 9090},
     pollInterval |-> {-1, 1}, threshold |-> {-1, 0}, minimumDuration |-> {-1, 0},
     healthPoll |-> {-1, 0},
     override |-> {[enabled |-> TRUE, value |-> 0], [enabled |-> TRUE, value |-> 2]},
     peers |-> {[n \in {} |-> Dotted("h1")],
                [n \in {"a"} |-> Dotted("h2")],
                [n \in {"b", "c"} |-> Dotted("h2")],
                [n \in {"b", "c"} |-> IF n = "b" THEN Dotted("h2") ELSE Mapped("h2")],
                [n \in {"b"} |-> [host |-> "h2", form |-> "invalid"]]},
     malformed |-> {{p} : p \in Part}]

Field == DOMAIN Good

Vary(configs) ==
    UNION {{[c EXCEPT ![f] = v] : v \in Values[f]} : c \in configs, f \in Field}

MCConfigs == {Good} \cup Vary({Good}) \cup Vary(Vary({Good}))
=============================================================================
