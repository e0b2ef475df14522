---------------------------- MODULE MCRPCClient ----------------------------
\* Two public endpoints and, last in the list, the node's own validator; or two
\* URLs of which the first is named twice.
EXTENDS RPCClient

MCUrlLists == {<<"remote1", "remote2", "local">>, <<"remote1", "remote1", "remote2">>}
=============================================================================
