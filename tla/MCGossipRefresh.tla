--------------------------- MODULE MCGossipRefresh ---------------------------
EXTENDS GossipRefresh

MCPeer == {1, 2}
MCOutsider == {7}
=============================================================================
