----------------------------- MODULE MCVoteCheck -----------------------------
\* Three accounts: one in use, one to move to, one of somebody else.
EXTENDS VoteCheck

CONSTANTS v1, v2, v3

MCAccount == {v1, v2, v3}
=============================================================================
