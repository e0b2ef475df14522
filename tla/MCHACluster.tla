---------------------------- MODULE MCHACluster ----------------------------
EXTENDS HACluster

MCTwo == {1, 2}
MCThree == {1, 2, 3}
=============================================================================
