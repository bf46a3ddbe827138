---------------------------- MODULE MCClientChat ----------------------------
EXTENDS ClientChat

CONSTANTS q1, q2
=============================================================================
