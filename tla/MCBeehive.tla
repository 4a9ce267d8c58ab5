----------------------------- MODULE MCBeehive -----------------------------
EXTENDS Beehive
=============================================================================
