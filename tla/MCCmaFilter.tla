---------------------------- MODULE MCCmaFilter ----------------------------
EXTENDS CmaFilter
=============================================================================
