------------------------------- MODULE MCNEST -------------------------------
EXTENDS NEST
=============================================================================
