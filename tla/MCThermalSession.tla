-------------------------- MODULE MCThermalSession --------------------------
EXTENDS ThermalSession
=============================================================================
