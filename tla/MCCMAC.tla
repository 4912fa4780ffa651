------------------------------- MODULE MCCMAC -------------------------------
EXTENDS CMAC
=============================================================================
