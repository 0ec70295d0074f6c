---------------------------- MODULE MCSpectator ----------------------------
EXTENDS Spectator
=============================================================================
