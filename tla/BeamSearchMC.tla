---------------------------- MODULE BeamSearchMC ----------------------------
EXTENDS BeamSearch
CONSTANTS t1, t2
=============================================================================
