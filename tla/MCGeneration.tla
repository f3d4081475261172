---------------------------- MODULE MCGeneration ----------------------------
EXTENDS Generation

MCProfiles == {1, 2}
===========================================================================
