---------------------------- MODULE SkampiSyncMC ----------------------------
EXTENDS SkampiSync

MCSkew == [r \in Rank |-> 5 * r]
=============================================================================
