---------------------------- MODULE MCPgIntents ----------------------------
EXTENDS PgIntents, TLC

Symmetry == Permutations(Batches) \cup Permutations(Recipients)
=============================================================================
