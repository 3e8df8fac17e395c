--------------------------- MODULE MCFileIntents ---------------------------
(* FileIntents for TLC. *)
EXTENDS FileIntents, TLC

Symmetry == Permutations(Batches) \cup Permutations(Recipients)

Named(k) ==
    \/ led.state[k] # "none" \/ saved.state[k] # "none"
    \/ \E b \in Batches : k \in call[b].keys \/ <<b, k>> \in landed

Restored == led.hold \/ \E b \in Batches : call[b].pc # "idle" /\ led.recipients[b] = {}

\* Bound: backups and restores are explored beside one recipient, not beside two.
RestoresBesideOne ==
    saved # Empty \/ Restored => Cardinality({k \in Keys : Named(k)}) <= 1
=============================================================================
