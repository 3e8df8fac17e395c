---------------------------- MODULE MCCreditLedger ----------------------------
(* CreditLedger for TLC. *)
EXTENDS AccountRefinement, TLC

Symmetry == Permutations(Runs) \cup Permutations(Keys)

\* Bound: metered calls and top-ups are explored beside one run, not beside two.
OutsideOneRun ==
    paid # {} \/ (\E c \in Calls : call[c] # "idle")
        => Cardinality({r \in Runs : row[r] # "none" \/ pc[r] \notin {"new", "idle"}}) <= 1

\* Bound: after a shutdown one run waits at gates, the other does not.
OneGateAfterShutdown ==
    drained # {} => \A r, s \in Runs : r # s => gates[r] = 0 \/ gates[s] = 0
=============================================================================
