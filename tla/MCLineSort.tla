----------------------------- MODULE MCLineSort -----------------------------
EXTENDS LineSort

\* Every list of at most four of three numbers.
MCInputs == UNION {[1..n -> 1..3] : n \in 0..4}
=============================================================================
