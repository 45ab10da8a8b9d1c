---------------------------- MODULE MCSelfUpdate ----------------------------
(* Small sets of plans for SelfUpdate.                                     *)
EXTENDS SelfUpdate, TLC

CONSTANTS h1, h2

\* Two updates, each to a version of its own.
MCSuccessive == [p \in Plans |-> p + 1]

\* The same update staged twice, as a repeated UPDATE_AGENT command does.
MCRepeated == [p \in Plans |-> 2]

\* Helper processes are interchangeable.
Interchangeable == Permutations(Helpers)

=============================================================================
