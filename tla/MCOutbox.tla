------------------------------ MODULE MCOutbox ------------------------------
(* Outbox with a few messages and keys.                                    *)
EXTENDS Outbox, TLC

\* Messages are told apart by nothing but their state; keys are ordered.
Symmetry == Permutations(Msgs)
=============================================================================
