---------------------------- MODULE MCSettlement ----------------------------
(***************************************************************************)
(* Instances of Settlement for TLC.                                        *)
(***************************************************************************)
EXTENDS Settlement, TLC

CONSTANTS w1, w2

\* Every scope belongs to the first wallet; the second is a stranger.
MCOwner == [s \in Scopes |-> w1]

=============================================================================
