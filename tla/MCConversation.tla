---------------------------- MODULE MCConversation ----------------------------
(***************************************************************************)
(* Instances of Conversation for TLC.                                      *)
(***************************************************************************)
EXTENDS Conversation, TLC

\* Requests differ only in their names.
TurnSymmetry == Permutations(Turns)

=============================================================================
