---------------------------- MODULE MCConversations ----------------------------
(***************************************************************************)
(* Finite instances of Conversations.                                      *)
(***************************************************************************)
EXTENDS Conversations, TLC

\* Message rows are interchangeable, and so are conversations.
ChatSymmetry == Permutations(Messages) \cup Permutations(Conversations)

==============================================================================
