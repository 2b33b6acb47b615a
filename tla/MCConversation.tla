--------------------------- MODULE MCConversation ---------------------------
(* Model-checking instances of Conversation.                               *)
EXTENDS Conversation, TLC

\* Tokens are random: nothing but their names tells them apart.
Interchangeable == Permutations(Tokens)

=============================================================================
