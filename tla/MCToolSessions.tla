--------------------------- MODULE MCToolSessions ---------------------------
(* Model-checking instances of ToolSessions.                               *)
EXTENDS ToolSessions, TLC

\* Handlers, sessions and tokens are told apart by nothing but their names.
\* Only for runs without liveness properties.
Interchangeable ==
  Permutations(Requests) \cup Permutations(Sessions) \cup Permutations(Tokens)

=============================================================================
