------------------------------ MODULE MCServer ------------------------------
(* Model-checking instances of Server: environments and requests chosen so *)
(* that every branch of the configuration, of the routes of both modes and *)
(* of the middleware is taken.                                             *)
EXTENDS Server

Env(port, key, mode, ttl, cap, flagPort, flagMode) ==
  [PORT |-> port, API_KEY |-> key, MODE |-> mode, TOOL_SESSION_TTL |-> ttl,
   TOOL_SESSION_MAX_PARKED |-> cap, flagPort |-> flagPort, flagMode |-> flagMode]

MCEnvironments ==
  {Env("", "", "", Unset, Unset, "", ""),
   Env("9090", "", "OLLAMA", Value(-60), Junk, "7070", ""),
   Env("", "k", "ollama", Value(0), Value(0), "", "other"),
   Env("9090", "k", "other", Junk, Value(8), "", "OLLAMA")}

Get(path, auth) == [path |-> path, method |-> "GET", auth |-> auth]
Post(path, auth) == [path |-> path, method |-> "POST", auth |-> auth]

MCShapes ==
  {Get("/healthz", "none"), Get("/metrics", "none"), Get("/", "none"),
   Get("/v1/models", "bearer-right"), Get("/v1/models", "bare-right"),
   Post("/v1/chat/completions", "none"), Post("/api/chat", "bearer-right"),
   Get("/api/tags", "bearer-right"), Post("/api/tags", "bearer-wrong"),
   Post("/api/show", "bearer-right")}

=============================================================================
