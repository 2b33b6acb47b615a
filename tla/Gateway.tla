------------------------------ MODULE Gateway ------------------------------
(***************************************************************************)
(* What the server decides without keeping state: its settings             *)
(* (internal/config/config.go), the routes of the two API modes            *)
(* (cmd/server/main.go), who may use them (middleware/auth.go), and the    *)
(* labels a request is counted under (metrics/metrics.go).                 *)
(*                                                                         *)
(* Strings are reduced to the values the code tells apart.  A number read  *)
(* from the environment is a Setting: unset, not a number, or an integer.  *)
(* An Authorization header is none, "Bearer " with the right or a wrong    *)
(* key, or the right key without that prefix.                              *)
(***************************************************************************)
EXTENDS Integers

Setting == [set : BOOLEAN, parses : BOOLEAN, n : Int]
Environment ==
  [PORT : STRING, API_KEY : STRING, MODE : STRING, TOOL_SESSION_TTL : Setting,
   TOOL_SESSION_MAX_PARKED : Setting, flagPort : STRING, flagMode : STRING]
Credentials == {"none", "bearer-right", "bearer-wrong", "bare-right"}
Request == [path : STRING, method : {"GET", "POST"}, auth : Credentials]

Unset == [set |-> FALSE, parses |-> FALSE, n |-> 0]
Junk == [set |-> TRUE, parses |-> FALSE, n |-> 0]
Value(n) == [set |-> TRUE, parses |-> TRUE, n |-> n]

-----------------------------------------------------------------------------
(* Configuration; durations are in seconds.                                *)

envOrDefault(v, fallback) == IF v = "" THEN fallback ELSE v

\* Any duration that parses is taken, zero and negative ones too.
envDurationOrDefault(v, fallback) ==
  IF v.set /\ v.parses THEN v.n ELSE fallback

envIntOrDefault(v, fallback) ==
  IF v.set /\ v.parses /\ v.n > 0 THEN v.n ELSE fallback

\* The one upper-case spelling stands for all.
ToLower(s) == IF s = "OLLAMA" THEN "ollama" ELSE s

Load(env) ==
  [Port |-> envOrDefault(env.PORT, "8080"),
   APIKey |-> env.API_KEY,
   Mode |-> ToLower(envOrDefault(env.MODE, "openai")),
   ToolSessionTTL |-> envDurationOrDefault(env.TOOL_SESSION_TTL, 600),
   ToolSessionMaxParked |-> envIntOrDefault(env.TOOL_SESSION_MAX_PARKED, 256)]

ApplyFlags(cfg, env) ==
  [cfg EXCEPT !.Mode = IF env.flagMode = "" THEN @ ELSE ToLower(env.flagMode),
              !.Port = envOrDefault(env.flagPort, @)]

Config(env) == ApplyFlags(Load(env), env)

\* Mutant: the registry trusts the configuration.
RegistryAsConfigured(cfg) ==
  [ttl |-> cfg.ToolSessionTTL, maxParked |-> cfg.ToolSessionMaxParked]

\* NewToolSessionRegistry falls back on its own defaults.
Registry(cfg) ==
  [ttl |-> IF cfg.ToolSessionTTL <= 0 THEN 600 ELSE cfg.ToolSessionTTL,
   maxParked |-> IF cfg.ToolSessionMaxParked <= 0 THEN 256
                 ELSE cfg.ToolSessionMaxParked]

\* How often StartGC sweeps: half the TTL, but a minute at least.
GCInterval(registry) ==
  IF registry.ttl \div 2 < 60 THEN 60 ELSE registry.ttl \div 2

-----------------------------------------------------------------------------
(* Routes.                                                                 *)

\* Every mode but "ollama" serves the OpenAI routes.
Serves(cfg) == IF cfg.Mode = "ollama" THEN "ollama" ELSE "openai"

OpenAIRoutes ==
  [p \in {"/metrics", "/healthz", "/v1/chat/completions", "/v1/models"} |->
     CASE p = "/metrics" -> "Metrics"
       [] p = "/healthz" -> "Health"
       [] p = "/v1/chat/completions" -> "ChatCompletions"
       [] p = "/v1/models" -> "Models"]

OllamaRoutes ==
  [p \in {"/metrics", "/", "/api/chat", "/api/generate", "/api/tags",
          "/api/show", "/api/version"} |->
     CASE p = "/metrics" -> "Metrics"
       [] p = "/" -> "Root"
       [] p = "/api/chat" -> "Chat"
       [] p = "/api/generate" -> "Generate"
       [] p = "/api/tags" -> "Tags"
       [] p = "/api/show" -> "Show"
       [] p = "/api/version" -> "Version"]

\* The pattern "/" of Ollama's mode matches whatever no other pattern does.
Route(cfg, path) ==
  IF Serves(cfg) = "ollama"
  THEN IF path \in DOMAIN OllamaRoutes THEN OllamaRoutes[path] ELSE "Root"
  ELSE IF path \in DOMAIN OpenAIRoutes THEN OpenAIRoutes[path] ELSE "NotFound"

authExempt(cfg) ==
  IF Serves(cfg) = "ollama" THEN {"/", "/api/version", "/metrics"}
                            ELSE {"/healthz", "/metrics"}

\* Mutant: the prefix is cut off where it is there, and not asked for.
AuthPrefixOptional(cfg, req) ==
  \/ req.path \in authExempt(cfg)
  \/ cfg.APIKey = ""
  \/ req.auth \in {"bearer-right", "bare-right"}

Auth(cfg, req) ==
  \/ req.path \in authExempt(cfg)
  \/ cfg.APIKey = ""
  \/ req.auth = "bearer-right"

\* The methods a handler takes; Health and Root take any.
Method(handler) ==
  CASE handler \in {"ChatCompletions", "Chat", "Generate", "Show"} -> {"POST"}
    [] handler \in {"Models", "Tags", "Version"} -> {"GET"}
    [] OTHER -> {"GET", "POST"}

\* What a request has to pass before its handler does anything.
Admitted(cfg, req) ==
  LET handler == Route(cfg, req.path) IN
  Auth(cfg, req) /\ handler # "NotFound" /\ req.method \in Method(handler)

TakesBody(handler) == Method(handler) = {"POST"}

\* Mutant: the health check asks the CLI for its models.
ListsForHealth(handler) == handler \in {"Models", "Tags", "Health"}

Lists(handler) == handler \in {"Models", "Tags"}
Converses(handler) == handler \in {"ChatCompletions", "Chat", "Generate"}

-----------------------------------------------------------------------------
(* Request labels.                                                         *)

normalizePath(path) ==
  IF path \in {"/healthz", "/v1/models", "/v1/chat/completions", "/api/chat",
               "/api/generate", "/api/tags", "/api/show", "/api/version"}
  THEN path ELSE "/other"

=============================================================================
