--------------------------- MODULE Server_proofs ---------------------------
(***************************************************************************)
(* Proofs about Server, for every set of connections, requests and         *)
(* environments.                                                           *)
(***************************************************************************)
EXTENDS Server, FiniteSetTheorems, TLAPS

\* What is known of a request where it is: it was read when the middleware
\* runs, it has its status from the handler's answer on, and only metered
\* requests are left to be counted.
RequestOK ==
  \A c \in Conns :
    /\ pc[c] \in {"routing", "locking", "listing", "turn", "answered", "counted"}
         => request[c] \in Shapes
    /\ pc[c] \in {"absent", "connected", "routing", "locking", "listing", "turn"}
         => code[c] = 0
    /\ pc[c] \in {"answered", "counted"}
         => code[c] \in Codes /\ request[c].path # "/metrics"

WellFormed == TypeOK /\ RequestOK /\ GaugeExact

MeteredConns == {c \in Conns : Metered(c)}

-----------------------------------------------------------------------------
(* The gauge.                                                              *)

\* Between Inc and Dec there is a finite number of requests.
LEMMA MeteredFinite ==
  /\ IsFiniteSet(MeteredConns)
  /\ Cardinality(MeteredConns) \in Nat
<1>1. MeteredConns \subseteq Conns
  BY DEF MeteredConns
<1> QED
  BY <1>1, ServerAssumption, FS_Subset, FS_CardinalityType

\* A step that moves no request across Inc or Dec keeps the gauge exact.
LEMMA GaugeKept ==
  ASSUME GaugeExact, phase' = phase, inFlight' = inFlight,
         \A c \in Conns : Metered(c)' <=> Metered(c)
  PROVE  GaugeExact'
<1>1. MeteredConns' = MeteredConns
  BY DEF MeteredConns
<1> QED
  BY <1>1 DEF GaugeExact, MeteredConns, Alive

\* Inc, when one request becomes metered.
LEMMA GaugeInc ==
  ASSUME GaugeExact, Alive, NEW c \in Conns, ~Metered(c), Metered(c)',
         inFlight' = inFlight + 1,
         \A d \in Conns \ {c} : Metered(d)' <=> Metered(d)
  PROVE  GaugeExact'
<1>1. MeteredConns' = MeteredConns \cup {c} /\ c \notin MeteredConns
  BY DEF MeteredConns
<1>2. Cardinality(MeteredConns') = Cardinality(MeteredConns) + 1
  BY <1>1, MeteredFinite, FS_AddElement
<1> QED
  BY <1>2 DEF GaugeExact, MeteredConns

\* Dec, when one metered request leaves: the gauge was positive.
LEMMA GaugeDec ==
  ASSUME GaugeExact, Alive, NEW c \in Conns, Metered(c), ~Metered(c)',
         inFlight' = inFlight - 1,
         \A d \in Conns \ {c} : Metered(d)' <=> Metered(d)
  PROVE  GaugeExact' /\ inFlight' \in Nat
<1>1. MeteredConns' = MeteredConns \ {c} /\ c \in MeteredConns
  BY DEF MeteredConns
<1>2. /\ Cardinality(MeteredConns') = Cardinality(MeteredConns) - 1
      /\ IsFiniteSet(MeteredConns')
  BY <1>1, MeteredFinite, FS_RemoveElement
<1>3. Cardinality(MeteredConns') \in Nat
  BY <1>2, FS_CardinalityType
<1> QED
  BY <1>2, <1>3 DEF GaugeExact, MeteredConns

-----------------------------------------------------------------------------
(* Types.                                                                  *)

\* The steps of main and of the listening goroutine leave every request as it
\* is, unless they end the process.
LEMMA ProcessStep ==
  ASSUME Main \/ Listening
  PROVE  \/ UNCHANGED <<environment, serving, exit>> /\ Alive /\ Alive'
         \/ \E how \in {"ok", "error", "killed"} : Exit(how) /\ UNCHANGED <<cli, overdue>>
BY DEF Main, Listening, StartClient, StartFails, Notify, Killed, Signal, Drained,
   Deadline, StopClient, MainReturns, Listen, Bound, ListenFails, Alive

\* They leave the process well typed.
LEMMA ProcessTypes ==
  ASSUME TypeOK, Main \/ Listening
  PROVE  /\ phase' \in {"starting", "launching", "running", "draining",
                        "stopping", "exited"}
         /\ cli' \in {"down", "up", "stopped"}
         /\ listener' \in {"new", "binding", "open", "closed"}
         /\ overdue' \in BOOLEAN
<1> USE DEF TypeOK
<1>1. CASE StartClient \/ Notify \/ Signal \/ Drained \/ Deadline \/ StopClient
  BY <1>1 DEF StartClient, Notify, Signal, Drained, Deadline, StopClient
<1>2. CASE StartFails \/ Killed \/ MainReturns \/ ListenFails
  BY <1>2 DEF StartFails, Killed, MainReturns, ListenFails, Exit
<1>3. CASE Listen \/ Bound
  BY <1>3 DEF Listen, Bound
<1> QED
  BY <1>1, <1>2, <1>3 DEF Main, Listening

\* The end of the process leaves what it cuts off well formed.
LEMMA ExitKeeps ==
  ASSUME WellFormed, NEW how \in {"ok", "error", "killed"}, Exit(how),
         UNCHANGED <<cli, overdue>>
  PROVE  WellFormed'
BY DEF WellFormed, TypeOK, RequestOK, GaugeExact, Exit, Alive, Open, PCs

\* A request that is on its way out of the handler is metered or already done.
LEMMA AnswerKeeps ==
  ASSUME TypeOK, RequestOK, NEW c \in Conns, NEW status \in Codes,
         pc[c] \in {"routing", "locking", "listing", "turn"}, Answer(c, status),
         UNCHANGED request
  PROVE  /\ pc' \in [Conns -> PCs] /\ code' \in [Conns -> Codes \cup {0}]
         /\ pc'[c] \in {"done", "answered"}
         /\ \A d \in Conns \ {c} : pc'[d] = pc[d] /\ code'[d] = code[d]
         /\ RequestOK'
         /\ \A d \in Conns : Metered(d)' <=> Metered(d)
<1> USE DEF TypeOK, RequestOK, PCs, Answer, Step
<1>1. CASE request[c].path = "/metrics"
  BY <1>1 DEF Metered
<1>2. CASE request[c].path # "/metrics"
  BY <1>2 DEF Metered
<1> QED
  BY <1>1, <1>2

\* Every reachable state is well typed; a request is metered exactly while the
\* gauge counts it, and carries what its position says.
LEMMA WellFormedStep ==
  ASSUME WellFormed, [Next]_vars
  PROVE  WellFormed'
<1> USE DEF WellFormed
<1>1. CASE Main \/ Listening
  <2>1. CASE UNCHANGED <<environment, serving, exit>> /\ Alive /\ Alive'
    <3>1. /\ phase' \in {"starting", "launching", "running", "draining",
                       "stopping", "exited"}
          /\ cli' \in {"down", "up", "stopped"}
          /\ listener' \in {"new", "binding", "open", "closed"}
          /\ overdue' \in BOOLEAN
      BY <1>1, <2>1, ProcessTypes
    <3>2. TypeOK'
      BY <2>1, <3>1 DEF TypeOK, serving
    <3>3. RequestOK'
      BY <2>1 DEF RequestOK, serving
    <3>4. MeteredConns' = MeteredConns
      BY <2>1 DEF MeteredConns, Metered, serving
    <3> QED
      BY <2>1, <3>2, <3>3, <3>4 DEF GaugeExact, MeteredConns, serving
  <2> QED
    BY <1>1, <2>1, ProcessStep, ExitKeeps
<1>2. ASSUME NEW c \in Conns, Accept(c)
     PROVE  WellFormed'
  <2> USE <1>2 DEF Accept, Step, process
  <2>1. TypeOK'
    BY ServerAssumption DEF TypeOK, RequestOK, PCs, Labels, Codes
  <2>2. RequestOK'
    BY ServerAssumption DEF TypeOK, RequestOK
  <2>3. \A d \in Conns : Metered(d)' <=> Metered(d)
    BY DEF TypeOK, Metered
  <2> QED
    BY <2>1, <2>2, <2>3, GaugeKept
<1>3. ASSUME NEW c \in Conns, CloseIdle(c)
     PROVE  WellFormed'
  <2> USE <1>3 DEF CloseIdle, Step, process
  <2>1. TypeOK'
    BY ServerAssumption DEF TypeOK, RequestOK, PCs, Labels, Codes
  <2>2. RequestOK'
    BY ServerAssumption DEF TypeOK, RequestOK
  <2>3. \A d \in Conns : Metered(d)' <=> Metered(d)
    BY DEF TypeOK, Metered
  <2> QED
    BY <2>1, <2>2, <2>3, GaugeKept
<1>4. ASSUME NEW c \in Conns, Arrive(c)
     PROVE  WellFormed'
  <2> USE <1>4 DEF Arrive, Step, process
  <2>1. TypeOK'
    BY ServerAssumption DEF TypeOK, PCs
  <2>2. RequestOK'
    BY DEF TypeOK, RequestOK
  <2>3. /\ ~Metered(c)
        /\ \A d \in Conns \ {c} : Metered(d)' <=> Metered(d)
    BY DEF TypeOK, Metered
  <2>4. CASE request'[c].path = "/metrics"
    <3>1. inFlight' = inFlight /\ ~Metered(c)'
      BY <2>4 DEF TypeOK, Metered
    <3> QED
      BY <2>1, <2>2, <2>3, <3>1, GaugeKept
  <2>5. CASE request'[c].path # "/metrics"
    <3>1. inFlight' = inFlight + 1 /\ Metered(c)'
      BY <2>5 DEF TypeOK, Metered
    <3> QED
      BY <2>1, <2>2, <2>3, <3>1, GaugeInc
  <2> QED
    BY <2>4, <2>5
<1>5. ASSUME NEW c \in Conns, Dispatch(c)
     PROVE  WellFormed'
  <2>1. /\ pc[c] = "routing"
        /\ UNCHANGED <<request, gone, mutex, inFlight, tally>>
        /\ UNCHANGED process
    BY <1>5 DEF Dispatch
  <2>2. CASE \E status \in Codes : Answer(c, status)
    <3>1. TypeOK'
      BY <2>1, <2>2, AnswerKeeps DEF TypeOK, process
    <3> QED
      BY <2>1, <2>2, <3>1, AnswerKeeps, GaugeKept DEF process
  <2>3. CASE UNCHANGED code /\ (Step(c, "locking") \/ Step(c, "turn"))
    <3>1. TypeOK' /\ RequestOK'
      BY <2>1, <2>3 DEF TypeOK, RequestOK, Step, PCs, process
    <3>2. \A d \in Conns : Metered(d)' <=> Metered(d)
      BY <2>1, <2>3 DEF TypeOK, Metered, Step
    <3> QED
      BY <2>1, <3>1, <3>2, GaugeKept DEF process
  <2> QED
    BY <1>5, <2>2, <2>3 DEF Dispatch, Codes
<1>6. ASSUME NEW c \in Conns, Lock(c)
     PROVE  WellFormed'
  <2> USE <1>6 DEF Lock, Step, process
  <2>1. TypeOK'
    BY ServerAssumption DEF TypeOK, RequestOK, PCs, Labels, Codes
  <2>2. RequestOK'
    BY ServerAssumption DEF TypeOK, RequestOK
  <2>3. \A d \in Conns : Metered(d)' <=> Metered(d)
    BY DEF TypeOK, Metered
  <2> QED
    BY <2>1, <2>2, <2>3, GaugeKept
<1>7. ASSUME NEW c \in Conns, ListFails(c)
     PROVE  WellFormed'
  <2>1. PICK status \in Codes : Answer(c, status)
    BY <1>7 DEF ListFails, Codes
  <2>2. /\ pc[c] \in {"routing", "locking", "listing", "turn"}
        /\ UNCHANGED <<request, gone, inFlight, tally>>
        /\ UNCHANGED process
        /\ mutex' \in {mutex, NoConn}
        /\ mutex' # mutex => pc[c] = "listing"
    BY <1>7 DEF ListFails
  <2>3. TypeOK'
    BY <2>1, <2>2, AnswerKeeps, ServerAssumption DEF TypeOK, process
  <2> QED
    BY <2>1, <2>2, <2>3, AnswerKeeps, GaugeKept DEF process
<1>8. ASSUME NEW c \in Conns, ListReturns(c)
     PROVE  WellFormed'
  <2>1. PICK status \in Codes : Answer(c, status)
    BY <1>8 DEF ListReturns, Codes
  <2>2. /\ pc[c] \in {"routing", "locking", "listing", "turn"}
        /\ UNCHANGED <<request, gone, inFlight, tally>>
        /\ UNCHANGED process
        /\ mutex' \in {mutex, NoConn}
        /\ mutex' # mutex => pc[c] = "listing"
    BY <1>8 DEF ListReturns
  <2>3. TypeOK'
    BY <2>1, <2>2, AnswerKeeps, ServerAssumption DEF TypeOK, process
  <2> QED
    BY <2>1, <2>2, <2>3, AnswerKeeps, GaugeKept DEF process
<1>9. ASSUME NEW c \in Conns, TurnEnds(c)
     PROVE  WellFormed'
  <2>1. PICK status \in Codes : Answer(c, status)
    BY <1>9 DEF TurnEnds, Codes
  <2>2. /\ pc[c] \in {"routing", "locking", "listing", "turn"}
        /\ UNCHANGED <<request, gone, inFlight, tally>>
        /\ UNCHANGED process
        /\ mutex' \in {mutex, NoConn}
        /\ mutex' # mutex => pc[c] = "listing"
    BY <1>9 DEF TurnEnds
  <2>3. TypeOK'
    BY <2>1, <2>2, AnswerKeeps, ServerAssumption DEF TypeOK, process
  <2> QED
    BY <2>1, <2>2, <2>3, AnswerKeeps, GaugeKept DEF process
<1>10. ASSUME NEW c \in Conns, Count(c)
     PROVE  WellFormed'
  <2> USE <1>10 DEF Count, Step, process
  <2>1. TypeOK'
    BY ServerAssumption DEF TypeOK, RequestOK, PCs, Labels, Codes
  <2>2. RequestOK'
    BY ServerAssumption DEF TypeOK, RequestOK
  <2>3. \A d \in Conns : Metered(d)' <=> Metered(d)
    BY DEF TypeOK, Metered
  <2> QED
    BY <2>1, <2>2, <2>3, GaugeKept
<1>11. ASSUME NEW c \in Conns, Leave(c)
     PROVE  WellFormed'
  <2> USE <1>11 DEF Leave, Step, process
  <2>1. /\ Metered(c) /\ ~Metered(c)'
        /\ \A d \in Conns \ {c} : Metered(d)' <=> Metered(d)
    BY DEF TypeOK, RequestOK, Metered
  <2>2. GaugeExact' /\ inFlight' \in Nat
    BY <2>1, GaugeDec
  <2>3. TypeOK' /\ RequestOK'
    BY <2>2 DEF TypeOK, RequestOK, PCs
  <2> QED
    BY <2>2, <2>3
<1>12. ASSUME NEW c \in Conns, HangUp(c)
     PROVE  WellFormed'
  <2> USE <1>12 DEF HangUp, Step, process
  <2>1. TypeOK'
    BY ServerAssumption DEF TypeOK, RequestOK, PCs, Labels, Codes
  <2>2. RequestOK'
    BY ServerAssumption DEF TypeOK, RequestOK
  <2>3. \A d \in Conns : Metered(d)' <=> Metered(d)
    BY DEF TypeOK, Metered
  <2> QED
    BY <2>1, <2>2, <2>3, GaugeKept
<1>13. CASE UNCHANGED vars
  <2>1. TypeOK' /\ RequestOK'
    BY <1>13 DEF vars, TypeOK, RequestOK
  <2>2. MeteredConns' = MeteredConns
    BY <1>13 DEF vars, MeteredConns, Metered
  <2> QED
    BY <1>13, <2>1, <2>2 DEF vars, GaugeExact, MeteredConns, Alive
<1> QED
  BY <1>1, <1>2, <1>3, <1>4, <1>5, <1>6, <1>7, <1>8, <1>9, <1>10, <1>11, <1>12, <1>13 DEF Next, Proceed, External

\* So it holds in every state the server reaches.
LEMMA WellFormedAlways == Spec => []WellFormed
<1>1. Init => WellFormed
  <2> SUFFICES ASSUME Init PROVE WellFormed
    OBVIOUS
  <2>1. TypeOK /\ RequestOK
    BY DEF Init, TypeOK, RequestOK, PCs
  <2>2. {c \in Conns : Metered(c)} = {}
    BY DEF Init, Metered
  <2> QED
    BY <2>1, <2>2, FS_EmptySet DEF Init, WellFormed, GaugeExact
<1> QED
  BY <1>1, WellFormedStep, PTL DEF Spec

\* Whatever the number of connections and the environment, every reachable state
\* is well typed, and a listing under way holds the client's mutex.
THEOREM TypeCorrect == Spec => []TypeOK
<1>1. WellFormed => TypeOK
  BY DEF WellFormed
<1> QED
  BY <1>1, WellFormedAlways, PTL

\* Whatever the number of connections, http_requests_in_flight is the number of
\* requests between the middleware's Inc and its Dec.
THEOREM GaugeCorrect == Spec => []GaugeExact
<1>1. WellFormed => GaugeExact
  BY DEF WellFormed
<1> QED
  BY <1>1, WellFormedAlways, PTL

-----------------------------------------------------------------------------
(* Settings.                                                               *)

\* Whatever the environment holds, NewToolSessionRegistry and StartGC have a
\* positive TTL, cap and interval: no junk, zero or negative setting reaches
\* time.NewTicker or the expiry test.
THEOREM SettingsCorrect == Spec => []SettingsUsable
<1>1. TypeOK => SettingsUsable
  <2> SUFFICES ASSUME TypeOK PROVE SettingsUsable
    OBVIOUS
  <2>1. environment \in Environment
    BY ServerAssumption DEF TypeOK
  <2>2. /\ environment.TOOL_SESSION_TTL \in Setting
        /\ environment.TOOL_SESSION_MAX_PARKED \in Setting
    BY <2>1 DEF Environment
  <2>3. config.ToolSessionTTL \in Int /\ config.ToolSessionMaxParked \in Int
    BY <2>2 DEF config, Config, ApplyFlags, Load, envDurationOrDefault,
       envIntOrDefault, Setting
  <2>4. /\ Registry(config).ttl \in Int /\ Registry(config).ttl > 0
        /\ Registry(config).maxParked > 0
    BY <2>3 DEF Registry
  <2>5. GCInterval(Registry(config)) > 0
    BY <2>4 DEF GCInterval
  <2> QED
    BY <2>4, <2>5 DEF SettingsUsable
<1> QED
  BY <1>1, TypeCorrect, PTL

-----------------------------------------------------------------------------
(* Authentication.                                                         *)

\* No exempt path of either mode reaches a session or the model list.
LEMMA ExemptHarmless ==
  ASSUME NEW cfg, NEW path \in authExempt(cfg)
  PROVE  ~Lists(Route(cfg, path)) /\ ~Converses(Route(cfg, path))
<1>1. CASE Serves(cfg) = "ollama"
  <2>1. Route(cfg, path) \in {"Root", "Version", "Metrics"}
    BY <1>1 DEF authExempt, Route, OllamaRoutes
  <2> QED
    BY <2>1 DEF Lists, Converses
<1>2. CASE Serves(cfg) # "ollama"
  <2>1. Route(cfg, path) \in {"Health", "Metrics"}
    BY <1>2 DEF authExempt, Route, OpenAIRoutes
  <2> QED
    BY <2>1 DEF Lists, Converses
<1> QED
  BY <1>1, <1>2

\* What auth refuses has no key and asks for no metrics.
LEMMA RefusedIsKeyed ==
  ASSUME NEW cfg, NEW req, ~Auth(cfg, req)
  PROVE  /\ cfg.APIKey # "" /\ req.auth # "bearer-right"
         /\ req.path # "/metrics"
BY DEF Auth, authExempt

\* The environment is read once, so what a request lacks is settled by what it
\* is.
LEMMA KeylessKept ==
  ASSUME [Next]_vars, NEW c \in Conns, request'[c] = request[c]
  PROVE  Keyless(c)' <=> Keyless(c)
<1>1. environment' = environment
  <2>1. CASE Main \/ Listening
    BY <2>1, ProcessStep DEF Exit
  <2>2. ASSUME NEW d \in Conns, Proceed(d) \/ External(d)
        PROVE  UNCHANGED process
    BY <2>2 DEF Proceed, External, Accept, CloseIdle, Arrive, Dispatch, Lock,
       ListFails, ListReturns, TurnEnds, Count, Leave, HangUp
  <2> QED
    BY <2>1, <2>2 DEF Next, vars, process
<1>2. config' = config
  BY <1>1 DEF config, Config, ApplyFlags, Load
<1> QED
  BY <1>2 DEF Keyless

\* Both modes, every environment, any number of clients: nobody without the
\* key gets past the middleware to a session or the model list, nobody is
\* refused who holds it or asks for the metrics.
THEOREM KeyCorrect == Spec => []KeyDecides
<1>1. Init => KeyDecides
  BY DEF Init, KeyDecides
<1>2. WellFormed /\ KeyDecides /\ [Next]_vars => KeyDecides'
  <2> SUFFICES ASSUME WellFormed, KeyDecides, [Next]_vars, NEW d \in Conns
               PROVE  /\ pc'[d] \in {"locking", "listing", "turn"} => ~Keyless(d)'
                      /\ code'[d] = 401 => Keyless(d)' /\ request'[d].path # "/metrics"
    BY DEF KeyDecides
  <2>1. /\ pc[d] \in {"locking", "listing", "turn"} => ~Keyless(d)
        /\ code[d] = 401 => Keyless(d) /\ request[d].path # "/metrics"
    BY DEF KeyDecides
  <2>2. request'[d] = request[d] => (Keyless(d)' <=> Keyless(d))
    BY KeylessKept
  <2>3. /\ pc \in [Conns -> PCs] /\ code \in [Conns -> Codes \cup {0}]
        /\ request \in [Conns -> Shapes \cup {NoRequest}]
    BY DEF WellFormed, TypeOK
  <2>4. CASE Main \/ Listening
    <3>1. /\ request' = request /\ code' = code
          /\ pc'[d] \in {pc[d], "cut"}
      BY <2>3, <2>4, ProcessStep DEF serving, Exit
    <3> QED
      BY <2>1, <2>2, <3>1
  <2>5. ASSUME NEW c \in Conns, Arrive(c)
        PROVE  /\ pc'[d] \in {"locking", "listing", "turn"} => ~Keyless(d)'
               /\ code'[d] = 401 => Keyless(d)' /\ request'[d].path # "/metrics"
    <3>1. CASE c = d
      <4>1. pc'[d] = "routing" /\ code'[d] = 0
        BY <2>3, <2>5, <3>1 DEF Arrive, Step, WellFormed, RequestOK
      <4> QED
        BY <4>1
    <3>2. CASE c # d
      BY <2>1, <2>2, <2>3, <2>5, <3>2 DEF Arrive, Step
    <3> QED
      BY <3>1, <3>2
  <2>6. ASSUME NEW c \in Conns, Dispatch(c)
        PROVE  /\ pc'[d] \in {"locking", "listing", "turn"} => ~Keyless(d)'
               /\ code'[d] = 401 => Keyless(d)' /\ request'[d].path # "/metrics"
    <3>1. request' = request /\ (Keyless(d)' <=> Keyless(d))
      BY <2>2, <2>6 DEF Dispatch
    <3>2. CASE c # d
      BY <2>1, <2>3, <2>6, <3>1, <3>2 DEF Dispatch, Answer, Step
    <3>3. CASE c = d /\ ~Auth(config, request[c]) /\ Answer(c, 401)
      <4>1. Keyless(d) /\ request[d].path # "/metrics"
        BY <3>3, RefusedIsKeyed DEF Keyless
      <4>2. pc'[d] \in {"done", "answered"}
        BY <2>3, <3>3 DEF Answer, Step
      <4> QED
        BY <3>1, <4>1, <4>2
    <3>4. CASE c = d /\ \E status \in {200, 400, 404, 405} : Answer(c, status)
      <4>1. pc'[d] \in {"done", "answered"} /\ code'[d] # 401
        BY <2>3, <3>4 DEF Answer, Step
      <4> QED
        BY <4>1
    <3>5. CASE /\ c = d /\ Admitted(config, request[c])
               /\ \/ Lists(Route(config, request[c].path))
                  \/ Converses(Route(config, request[c].path))
               /\ UNCHANGED code
      <4>1. config.APIKey = "" \/ request[d].auth = "bearer-right"
        BY <3>5, ExemptHarmless DEF Admitted, Auth
      <4> QED
        BY <2>1, <3>1, <3>5, <4>1 DEF Keyless
    <3> QED
      BY <2>6, <3>2, <3>3, <3>4, <3>5 DEF Dispatch
  <2>7. ASSUME NEW c \in Conns, ListFails(c) \/ ListReturns(c) \/ TurnEnds(c)
        PROVE  /\ pc'[d] \in {"locking", "listing", "turn"} => ~Keyless(d)'
               /\ code'[d] = 401 => Keyless(d)' /\ request'[d].path # "/metrics"
    <3>1. request' = request /\ \E status \in {200, 500} : Answer(c, status)
      BY <2>7 DEF ListFails, ListReturns, TurnEnds
    <3>2. \/ pc'[d] = pc[d] /\ code'[d] = code[d]
          \/ pc'[d] \in {"done", "answered"} /\ code'[d] # 401
      BY <2>3, <3>1 DEF Answer, Step
    <3> QED
      BY <2>1, <2>2, <3>1, <3>2
  <2>8. ASSUME NEW c \in Conns,
               Accept(c) \/ CloseIdle(c) \/ Lock(c) \/ Count(c) \/ Leave(c) \/ HangUp(c)
        PROVE  /\ pc'[d] \in {"locking", "listing", "turn"} => ~Keyless(d)'
               /\ code'[d] = 401 => Keyless(d)' /\ request'[d].path # "/metrics"
    <3>1. /\ request' = request /\ code' = code
          /\ \/ pc'[d] = pc[d]
             \/ pc[d] = "locking" /\ pc'[d] = "listing"
             \/ pc'[d] \in {"connected", "counted", "done"}
      BY <2>3, <2>8 DEF Accept, CloseIdle, Lock, Count, Leave, HangUp, Step
    <3> QED
      BY <2>1, <2>2, <3>1
  <2>9. CASE UNCHANGED vars
    BY <2>1, <2>2, <2>9 DEF vars
  <2> QED
    BY <2>4, <2>5, <2>6, <2>7, <2>8, <2>9 DEF Next, Proceed, External
<1> QED
  BY <1>1, <1>2, WellFormedAlways, PTL DEF Spec

-----------------------------------------------------------------------------
(* Shutdown.                                                               *)

\* What a shutdown rests on.  OrderlyExit speaks of the end only; inductive is
\* that the listener is shut while connections drain, and that main stops the
\* CLI with the connections drained or the 30 seconds over.
Draining ==
  /\ exit = "ok" => phase = "exited"
  /\ phase = "starting" => listener = "new"
  /\ phase \in {"draining", "stopping"} => listener # "open"
  /\ phase # "exited" => \A c \in Conns : pc[c] # "cut"
  /\ phase = "stopping" => overdue \/ \A c \in Conns : ~Open(c)
  /\ OrderlyExit

\* A step of a request opens no connection once the listener is shut.
LEMMA RequestStep ==
  ASSUME TypeOK, NEW c \in Conns, Proceed(c) \/ External(c)
  PROVE  /\ UNCHANGED process /\ Alive
         /\ \A d \in Conns : pc'[d] = "cut" => pc[d] = "cut"
         /\ listener # "open" => \A d \in Conns : Open(d)' => Open(d)
<1> USE DEF TypeOK, PCs, Step
<1>1. CASE Accept(c)
  BY <1>1 DEF Accept, Open
<1>2. CASE CloseIdle(c) \/ Arrive(c) \/ Lock(c) \/ Count(c) \/ Leave(c)
  BY <1>2 DEF CloseIdle, Arrive, Lock, Count, Leave, Open
<1>3. CASE ListFails(c) \/ ListReturns(c) \/ TurnEnds(c)
  BY <1>3 DEF ListFails, ListReturns, TurnEnds, Answer, Open
<1>4. CASE Dispatch(c)
  BY <1>4 DEF Dispatch, Answer, Open
<1>5. CASE HangUp(c)
  BY <1>5 DEF HangUp, Open
<1> QED
  BY <1>1, <1>2, <1>3, <1>4, <1>5 DEF Proceed, External

\* Every step keeps it: the listener is shut before the drain begins, and the
\* CLI is stopped only after the drain or the deadline.
LEMMA DrainingStep ==
  ASSUME TypeOK, Draining, [Next]_vars
  PROVE  Draining'
<1> USE DEF Draining, OrderlyExit
<1>1. CASE StartClient \/ Notify \/ Signal \/ Drained \/ Deadline \/ StopClient
  BY <1>1 DEF TypeOK, StartClient, Notify, Signal, Drained, Deadline, StopClient,
     Open, serving
<1>2. ASSUME NEW how \in {"error", "killed"}, Exit(how), UNCHANGED <<cli, overdue>>
      PROVE  Draining'
  BY <1>2 DEF Exit
<1>3. CASE MainReturns
  <2>1. /\ phase' = "exited" /\ cli' = "stopped" /\ listener' = "closed"
        /\ overdue' = overdue
        /\ overdue \/ \A c \in Conns : ~Open(c)
    BY <1>3 DEF MainReturns, Exit
  <2>2. (\A c \in Conns : ~Open(c)) => \A c \in Conns : pc'[c] # "cut"
    BY <1>3 DEF MainReturns, Exit
  <2> QED
    BY <2>1, <2>2
<1>4. CASE Listen \/ Bound
  BY <1>4 DEF Listen, Bound, Open, serving, Alive
<1>5. ASSUME NEW c \in Conns, Proceed(c) \/ External(c)
      PROVE  Draining'
  BY <1>5, RequestStep DEF process, Alive
<1>6. CASE UNCHANGED vars
  BY <1>6 DEF vars, Open
<1>7. CASE StartFails \/ Killed \/ ListenFails
  BY <1>2, <1>7 DEF StartFails, Killed, ListenFails
<1> QED
  BY <1>1, <1>3, <1>4, <1>5, <1>6, <1>7 DEF Next, Main, Listening

\* So it holds from main's start to its end.
LEMMA DrainingAlways == Spec => []Draining
<1>1. Init => Draining
  BY DEF Init, Draining, OrderlyExit
<1>2. TypeOK /\ Draining /\ [Next]_vars => Draining'
  BY DrainingStep
<1> QED
  BY <1>1, <1>2, TypeCorrect, PTL DEF Spec

\* A server that ends in order has stopped the CLI, and has cut off nobody
\* unless the 30 seconds were over, whenever the signal came.
THEOREM ExitCorrect == Spec => []OrderlyExit
<1>1. Draining => OrderlyExit
  BY DEF Draining
<1> QED
  BY <1>1, DrainingAlways, PTL

\* No interleaving of the signal with the binding of the port lets a connection
\* in once the shutdown has begun.
THEOREM ShutdownCorrect == Spec => NoAcceptWhileDraining
<1>1. TypeOK /\ Draining /\ [Next]_vars
        => [\A c \in Conns : pc[c] = "absent" /\ pc'[c] = "connected"
                               => phase \in {"launching", "running"}]_vars
  <2> SUFFICES ASSUME TypeOK, Draining, Next, NEW c \in Conns,
                      pc[c] = "absent", pc'[c] = "connected"
               PROVE  phase \in {"launching", "running"}
    OBVIOUS
  <2>1. ~(Main \/ Listening)
    BY ProcessStep DEF Exit, serving, TypeOK, Open
  <2>2. PICK d \in Conns : Proceed(d) \/ External(d)
    BY <2>1 DEF Next
  <2>3. Accept(d)
    BY <2>2 DEF Proceed, External, Step, Answer, TypeOK, CloseIdle, Arrive,
       Dispatch, Lock, ListFails, ListReturns, TurnEnds, Count, Leave, HangUp
  <2> QED
    BY <2>3 DEF Accept, Alive, Draining, TypeOK
<1> QED
  BY <1>1, TypeCorrect, DrainingAlways, PTL DEF Spec, NoAcceptWhileDraining

-----------------------------------------------------------------------------
(* The request counter.                                                    *)

CountedConns(l, s) == {c \in Conns : Counted(c, l, s)}

\* Only the middleware's own step counts a request.
LEMMA OthersUncounted ==
  ASSUME TypeOK, RequestOK, NEW c \in Conns, NEW l, NEW s \in Codes, NEW d \in Conns,
         \/ Accept(c) \/ CloseIdle(c) \/ Arrive(c) \/ Dispatch(c) \/ Lock(c)
         \/ ListFails(c) \/ ListReturns(c) \/ TurnEnds(c) \/ Leave(c) \/ HangUp(c)
  PROVE  UNCHANGED tally /\ (Counted(d, l, s)' <=> Counted(d, l, s))
<1> USE DEF TypeOK, RequestOK, Counted, Step
<1>1. CASE Accept(c) \/ Lock(c) \/ Leave(c) \/ HangUp(c)
  BY <1>1 DEF Accept, Lock, Leave, HangUp
<1>2. CASE CloseIdle(c)
  BY <1>2 DEF CloseIdle, Codes
<1>3. CASE Arrive(c)
  BY <1>3 DEF Arrive
<1>4. CASE Dispatch(c) \/ ListFails(c) \/ ListReturns(c) \/ TurnEnds(c)
  <2>1. /\ UNCHANGED <<request, tally>>
        /\ pc[c] \in {"routing", "locking", "listing", "turn"}
        /\ \/ \E status \in Codes : Answer(c, status)
           \/ UNCHANGED code /\ \E to \in {"locking", "turn"} : Step(c, to)
    BY <1>4 DEF Dispatch, ListFails, ListReturns, TurnEnds, Codes
  <2> QED
    BY <2>1 DEF Answer
<1> QED
  BY <1>1, <1>2, <1>3, <1>4

\* Every step keeps the counter equal to the requests counted: Count adds one
\* to the label and status of its own request, and nothing else adds any.
LEMMA CountStep ==
  ASSUME WellFormed, CountedAsAnswered, [Next]_vars
  PROVE  CountedAsAnswered'
<1> USE DEF WellFormed
<1> SUFFICES ASSUME NEW l \in Labels, NEW s \in Codes, Alive'
             PROVE  tally'[<<l, s>>] = Cardinality(CountedConns(l, s)')
  BY DEF CountedAsAnswered, CountedConns, Labels, Codes
<1>1. CASE /\ UNCHANGED <<phase, tally>>
           /\ \A d \in Conns : Counted(d, l, s)' <=> Counted(d, l, s)
  <2>1. CountedConns(l, s)' = CountedConns(l, s)
    BY <1>1 DEF CountedConns
  <2> QED
    BY <1>1, <2>1 DEF CountedAsAnswered, CountedConns, Alive
<1>2. ASSUME NEW c \in Conns, Count(c)
      PROVE  tally'[<<l, s>>] = Cardinality(CountedConns(l, s)')
  <2> DEFINE k == <<normalizePath(request[c].path), code[c]>>
  <2>1. /\ request[c] \in Shapes /\ request[c].path # "/metrics"
        /\ code[c] \in Codes /\ pc[c] = "answered" /\ Alive
    BY <1>2 DEF Count, RequestOK
  <2>2. /\ tally' = [tally EXCEPT ![k] = @ + 1]
        /\ pc' = [pc EXCEPT ![c] = "counted"]
        /\ UNCHANGED <<request, code>>
    BY <1>2 DEF Count, Step
  <2>3. tally[<<l, s>>] = Cardinality(CountedConns(l, s))
    BY <2>1 DEF CountedAsAnswered, CountedConns
  <2>4. CASE k = <<l, s>>
    <3>1. CountedConns(l, s)' = CountedConns(l, s) \cup {c}
      BY <2>1, <2>2, <2>4 DEF CountedConns, Counted, TypeOK
    <3>2. c \notin CountedConns(l, s)
      BY <2>1 DEF CountedConns, Counted
    <3>3. IsFiniteSet(CountedConns(l, s))
      BY ServerAssumption, FS_Subset DEF CountedConns
    <3>4. Cardinality(CountedConns(l, s)') = Cardinality(CountedConns(l, s)) + 1
      BY <3>1, <3>2, <3>3, FS_AddElement
    <3>5. tally'[<<l, s>>] = tally[<<l, s>>] + 1
      BY <2>2, <2>4 DEF TypeOK
    <3> QED
      BY <2>3, <3>4, <3>5
  <2>5. CASE k # <<l, s>>
    <3>1. CountedConns(l, s)' = CountedConns(l, s)
      BY <2>1, <2>2, <2>5 DEF CountedConns, Counted, TypeOK
    <3>2. tally'[<<l, s>>] = tally[<<l, s>>]
      BY <2>2, <2>5 DEF TypeOK
    <3> QED
      BY <2>3, <3>1, <3>2
  <2> QED
    BY <2>4, <2>5
<1>3. CASE Main \/ Listening
  <2>1. UNCHANGED serving /\ Alive
    BY <1>3, ProcessStep DEF Exit, Alive
  <2>2. CountedConns(l, s)' = CountedConns(l, s)
    BY <2>1 DEF serving, CountedConns, Counted
  <2> QED
    BY <2>1, <2>2 DEF CountedAsAnswered, CountedConns, serving
<1>4. ASSUME NEW c \in Conns, Proceed(c) \/ External(c), ~Count(c)
      PROVE  UNCHANGED <<phase, tally>>
             /\ \A d \in Conns : Counted(d, l, s)' <=> Counted(d, l, s)
  <2>1. UNCHANGED phase
    BY <1>4, RequestStep DEF process
  <2> QED
    BY <1>4, <2>1, OthersUncounted DEF Proceed, External
<1>5. CASE UNCHANGED vars
  BY <1>1, <1>5 DEF vars, Counted
<1> QED
  BY <1>1, <1>2, <1>3, <1>4, <1>5 DEF Next

\* The counter says of every label and status how many requests were answered
\* so, whatever refused or failed them.
THEOREM CountCorrect == Spec => []CountedAsAnswered
<1>1. Init => CountedAsAnswered
  <2> SUFFICES ASSUME Init, NEW l \in Labels, NEW s \in Codes
               PROVE  tally[<<l, s>>] = Cardinality({c \in Conns : Counted(c, l, s)})
    BY DEF CountedAsAnswered
  <2>1. {c \in Conns : Counted(c, l, s)} = {}
    BY DEF Init, Counted
  <2> QED
    BY <2>1, FS_EmptySet DEF Init
<1>2. WellFormed /\ CountedAsAnswered /\ [Next]_vars => CountedAsAnswered'
  BY CountStep
<1> QED
  BY <1>1, <1>2, WellFormedAlways, PTL DEF Spec

=============================================================================
