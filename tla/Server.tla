------------------------------- MODULE Server -------------------------------
(***************************************************************************)
(* The server process (cmd/server/main.go): it starts the Copilot CLI,     *)
(* listens in a goroutine of its own, serves requests through the metrics  *)
(* and auth middleware, and shuts down on a signal while requests run.     *)
(*                                                                         *)
(* A connection carries one request.  What a request does inside its turn  *)
(* is the business of the other modules; here a turn takes as long as it   *)
(* likes.  A model listing goes through copilot.Client.ListModels, which   *)
(* holds the client's mutex across the call to the CLI.                    *)
(***************************************************************************)
EXTENDS Gateway, FiniteSets

CONSTANTS
  Conns,         \* the connections clients make: a bound
  Environments,  \* environment and flags the process may be started with
  Shapes,        \* requests clients may send: [path, method, auth]
  NoRequest,     \* nothing read from a connection yet
  NoConn         \* the client's mutex is free

ASSUME ServerAssumption ==
  /\ IsFiniteSet(Conns)
  /\ NoConn \notin Conns
  /\ Shapes \subseteq Request /\ NoRequest \notin Shapes
  /\ Environments \subseteq Environment

VARIABLES
  environment,  \* what the process was started with
  phase,        \* where main() is
  exit,         \* how the process ended
  cli,          \* the Copilot CLI: "down", "up" or "stopped"
  listener,     \* the goroutine that runs srv.ListenAndServe
  pc,           \* where each connection is
  request,      \* the request read from it
  code,         \* the status it was answered with, 0 before
  gone,         \* connections whose client has hung up
  mutex,        \* copilot.Client.mu
  inFlight,     \* http_requests_in_flight
  tally,        \* http_requests_total, by path label and status
  overdue       \* Shutdown returned because its 30 seconds were over

vars == <<environment, phase, exit, cli, listener, pc, request, code, gone,
          mutex, inFlight, tally, overdue>>

process == <<environment, phase, exit, cli, listener, overdue>>
serving == <<pc, request, code, gone, mutex, inFlight, tally>>

Codes == {200, 400, 401, 404, 405, 500}
Labels == {normalizePath(s.path) : s \in Shapes}
config == Config(environment)

Init ==
  /\ environment \in Environments
  /\ phase = "starting" /\ exit = "none" /\ cli = "down" /\ listener = "new"
  /\ pc = [c \in Conns |-> "absent"]
  /\ request = [c \in Conns |-> NoRequest]
  /\ code = [c \in Conns |-> 0]
  /\ gone = {}
  /\ mutex = NoConn
  /\ inFlight = 0
  /\ tally = [k \in Labels \X Codes |-> 0]
  /\ overdue = FALSE

Alive == phase # "exited"
Open(c) == pc[c] \notin {"absent", "done", "cut"}

-----------------------------------------------------------------------------
(* main()                                                                  *)

\* The process is gone, with every goroutine in it.
Exit(how) ==
  /\ phase' = "exited"
  /\ exit' = how
  /\ pc' = [c \in Conns |-> IF Open(c) THEN "cut" ELSE pc[c]]
  /\ listener' = "closed"
  /\ UNCHANGED <<environment, request, code, gone, mutex, inFlight, tally>>

\* client.Start returned, and the listening goroutine is launched.
StartClient ==
  /\ phase = "starting"
  /\ phase' = "launching"
  /\ cli' = "up"
  /\ UNCHANGED <<environment, exit, listener, overdue>>
  /\ UNCHANGED serving

\* client.Start failed: os.Exit(1).
StartFails ==
  /\ phase = "starting"
  /\ Exit("error")
  /\ UNCHANGED <<cli, overdue>>

\* signal.Notify.
Notify ==
  /\ phase = "launching"
  /\ phase' = "running"
  /\ UNCHANGED <<environment, exit, cli, listener, overdue>>
  /\ UNCHANGED serving

\* A signal before signal.Notify has its default effect.
Killed ==
  /\ phase \in {"starting", "launching"}
  /\ Exit("killed")
  /\ UNCHANGED <<cli, overdue>>

\* Mutant: main waits for the connections in use without srv.Shutdown.
SignalKeepsListening ==
  /\ phase = "running"
  /\ phase' = "draining"
  /\ UNCHANGED <<environment, exit, cli, listener, overdue>>
  /\ UNCHANGED serving

\* The signal is received and srv.Shutdown closes the listener, if it is open.
Signal ==
  /\ phase = "running"
  /\ phase' = "draining"
  /\ listener' = IF listener = "open" THEN "closed" ELSE listener
  /\ UNCHANGED <<environment, exit, cli, overdue>>
  /\ UNCHANGED serving

\* Mutant: the server is closed without waiting for its connections.
DrainedAtOnce ==
  /\ phase = "draining"
  /\ phase' = "stopping"
  /\ UNCHANGED <<environment, exit, cli, listener, overdue>>
  /\ UNCHANGED serving

\* srv.Shutdown finds no connection in use.
Drained ==
  /\ phase = "draining"
  /\ \A c \in Conns : ~Open(c)
  /\ phase' = "stopping"
  /\ UNCHANGED <<environment, exit, cli, listener, overdue>>
  /\ UNCHANGED serving

\* Mutant: Shutdown is given a context without a deadline.
DeadlinePatient ==
  /\ phase = "draining"
  /\ \A c \in Conns : ~Open(c)
  /\ phase' = "stopping"
  /\ overdue' = TRUE
  /\ UNCHANGED <<environment, exit, cli, listener>>
  /\ UNCHANGED serving

\* The 30 seconds are over: srv.Shutdown returns an error, which is logged.
Deadline ==
  /\ phase = "draining"
  /\ phase' = "stopping"
  /\ overdue' = TRUE
  /\ UNCHANGED <<environment, exit, cli, listener>>
  /\ UNCHANGED serving

\* The deferred client.Stop.
StopClient ==
  /\ phase = "stopping" /\ cli = "up"
  /\ cli' = "stopped"
  /\ UNCHANGED <<environment, phase, exit, listener, overdue>>
  /\ UNCHANGED serving

MainReturns ==
  /\ phase = "stopping" /\ cli = "stopped"
  /\ Exit("ok")
  /\ UNCHANGED <<cli, overdue>>

-----------------------------------------------------------------------------
(* The goroutine of srv.ListenAndServe.                                    *)

\* ListenAndServe looks whether Shutdown was called before it binds.
Listen ==
  /\ Alive /\ phase # "starting" /\ listener = "new"
  /\ listener' = IF phase \in {"draining", "stopping"} THEN "closed" ELSE "binding"
  /\ UNCHANGED <<environment, phase, exit, cli, overdue>>
  /\ UNCHANGED serving

\* The port is bound; Serve looks for Shutdown once more.
Bound ==
  /\ Alive /\ listener = "binding"
  /\ listener' = IF phase \in {"draining", "stopping"} THEN "closed" ELSE "open"
  /\ UNCHANGED <<environment, phase, exit, cli, overdue>>
  /\ UNCHANGED serving

\* The port is taken, or Accept fails for good: os.Exit(1) in the goroutine.
ListenFails ==
  /\ Alive /\ listener \in {"binding", "open"}
  /\ Exit("error")
  /\ UNCHANGED <<cli, overdue>>

-----------------------------------------------------------------------------
(* Connections and the middleware.                                         *)

Step(c, to) == pc' = [pc EXCEPT ![c] = to]

\* Mutant: the metrics middleware skips the gauge's Inc for /metrics, not Dec.
AnswerMetered(c, status) ==
  /\ code' = [code EXCEPT ![c] = status]
  /\ Step(c, "answered")

\* The handler has written its response.
Answer(c, status) ==
  /\ code' = [code EXCEPT ![c] = status]
  /\ Step(c, IF request[c].path = "/metrics" THEN "done" ELSE "answered")

Accept(c) ==
  /\ Alive /\ listener = "open" /\ pc[c] = "absent"
  /\ Step(c, "connected")
  /\ UNCHANGED <<request, code, gone, mutex, inFlight, tally>>
  /\ UNCHANGED process

\* A connection nothing was sent on is closed by its client, by ReadTimeout or
\* by Shutdown.
CloseIdle(c) ==
  /\ Alive /\ pc[c] = "connected"
  /\ Step(c, "done")
  /\ UNCHANGED <<request, code, gone, mutex, inFlight, tally>>
  /\ UNCHANGED process

\* A request is read; the metrics middleware counts it in, unless it asks for
\* the metrics.
Arrive(c) ==
  /\ Alive /\ pc[c] = "connected"
  /\ \E req \in Shapes :
       /\ request' = [request EXCEPT ![c] = req]
       /\ inFlight' = IF req.path = "/metrics" THEN inFlight ELSE inFlight + 1
  /\ Step(c, "routing")
  /\ UNCHANGED <<code, gone, mutex, tally>>
  /\ UNCHANGED process

\* The auth middleware, the mux, and the handler's checks of the method and of
\* the body, whatever is wrong with it.
Dispatch(c) ==
  LET req == request[c]
      handler == Route(config, req.path)
  IN
  /\ Alive /\ pc[c] = "routing"
  /\ \/ ~Auth(config, req) /\ Answer(c, 401)
     \/ Auth(config, req) /\ handler = "NotFound" /\ Answer(c, 404)
     \/ /\ Auth(config, req) /\ handler # "NotFound"
        /\ req.method \notin Method(handler) /\ Answer(c, 405)
     \/ Admitted(config, req) /\ TakesBody(handler) /\ Answer(c, 400)
     \/ /\ Admitted(config, req) /\ Lists(handler)
        /\ Step(c, "locking") /\ UNCHANGED code
     \/ /\ Admitted(config, req) /\ Converses(handler)
        /\ Step(c, "turn") /\ UNCHANGED code
     \/ /\ Admitted(config, req) /\ ~Lists(handler) /\ ~Converses(handler)
        /\ Answer(c, 200)
  /\ UNCHANGED <<request, gone, mutex, inFlight, tally>>
  /\ UNCHANGED process

\* ListModels: the wait for the mutex does not watch the request's context.
Lock(c) ==
  /\ Alive /\ pc[c] = "locking" /\ mutex = NoConn
  /\ mutex' = c
  /\ Step(c, "listing")
  /\ UNCHANGED <<request, code, gone, inFlight, tally>>
  /\ UNCHANGED process

\* Mutant: the mutex is not unlocked when the call fails.
ListFailsLocked(c) ==
  /\ Alive /\ pc[c] = "listing" /\ (c \in gone \/ cli # "up")
  /\ Answer(c, 500)
  /\ UNCHANGED <<request, gone, mutex, inFlight, tally>>
  /\ UNCHANGED process

\* The call ends because its client is gone or the CLI is.
ListFails(c) ==
  /\ Alive /\ pc[c] = "listing" /\ (c \in gone \/ cli # "up")
  /\ mutex' = NoConn
  /\ Answer(c, 500)
  /\ UNCHANGED <<request, gone, inFlight, tally>>
  /\ UNCHANGED process

\* The CLI answers the call, well or badly; nothing says it ever does.
ListReturns(c) ==
  /\ Alive /\ pc[c] = "listing" /\ cli = "up"
  /\ mutex' = NoConn
  /\ \E status \in {200, 500} : Answer(c, status)
  /\ UNCHANGED <<request, gone, inFlight, tally>>
  /\ UNCHANGED process

\* A turn ends with an answer, with an error (500 stands for 409 and 504 too),
\* or with nothing written, which is counted and sent as a 200.
TurnEnds(c) ==
  /\ Alive /\ pc[c] = "turn"
  /\ \E status \in {200, 500} : Answer(c, status)
  /\ UNCHANGED <<request, gone, mutex, inFlight, tally>>
  /\ UNCHANGED process

\* Mutant: auth comes before metrics, so what it refuses is not counted.
CountAdmitted(c) ==
  LET k == <<normalizePath(request[c].path), code[c]>> IN
  /\ Alive /\ pc[c] = "answered"
  /\ tally' = IF code[c] = 401 THEN tally ELSE [tally EXCEPT ![k] = @ + 1]
  /\ Step(c, "counted")
  /\ UNCHANGED <<request, code, gone, mutex, inFlight>>
  /\ UNCHANGED process

\* The metrics middleware counts the response.
Count(c) ==
  /\ Alive /\ pc[c] = "answered"
  /\ tally' = [tally EXCEPT ![<<normalizePath(request[c].path), code[c]>>] = @ + 1]
  /\ Step(c, "counted")
  /\ UNCHANGED <<request, code, gone, mutex, inFlight>>
  /\ UNCHANGED process

\* Mutant: Dec is not deferred, and reached by successful requests only.
LeaveOnSuccess(c) ==
  /\ Alive /\ pc[c] = "counted"
  /\ inFlight' = IF code[c] = 200 THEN inFlight - 1 ELSE inFlight
  /\ Step(c, "done")
  /\ UNCHANGED <<request, code, gone, mutex, tally>>
  /\ UNCHANGED process

\* The deferred HTTPRequestsInFlight.Dec; the connection is closed or idle.
Leave(c) ==
  /\ Alive /\ pc[c] = "counted"
  /\ inFlight' = inFlight - 1
  /\ Step(c, "done")
  /\ UNCHANGED <<request, code, gone, mutex, tally>>
  /\ UNCHANGED process

\* The client closes a connection; only a listing takes notice in this module.
HangUp(c) ==
  /\ Alive /\ pc[c] \in {"locking", "listing"} /\ c \notin gone
  /\ gone' = gone \cup {c}
  /\ UNCHANGED <<pc, request, code, mutex, inFlight, tally>>
  /\ UNCHANGED process

-----------------------------------------------------------------------------

Main ==
  \/ StartClient \/ StartFails \/ Notify \/ Killed \/ Signal
  \/ Drained \/ Deadline \/ StopClient \/ MainReturns

Listening == Listen \/ Bound \/ ListenFails

\* What the handler of c does without waiting for a client or the CLI.
Proceed(c) ==
  Dispatch(c) \/ Lock(c) \/ ListFails(c) \/ Count(c) \/ Leave(c)

External(c) ==
  \/ Accept(c) \/ CloseIdle(c) \/ Arrive(c) \/ HangUp(c)
  \/ ListReturns(c) \/ TurnEnds(c)

Next ==
  \/ Main \/ Listening
  \/ \E c \in Conns : Proceed(c) \/ External(c)

\* Handlers run, a cancelled call to the CLI returns, and Shutdown has its
\* timer.  Nothing is assumed of clients, of the CLI, of client.Stop, or of how
\* long a turn or a listing takes.
Fairness ==
  /\ \A c \in Conns : WF_vars(Proceed(c))
  /\ WF_vars(Deadline)

Spec == Init /\ [][Next]_vars

FairSpec == Spec /\ Fairness

-----------------------------------------------------------------------------
(* Safety.                                                                 *)

PCs == {"absent", "connected", "routing", "locking", "listing", "turn",
        "answered", "counted", "done", "cut"}

\* Every variable has its type, and a listing under way holds the mutex.
TypeOK ==
  /\ environment \in Environments
  /\ phase \in {"starting", "launching", "running", "draining", "stopping", "exited"}
  /\ exit \in {"none", "ok", "error", "killed"}
  /\ cli \in {"down", "up", "stopped"}
  /\ listener \in {"new", "binding", "open", "closed"}
  /\ pc \in [Conns -> PCs]
  /\ request \in [Conns -> Shapes \cup {NoRequest}]
  /\ code \in [Conns -> Codes \cup {0}]
  /\ gone \in SUBSET Conns
  /\ mutex \in Conns \cup {NoConn}
  /\ \A c \in Conns : pc[c] = "listing" => mutex = c
  /\ inFlight \in Nat
  /\ tally \in [Labels \X Codes -> Nat]
  /\ overdue \in BOOLEAN

\* Whatever the environment holds, the registry has a positive TTL and cap and
\* its collector a positive interval (time.NewTicker panics on another).
SettingsUsable ==
  LET r == Registry(config) IN
  r.ttl > 0 /\ r.maxParked > 0 /\ GCInterval(r) > 0

\* The requests between the gauge's Inc and Dec.
Metered(c) ==
  /\ pc[c] \in {"routing", "locking", "listing", "turn", "answered", "counted"}
  /\ request[c].path # "/metrics"

\* http_requests_in_flight is the "Number of HTTP requests currently being
\* processed" (metrics.go:29): refusals, failures and hang-ups leave no trace.
GaugeExact ==
  Alive => inFlight = Cardinality({c \in Conns : Metered(c)})

\* The requests that were counted under a label and a status.
Counted(c, label, status) ==
  /\ pc[c] \in {"counted", "done"} /\ code[c] = status
  /\ request[c].path # "/metrics" /\ normalizePath(request[c].path) = label

\* http_requests_total counts every answered request once, refused and unknown
\* ones too, under its path label and the status its client was sent.
CountedAsAnswered ==
  \A l \in Labels, s \in Codes :
    Alive => tally[<<l, s>>] = Cardinality({c \in Conns : Counted(c, l, s)})

\* A request that has to have the key and does not.
Keyless(c) == config.APIKey # "" /\ request[c].auth # "bearer-right"

\* With a key configured no request without it reaches a session or the model
\* list; no request is refused that has it or faces none, nor the metrics
\* ("unauthenticated", README.md:240).
KeyDecides ==
  \A c \in Conns :
    /\ pc[c] \in {"locking", "listing", "turn"} => ~Keyless(c)
    /\ code[c] = 401 => Keyless(c) /\ request[c].path # "/metrics"

\* An orderly end leaves no CLI behind, and cuts a request off only when the 30
\* seconds were over ("Graceful shutdown on SIGINT/SIGTERM", README.md:24).
OrderlyExit ==
  exit = "ok" =>
    /\ cli = "stopped"
    /\ overdue \/ \A c \in Conns : pc[c] # "cut"

\* Once Shutdown has begun no connection is accepted, also when the signal came
\* while the port was being bound.
NoAcceptWhileDraining ==
  [][\A c \in Conns :
       pc[c] = "absent" /\ pc'[c] = "connected" => phase \in {"launching", "running"}]_vars

-----------------------------------------------------------------------------
(* Liveness, under FairSpec.                                               *)

\* No request, turn or listing keeps a shutdown from stopping the CLI.
ShutdownReachesStop == phase = "draining" ~> phase \in {"stopping", "exited"}

\* A listing waits for ever only behind one that the CLI does not answer and
\* whose own client stays: a client that hangs up lets the next one through.
QueueMoves ==
  \A c \in Conns :
    \/ []<>(pc[c] # "locking")
    \/ \E d \in Conns : <>[](mutex = d /\ pc[d] = "listing" /\ d \notin gone)

\* Health checks and metrics are answered whatever the others do: no listing or
\* turn that the CLI never ends, and no queue behind it, keeps them waiting.
ProbesUnblocked ==
  \A c \in Conns :
    pc[c] = "routing" /\ request[c].path \in {"/healthz", "/metrics"}
      ~> pc[c] \in {"done", "cut"}

-----------------------------------------------------------------------------
(* What the image's own health check expects.                              *)

\* GET /healthz of a running server is answered with success (Dockerfile:35-36,
\* "HEALTHCHECK ... wget -qO- http://localhost:8080/healthz ... || exit 1").
ProbesSucceed ==
  \A c \in Conns :
    code[c] # 0 /\ request[c].path = "/healthz" => code[c] = 200

=============================================================================
