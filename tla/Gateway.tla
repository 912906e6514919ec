------------------------------ MODULE Gateway ------------------------------
(***************************************************************************)
(* The API gateway: it reads the addresses of the services, warms up a     *)
(* connection to each, listens, lets the guard check requests of guarded   *)
(* services, sends each over one of the sockets its agent has for the      *)
(* service, and answers its client with what came back or with what went   *)
(* wrong.  A service goes on with a request the gateway has given up on.   *)
(***************************************************************************)
EXTENDS Integers, FiniteSets, Sequences

CONSTANTS
  Services,
  Public,            \* services whose routes have no guard: auth
  Requests,
  MaxSockets         \* sockets of the agent for one service; the code has 50

\* Asked of the parameters of an instance.
GatewayAssumption ==
  /\ Public \subseteq Services
  /\ MaxSockets \in Nat \ {0}

VARIABLES
  phase,             \* of the gateway's process
  timeoutSet,        \* is GATEWAY_TIMEOUT or HTTP_TIMEOUT configured?
  warm,              \* services whose warm-up has ended
  req,               \* step, service, route and answer of each request
  queue,             \* requests of a service that wait for a socket
  run                \* what the service has made of a request

process == <<phase, timeoutSet, warm>>
vars == <<phase, timeoutSet, warm, req, queue, run>>

Statuses == {"ok", "redirect", "unauthorized", "conflict", "failed"}
Answers == Statuses \cup {"none", "unavailable", "gatewayError", "notFound"}
Steps == {"new", "guard", "admitted", "queued", "sent", "answered"}
Routes == {"plain", "callback", "unsupported"}
NoService == "noService"

TypeOK ==
  /\ phase \in {"down", "warming", "up"} /\ timeoutSet \in BOOLEAN
  /\ warm \subseteq Services
  /\ req \in [Requests -> [step : Steps, service : Services \cup {NoService},
                           route : Routes, answer : Answers]]
  /\ queue \in [Services -> Seq(Requests)]
  /\ \A s \in Services : \A i \in 1 .. Len(queue[s]) :
       req[queue[s][i]].service = s /\ req[queue[s][i]].step = "queued"
  /\ \A s \in Services : Cardinality({r \in Requests :
       req[r].service = s /\ req[r].step = "sent"}) <= MaxSockets
  /\ run \in [Requests -> Statuses \cup {"none", "running"}]

\* The constructor throws for a service without an address.
Init ==
  /\ \E addresses \in SUBSET Services :
       phase = IF addresses = Services THEN "warming" ELSE "down"
  /\ timeoutSet \in BOOLEAN
  /\ warm = {}
  /\ req = [r \in Requests |-> [step |-> "new", service |-> NoService,
                                route |-> "plain", answer |-> "none"]]
  /\ queue = [s \in Services |-> <<>>]
  /\ run = [r \in Requests |-> "none"]

-----------------------------------------------------------------------------

\* A warm-up that fails or times out counts like one that is answered.
WarmUp(s) ==
  /\ phase = "warming" /\ s \notin warm
  /\ warm' = warm \cup {s}
  /\ UNCHANGED <<phase, timeoutSet, req, queue, run>>

Listen ==
  /\ phase = "warming" /\ warm = Services
  /\ phase' = "up"
  /\ UNCHANGED <<timeoutSet, warm, req, queue, run>>

-----------------------------------------------------------------------------
Reply(r, a) == req' = [req EXCEPT ![r].step = "answered", ![r].answer = a]

\* A request comes in; the OAuth callback has a route of its own, unguarded.
Arrive(r, s, route) ==
  /\ phase = "up" /\ req[r].step = "new"
  /\ route = "callback" => s \notin Public
  /\ req' = [req EXCEPT ![r] = [step |-> IF s \in Public \/ route = "callback"
                                         THEN "admitted" ELSE "guard",
                                service |-> s, route |-> route,
                                answer |-> "none"]]
  /\ UNCHANGED <<process, queue, run>>

ApiRoot(r) ==
  /\ phase = "up" /\ req[r].step = "new"
  /\ Reply(r, "notFound")
  /\ UNCHANGED <<process, queue, run>>

Guard(r) ==
  /\ req[r].step = "guard"
  /\ \/ req' = [req EXCEPT ![r].step = "admitted"]
     \/ Reply(r, "unauthorized")
  /\ UNCHANGED <<process, queue, run>>

\* forwardRequest up to the agent: without a timeout in the environment, or
\* with a method it does not know, it throws.
Forward(r) ==
  /\ req[r].step = "admitted"
  /\ IF ~timeoutSet \/ req[r].route = "unsupported"
     THEN Reply(r, "gatewayError") /\ UNCHANGED queue
     ELSE /\ req' = [req EXCEPT ![r].step = "queued"]
          /\ queue' = [queue EXCEPT ![req[r].service] = Append(@, r)]
  /\ UNCHANGED <<process, run>>

\* Mutant: a socket beyond the limit.
SocketToo(s) ==
  Cardinality({r \in Requests : req[r].service = s /\ req[r].step = "sent"})
    <= MaxSockets

SocketFree(s) ==
  Cardinality({r \in Requests : req[r].service = s /\ req[r].step = "sent"})
    < MaxSockets

\* What a failed call is answered with; the OAuth callback knows no 503.
Failure(r, code) ==
  IF code = "reset" \/ req[r].route = "callback" THEN "gatewayError"
  ELSE "unavailable"

\* The agent gives a socket to the request that waits longest; there is no
\* timeout before it does.
Connect(s) ==
  /\ queue[s] # <<>> /\ SocketFree(s)
  /\ LET r == Head(queue[s]) IN
     \/ /\ req' = [req EXCEPT ![r].step = "sent"]
        /\ run' = [run EXCEPT ![r] = "running"]
     \/ /\ \E code \in {"refused", "reset"} : Reply(r, Failure(r, code))
        /\ UNCHANGED run
  /\ queue' = [queue EXCEPT ![s] = Tail(@)]
  /\ UNCHANGED process

Serve(r) ==
  /\ run[r] = "running"
  /\ \E status \in Statuses : run' = [run EXCEPT ![r] = status]
  /\ UNCHANGED <<process, req, queue>>

\* validateStatus accepts every status and the data goes out with a 200; only
\* the OAuth callback passes a redirect on.
AnswerOf(r) ==
  IF run[r] = "redirect" /\ req[r].route = "callback" THEN "redirect" ELSE "ok"

Respond(r) ==
  /\ req[r].step = "sent" /\ run[r] \in Statuses
  /\ Reply(r, AnswerOf(r))
  /\ UNCHANGED <<process, queue, run>>

\* Mutant: no timeout.
NeverTimeout(r) == FALSE /\ UNCHANGED vars

\* The client of the call gives up and its socket goes; the service is not
\* told.
Timeout(r) ==
  /\ req[r].step = "sent"
  /\ Reply(r, Failure(r, "timeout"))
  /\ UNCHANGED <<process, queue, run>>

\* The connection breaks under way.
Reset(r) ==
  /\ req[r].step = "sent"
  /\ Reply(r, Failure(r, "reset"))
  /\ UNCHANGED <<process, queue, run>>

Next ==
  \/ Listen
  \/ \E s \in Services : WarmUp(s) \/ Connect(s)
  \/ \E r \in Requests :
       \/ \E s \in Services, route \in Routes : Arrive(r, s, route)
       \/ ApiRoot(r) \/ Guard(r) \/ Forward(r)
       \/ Serve(r) \/ Respond(r) \/ Timeout(r) \/ Reset(r)

Spec == Init /\ [][Next]_vars

\* The gateway's event loop and its timers run; no service has to answer.
Fairness ==
  /\ WF_vars(Listen)
  /\ \A s \in Services : WF_vars(WarmUp(s)) /\ WF_vars(Connect(s))
  /\ \A r \in Requests :
       WF_vars(Guard(r)) /\ WF_vars(Forward(r)) /\ WF_vars(Timeout(r))

FairSpec == Spec /\ Fairness
-----------------------------------------------------------------------------
(***************************************************************************)
(* Properties.                                                             *)
(***************************************************************************)

\* Every request is answered, though a service never answers and all sockets
\* to it are taken: the timeout of the request ahead frees the socket.
EventuallyAnswered ==
  \A r \in Requests :
    req[r].step \in {"guard", "admitted"} ~> req[r].step = "answered"
=============================================================================
