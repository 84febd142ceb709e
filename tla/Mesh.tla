---- MODULE Mesh ----
(***************************************************************************)
(* The services of a generated topology at work: the HTTP server and the   *)
(* HTTP client of docker-images/service/dummy-service.                     *)
(*                                                                         *)
(* A request to a service makes it send the requests of the endpoint, one  *)
(* after the other, before it answers.  A request is identified by its     *)
(* place in the tree of the requests it belongs to: the root is << >>, and *)
(* the request a handler sends for its i-th connection appends i.  Each    *)
(* is a record of calls:                                                   *)
(*   service, url  where it is sent;                                       *)
(*   client        the side that sent it: "waiting", "got" an answer, or   *)
(*                 "failed" (client.Do or io.ReadAll returned an error);   *)
(*   server        the other side: "sent" (not read yet), "running", then  *)
(*                 "replied", "late" (the answer was written after the     *)
(*                 write timeout) or "gone" (no answer);                   *)
(*   next          the connection the handler is at;                       *)
(*   code          the status of the handler's answer;                     *)
(*   cancelled     whether the context of the request is done;             *)
(*   sentAge       time since it was sent, up to RequestTimeout;           *)
(*   readAge       time since the server read it, up to WriteTimeout.      *)
(***************************************************************************)
EXTENDS Naturals, Sequences, Functions

CONSTANTS
  Services,        \* the entities of type "service"
  Urls,            \* the URLs a request may name
  Endpoints,       \* Endpoints[s][u]: the connections of the endpoint u of s, in order
  RequestTimeout,  \* REQUEST_TIMEOUT, 5 s
  WriteTimeout,    \* WriteTimeout of http.Server, 10 s
  MaxStops         \* bound: how many times a service is interrupted or killed

ASSUME MaxStopsAssumption == MaxStops \in Nat

ASSUME TimeoutsAssumption ==
  /\ RequestTimeout \in Nat \ {0}
  /\ WriteTimeout \in Nat
  /\ RequestTimeout < WriteTimeout

\* A connection has a path, whose last hop it contacts, and a URL.
ASSUME EndpointsAssumption ==
  /\ DOMAIN Endpoints = Services
  /\ \A s \in Services :
       /\ DOMAIN Endpoints[s] \subseteq Urls
       /\ \A u \in DOMAIN Endpoints[s] :
            LET conns == Endpoints[s][u] IN
            /\ DOMAIN conns = 1 .. Len(conns) /\ Len(conns) \in Nat
            /\ \A i \in DOMAIN conns : conns[i].url \in Urls

VARIABLES
  calls,    \* the requests made so far
  state,    \* each service: "up", "stopping", "stopped" or "down"
  stops,    \* how many times a service was interrupted or killed
  tracing   \* JAEGER_ENABLE, the same for all services

vars == <<calls, state, stops, tracing>>

----
(***************************************************************************)
(* utils.go: what a service knows of the configuration.                    *)
(***************************************************************************)

\* readConfig: a path is reduced to its last hop.
Destination(conn) == conn.path[Len(conn.path)]

\* The entities that are not services left in the configuration.
HasAddressAny(name) == TRUE

\* getAddress: readConfig has deleted whatever is not a service, so the address of
\* anything else is "" and the request cannot be sent.
HasAddress(name) == name \in Services

----
(***************************************************************************)
(* The tree of requests.                                                   *)
(***************************************************************************)
Root == <<>>
Made == DOMAIN calls
Child(id, i) == Append(id, i)
Parent(id) == SubSeq(id, 1, Len(id) - 1)

NewCall(s, u) ==
  [ service |-> s, url |-> u, client |-> "waiting", server |-> "sent", next |-> 1,
    code |-> "none", cancelled |-> FALSE, sentAge |-> 0, readAge |-> 0 ]

Connections(call) ==
  IF call.url \in DOMAIN Endpoints[call.service] THEN Endpoints[call.service][call.url] ELSE <<>>

Running(id) == calls[id].server = "running"
Waiting(id) == calls[id].client = "waiting"

\* The request the handler of id is waiting for, or would be.
Current(id) == Child(id, calls[id].next)

Make(id, s, u) ==
  calls' = [c \in Made \cup {id} |-> IF c = id THEN NewCall(s, u) ELSE calls[c]]

Init ==
  /\ calls = [id \in {} |-> NewCall(id, id)]
  /\ state = [s \in Services |-> "up"]
  /\ stops = 0
  /\ tracing \in BOOLEAN

\* Somebody requests a URL of a service, which need not have it.
Ask ==
  /\ Made = {}
  /\ \E s \in Services, u \in Urls : Make(Root, s, u)
  /\ UNCHANGED <<state, stops, tracing>>

----
(***************************************************************************)
(* The server side: getRootJaeger and getRootNoJaeger.                     *)
(***************************************************************************)

\* net/http reads the request; its age, and with it the write timeout, runs from here.
Accept(id) ==
  /\ calls[id].server = "sent"
  /\ state[calls[id].service] = "up"
  /\ calls' = [calls EXCEPT ![id].server = "running"]
  /\ UNCHANGED <<state, stops, tracing>>

\* A write timeout as short as the request timeout.
FinishShort(id, code) ==
  /\ calls' = [calls EXCEPT ![id].code = code,
       ![id].server = IF calls[id].readAge < RequestTimeout THEN "replied" ELSE "late"]
  /\ UNCHANGED <<state, stops, tracing>>

\* The handler returns after WriteHeader(code).  What it wrote is flushed now: after the
\* write timeout that fails, and the connection is closed.
Finish(id, code) ==
  /\ calls' = [calls EXCEPT ![id].code = code,
       ![id].server = IF calls[id].readAge < WriteTimeout THEN "replied" ELSE "late"]
  /\ UNCHANGED <<state, stops, tracing>>

EntrypointUnknown(id) ==
  /\ Running(id)
  /\ calls[id].url \notin DOMAIN Endpoints[calls[id].service]
  /\ Finish(id, "NotFound")

\* Requests that are not waited for.
ContactAsync(id) ==
  /\ Running(id)
  /\ calls[id].next \in DOMAIN Connections(calls[id])
  /\ LET conn == Connections(calls[id])[calls[id].next] IN
       /\ HasAddress(Destination(conn))
       /\ calls' = [c \in Made \cup {Current(id)} |->
            IF c = Current(id) THEN NewCall(Destination(conn), conn.url)
            ELSE IF c = id THEN [calls[c] EXCEPT !.next = @ + 1] ELSE calls[c]]
  /\ UNCHANGED <<state, stops, tracing>>

\* makeRequest.  A request with a trace is sent in the context of the one that caused it.
Contact(id) ==
  /\ Running(id)
  /\ calls[id].next \in DOMAIN Connections(calls[id])
  /\ Current(id) \notin Made
  /\ ~(tracing /\ calls[id].cancelled)
  /\ LET conn == Connections(calls[id])[calls[id].next] IN
       HasAddress(Destination(conn)) /\ Make(Current(id), Destination(conn), conn.url)
  /\ UNCHANGED <<state, stops, tracing>>

\* client.Do fails before anything is sent: the URL has no host, or the context is done.
CannotContact(id) ==
  /\ Running(id)
  /\ calls[id].next \in DOMAIN Connections(calls[id])
  /\ Current(id) \notin Made
  /\ \/ tracing /\ calls[id].cancelled
     \/ ~HasAddress(Destination(Connections(calls[id])[calls[id].next]))
  /\ Finish(id, "InternalServerError")

\* The status of the answer is not looked at.
Contacted(id) ==
  /\ Running(id)
  /\ Current(id) \in Made
  /\ calls[Current(id)].client = "got"
  /\ calls' = [calls EXCEPT ![id].next = @ + 1]
  /\ UNCHANGED <<state, stops, tracing>>

\* An error is logged and the loop goes on.
ContactFailedContinue(id) ==
  /\ Running(id)
  /\ Current(id) \in Made
  /\ calls[Current(id)].client = "failed"
  /\ calls' = [calls EXCEPT ![id].next = @ + 1]
  /\ UNCHANGED <<state, stops, tracing>>

\* The request is sent again until it succeeds.
ContactFailedRetry(id) ==
  /\ Running(id)
  /\ Current(id) \in Made
  /\ calls[Current(id)].client = "failed"
  /\ Make(Current(id), calls[Current(id)].service, calls[Current(id)].url)
  /\ UNCHANGED <<state, stops, tracing>>

ContactFailed(id) ==
  /\ Running(id)
  /\ Current(id) \in Made
  /\ calls[Current(id)].client = "failed"
  /\ Finish(id, "InternalServerError")

\* The entrypoint is not checked first.
ContactedAllUnchecked(id) ==
  /\ Running(id)
  /\ calls[id].next > Len(Connections(calls[id]))
  /\ Finish(id, "OK")

ContactedAll(id) ==
  /\ Running(id)
  /\ calls[id].url \in DOMAIN Endpoints[calls[id].service]
  /\ calls[id].next > Len(Connections(calls[id]))
  /\ Finish(id, "OK")

\* net/http notices that the client closed the connection and ends the context of the
\* request; only the handler with tracing passes that context on.
Disconnect(id) ==
  /\ tracing
  /\ Running(id) /\ calls[id].client = "failed" /\ ~calls[id].cancelled
  /\ calls' = [calls EXCEPT ![id].cancelled = TRUE]
  /\ UNCHANGED <<state, stops, tracing>>

----
(***************************************************************************)
(* The client side.  A client belongs to the handler of the parent request *)
(* and makes one request only: net/http repeats none on a new connection.  *)
(***************************************************************************)
Client(id, outcome) ==
  /\ calls' = [calls EXCEPT ![id].client = outcome]
  /\ UNCHANGED <<state, stops, tracing>>

Receive(id) ==
  /\ Waiting(id)
  /\ calls[id].server = "replied"
  /\ Client(id, "got")

\* The connection ends before an answer.
Broken(id) ==
  /\ Waiting(id)
  /\ calls[id].server \in {"late", "gone"}
  /\ Client(id, "failed")

TimedOut(id) ==
  /\ id # Root
  /\ Waiting(id)
  /\ calls[id].sentAge = RequestTimeout
  /\ Client(id, "failed")

\* The context the request was sent in is done.
Cancelled(id) ==
  /\ tracing
  /\ id # Root
  /\ Waiting(id)
  /\ calls[Parent(id)].cancelled
  /\ Client(id, "failed")

\* Whoever asked stops waiting.
GiveUp ==
  /\ Root \in Made
  /\ Waiting(Root)
  /\ Client(Root, "failed")

\* The connection is refused, or closed before the server read the request.
Refused(id) ==
  /\ calls[id].server = "sent"
  /\ state[calls[id].service] # "up" \/ ~Waiting(id)
  /\ calls' = [calls EXCEPT ![id].server = "gone"]
  /\ UNCHANGED <<state, stops, tracing>>

----
(***************************************************************************)
(* Services stop and start: main.go and "restart: on-failure".             *)
(***************************************************************************)
HandlersOf(s) == {id \in Made : calls[id].service = s /\ Running(id)}

\* SIGINT: the base context of every request is done, and Shutdown closes the listener.
Interrupt(s) ==
  /\ state[s] = "up"
  /\ stops < MaxStops
  /\ stops' = stops + 1
  /\ state' = [state EXCEPT ![s] = "stopping"]
  /\ calls' = [id \in Made |->
       IF id \in HandlersOf(s) THEN [calls[id] EXCEPT !.cancelled = TRUE] ELSE calls[id]]
  /\ UNCHANGED tracing

\* Shutdown returns when no handler runs; the exit is no failure, so it is final.
ShutDown(s) ==
  /\ state[s] = "stopping"
  /\ HandlersOf(s) = {}
  /\ state' = [state EXCEPT ![s] = "stopped"]
  /\ UNCHANGED <<calls, stops, tracing>>

\* The handlers are lost and so are the requests they were waiting for.
Die(s) ==
  /\ state[s] \in {"up", "stopping"}
  /\ stops < MaxStops
  /\ stops' = stops + 1
  /\ state' = [state EXCEPT ![s] = "down"]
  /\ calls' = [id \in Made |->
       [calls[id] EXCEPT
          !.server = IF id \in HandlersOf(s) THEN "gone" ELSE @,
          !.client = IF id # Root /\ Parent(id) \in HandlersOf(s) /\ @ = "waiting"
                     THEN "failed" ELSE @]]
  /\ UNCHANGED tracing

Restart(s) ==
  /\ state[s] = "down"
  /\ state' = [state EXCEPT ![s] = "up"]
  /\ UNCHANGED <<calls, stops, tracing>>

----
(***************************************************************************)
(* Time.  A timer fires when it is due: time does not pass a request        *)
(* timeout.  Ages are counted as far as a timeout looks at them.           *)
(***************************************************************************)
Older(age, limit) == IF age < limit THEN age + 1 ELSE age

Tick ==
  /\ Made # {}
  /\ \A id \in Made \ {Root} : Waiting(id) => calls[id].sentAge < RequestTimeout
  /\ calls' = [id \in Made |->
       [calls[id] EXCEPT
          !.sentAge = IF id # Root /\ Waiting(id) THEN Older(@, RequestTimeout) ELSE @,
          !.readAge = IF Running(id) THEN Older(@, WriteTimeout) ELSE @]]
  /\ calls' # calls
  /\ UNCHANGED <<state, stops, tracing>>

Handler(id) ==
  \/ Accept(id)
  \/ Refused(id)
  \/ EntrypointUnknown(id)
  \/ Contact(id)
  \/ CannotContact(id)
  \/ Contacted(id)
  \/ ContactFailed(id)
  \/ ContactedAll(id)

Requester(id) ==
  \/ Receive(id)
  \/ Broken(id)
  \/ TimedOut(id)
  \/ Cancelled(id)

Service(s) ==
  \/ Interrupt(s)
  \/ ShutDown(s)
  \/ Die(s)
  \/ Restart(s)

\* Every request is settled on both sides, and so is every service.
Settled == \A id \in Made : ~Waiting(id) /\ calls[id].server \notin {"sent", "running"}

Quiet ==
  /\ Made # {} /\ Settled
  /\ UNCHANGED vars

Next ==
  \/ Ask
  \/ GiveUp
  \/ \E id \in Made : Handler(id) \/ Requester(id) \/ Disconnect(id)
  \/ \E s \in Services : Service(s)
  \/ Tick
  \/ Quiet

\* The goroutines of a handler and its clients run on.  Nothing else has to happen:
\* services need not stop or come back, nobody has to ask or to give up.
Fairness == WF_vars(\E id \in Made : Handler(id) \/ Requester(id))

Spec == Init /\ [][Next]_vars /\ Fairness

----
(***************************************************************************)
(* What the services guarantee.                                            *)
(***************************************************************************)
Call == [ service : Services, url : Urls, client : {"waiting", "got", "failed"},
          server : {"sent", "running", "replied", "late", "gone"}, next : Nat \ {0},
          code : {"none", "OK", "NotFound", "InternalServerError"}, cancelled : BOOLEAN,
          sentAge : 0 .. RequestTimeout, readAge : 0 .. WriteTimeout ]

TypeOK ==
  /\ Made \subseteq Seq(Nat \ {0})
  /\ calls \in [Made -> Call]
  /\ \A id \in Made \ {Root} : Parent(id) \in Made
  /\ state \in [Services -> {"up", "stopping", "stopped", "down"}]
  /\ stops \in 0 .. MaxStops
  /\ tracing \in BOOLEAN

\* Somebody still waits for what the handler of id does: for it, and for every request
\* above it.
Awaited(id) == \A k \in 0 .. Len(id) : Waiting(SubSeq(id, 1, k))

\* "will sequentially send requests to the services they are connected to"
\* (README.md:8): the handlers somebody still waits for are one below the other, over the
\* whole tree of requests.  Only handlers whose requester gave up run beside them.
OneActiveBranch ==
  LET active == {id \in Made : Running(id) /\ Awaited(id)}
  IN  \A c, d \in active : Len(c) <= Len(d) => c = SubSeq(d, 1, Len(c))

\* The write timeout of the server never costs another service an answer it could still
\* have used: by then its own request timeout has ended the request.  It only costs
\* whoever sent the root request, who has no timeout.
LateAnswersUnawaited ==
  \A id \in Made \ {Root} : calls[id].server = "late" => ~Waiting(id)

\* A service answers 200 only after each of its requests was answered, whatever was given
\* up, interrupted or killed meanwhile; the status of those answers may be any.
SuccessContactsAll ==
  \A id \in Made : calls[id].code = "OK" =>
    \A i \in DOMAIN Connections(calls[id]) :
      /\ Child(id, i) \in Made
      /\ calls[Child(id, i)].client = "got"
      /\ calls[Child(id, i)].server = "replied"

\* Nothing goes on for ever: every handler, also one nobody waits for any more, and every
\* client ends.
EverythingSettles == (Made # {}) ~> Settled

\* What somebody who requests a URL sees of all this is what MeshPromise says.
P == INSTANCE MeshPromise WITH
  asked  <- IF Root \in Made THEN <<calls[Root].service, calls[Root].url>> ELSE <<>>,
  answer <- IF Root \notin Made THEN "none"
            ELSE CASE Waiting(Root) -> "pending"
                   [] calls[Root].client = "got" -> calls[Root].code
                   [] OTHER -> "broken"
Promised == P!PSpec

\* "Error when contacting" (server_side.go:58): a service that answers 500 with this text
\* did send the request it is about, or was told to stop.
ErrorsAreOfRequests ==
  \A id \in Made :
    calls[id].code = "InternalServerError" => Current(id) \in Made \/ calls[id].cancelled
====
