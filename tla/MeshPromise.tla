---- MODULE MeshPromise ----
(***************************************************************************)
(* What the services promise somebody who requests a URL of one of them:   *)
(* exactly one answer, which is 404 for a URL the service does not have,   *)
(* 200 when it has nobody to contact, and 200 or 500 when it has; or, when *)
(* a service stops or is too slow, a broken connection.                    *)
(***************************************************************************)
EXTENDS Sequences

CONSTANTS
  Services,  \* the names of the services
  Urls,      \* the URLs a request may name
  Endpoints  \* Endpoints[s][u]: the connections of the endpoint u of s, in order

VARIABLES
  asked,   \* the requested <<service, URL>>, or << >>
  answer   \* "none" or "pending", then the status or how it ended without one

pvars == <<asked, answer>>

Statuses == {"OK", "NotFound", "InternalServerError"}

\* The statuses the endpoint u of s may answer.
Allowed(s, u) ==
  IF u \notin DOMAIN Endpoints[s] THEN {"NotFound"}
  ELSE IF Endpoints[s][u] = <<>> THEN {"OK"}
  ELSE {"OK", "InternalServerError"}

PInit == asked = <<>> /\ answer = "none"

PAsk ==
  /\ answer = "none"
  /\ \E s \in Services, u \in Urls : asked' = <<s, u>>
  /\ answer' = "pending"

PAnswer ==
  /\ answer = "pending"
  /\ answer' \in Allowed(asked[1], asked[2])
  /\ UNCHANGED asked

PBroken ==
  /\ answer = "pending"
  /\ answer' = "broken"
  /\ UNCHANGED asked

PNext == PAsk \/ PAnswer \/ PBroken

PSpec == PInit /\ [][PNext]_pvars
====
