---- MODULE MeshProofs ----
(***************************************************************************)
(* Theorems about module Mesh for any services, endpoints and timeouts.    *)
(***************************************************************************)
EXTENDS Mesh, ListsProofs

\* A request is a call, when its service and its URL are known.
LEMMA NewCallType ==
  ASSUME NEW s \in Services, NEW u \in Urls
  PROVE  NewCall(s, u) \in Call
BY TimeoutsAssumption DEF NewCall, Call

\* A request made below another one, and nothing else, is added to the tree.
LEMMA ChildInTree ==
  ASSUME NEW id \in Seq(Nat \ {0}), NEW i \in Nat \ {0}
  PROVE  /\ Child(id, i) \in Seq(Nat \ {0})
         /\ Child(id, i) # Root
         /\ Parent(Child(id, i)) = id
BY DEF Child, Root, Parent

\* Requests keep their place when none is made.
LEMMA KeepsType ==
  ASSUME TypeOK, calls' \in [Made -> Call], UNCHANGED <<state, stops, tracing>>
  PROVE  TypeOK'
BY DEF TypeOK, Made, Parent, Root

\* One request changes.
LEMMA ChangesType ==
  ASSUME TypeOK, NEW id \in Made, NEW call \in Call,
         calls' = [calls EXCEPT ![id] = call], UNCHANGED <<state, stops, tracing>>
  PROVE  TypeOK'
<1>1. calls' \in [Made -> Call]
  BY DEF TypeOK
<1>2. QED
  BY <1>1, KeepsType

\* One request is made, below one that exists.
LEMMA MakesType ==
  ASSUME TypeOK, NEW id \in Made, NEW s \in Services, NEW u \in Urls,
         Make(Current(id), s, u), UNCHANGED <<state, stops, tracing>>
  PROVE  TypeOK'
<1>1. calls[id].next \in Nat \ {0} /\ id \in Seq(Nat \ {0})
  BY DEF TypeOK, Call
<1>2. /\ Current(id) \in Seq(Nat \ {0})
      /\ Parent(Current(id)) = id
  BY <1>1, ChildInTree DEF Current
<1>3. calls' \in [Made \cup {Current(id)} -> Call]
  BY NewCallType DEF Make, TypeOK
<1>4. Made' = Made \cup {Current(id)}
  BY <1>3 DEF Made
<1>5. \A c \in Made' \ {Root} : Parent(c) \in Made'
  BY <1>2, <1>4 DEF TypeOK, Root
<1>6. QED
  BY <1>2, <1>3, <1>4, <1>5 DEF TypeOK, Parent, Root

\* The tree of requests and every request in it keep their shape (all of the service).
THEOREM MeshTypeCorrect == Spec => []TypeOK
<1>1. Init => TypeOK
  BY MaxStopsAssumption DEF Init, TypeOK, Made, Root
<1>2. TypeOK /\ [Next]_vars => TypeOK'
  <2> SUFFICES ASSUME TypeOK, [Next]_vars PROVE TypeOK'
    OBVIOUS
  <2>1. CASE Ask
    <3>1. PICK s \in Services, u \in Urls : Make(Root, s, u)
      BY <2>1 DEF Ask
    <3>2. calls' \in [{Root} -> Call] /\ Made' = {Root}
      BY <2>1, <3>1, NewCallType DEF Ask, Make, Made
    <3>3. Root \in Seq(Nat \ {0})
      BY DEF Root
    <3>4. QED
      BY <2>1, <3>2, <3>3 DEF Ask, TypeOK, Parent, Root
  <2>2. ASSUME NEW id \in Made, Handler(id) PROVE TypeOK'
    <3>1. calls[id] \in Call
      BY DEF TypeOK
    <3>2. CASE Accept(id)
      <4>1. [calls[id] EXCEPT !.server = "running"] \in Call
        BY <3>1 DEF Call
      <4>2. calls' = [calls EXCEPT ![id] = [calls[id] EXCEPT !.server = "running"]]
        BY <3>2 DEF Accept
      <4>3. QED
        BY <3>2, <4>1, <4>2, ChangesType DEF Accept
    <3>3. CASE Refused(id)
      <4>1. [calls[id] EXCEPT !.server = "gone"] \in Call
        BY <3>1 DEF Call
      <4>2. calls' = [calls EXCEPT ![id] = [calls[id] EXCEPT !.server = "gone"]]
        BY <3>3 DEF Refused
      <4>3. QED
        BY <3>3, <4>1, <4>2, ChangesType DEF Refused
    <3>4. ASSUME NEW code \in {"OK", "NotFound", "InternalServerError"}, Finish(id, code)
          PROVE  TypeOK'
      <4>1. [calls[id] EXCEPT !.code = code,
              !.server = IF calls[id].readAge < WriteTimeout THEN "replied" ELSE "late"] \in Call
        BY <3>1, <3>4 DEF Call
      <4>2. calls' = [calls EXCEPT ![id] = [calls[id] EXCEPT !.code = code,
              !.server = IF calls[id].readAge < WriteTimeout THEN "replied" ELSE "late"]]
        BY <3>4 DEF Finish
      <4>3. QED
        BY <3>4, <4>1, <4>2, ChangesType DEF Finish
    <3>5. CASE Contact(id)
      <4>a. calls[id].next \in DOMAIN Connections(calls[id])
        BY <3>5 DEF Contact
      <4>1. calls[id].service \in Services /\ calls[id].url \in DOMAIN Endpoints[calls[id].service]
        BY <3>1, <4>a DEF Connections, Call
      <4>2. Connections(calls[id])[calls[id].next].url \in Urls
        BY <3>5, <4>1, EndpointsAssumption DEF Contact, Connections
      <4>3. QED
        BY <3>5, <4>2, MakesType DEF Contact, HasAddress
    <3>6. CASE Contacted(id)
      <4>1. [calls[id] EXCEPT !.next = @ + 1] \in Call
        BY <3>1 DEF Call
      <4>2. calls' = [calls EXCEPT ![id] = [calls[id] EXCEPT !.next = @ + 1]]
        BY <3>6 DEF Contacted
      <4>3. QED
        BY <3>6, <4>1, <4>2, ChangesType DEF Contacted
    <3>7. QED
      BY <2>2, <3>2, <3>3, <3>4, <3>5, <3>6
      DEF Handler, EntrypointUnknown, CannotContact, ContactFailed, ContactedAll
  <2>3. ASSUME NEW id \in Made, NEW outcome \in {"got", "failed"}, Client(id, outcome)
        PROVE  TypeOK'
    <3>0. calls[id] \in Call
      BY DEF TypeOK
    <3>1. [calls[id] EXCEPT !.client = outcome] \in Call
      BY <3>0 DEF Call
    <3>2. QED
      BY <2>3, <3>1, ChangesType DEF Client
  <2>4. ASSUME NEW id \in Made, Disconnect(id) PROVE TypeOK'
    <3>0. calls[id] \in Call
      BY DEF TypeOK
    <3>1. [calls[id] EXCEPT !.cancelled = TRUE] \in Call
      BY <3>0 DEF Call
    <3>2. QED
      BY <2>4, <3>1, ChangesType DEF Disconnect
  <2>5. ASSUME NEW s \in Services, Service(s) PROVE TypeOK'
    <3>1. CASE Interrupt(s)
      <4>a. ASSUME NEW id \in Made PROVE calls[id] \in Call /\ [calls[id] EXCEPT !.cancelled = TRUE] \in Call
        <5>1. calls[id] \in Call
          BY DEF TypeOK
        <5>2. QED
          BY <5>1 DEF Call
      <4>1. calls' \in [Made -> Call]
        BY <3>1, <4>a DEF Interrupt
      <4>2. QED
        BY <3>1, <4>1, MaxStopsAssumption DEF Interrupt, TypeOK, Made, Parent, Root
    <3>2. CASE Die(s)
      <4>a. \A id \in Made : calls[id] \in Call
        BY DEF TypeOK
      <4>b. ASSUME NEW id \in Made PROVE calls'[id] \in Call
        <5>1. PICK to \in {calls[id].server, "gone"}, end \in {calls[id].client, "failed"} :
                calls'[id] = [calls[id] EXCEPT !.server = to, !.client = end]
          BY <3>2 DEF Die
        <5>2. QED
          BY <4>a, <5>1 DEF Call
      <4>1. calls' \in [Made -> Call]
        BY <3>2, <4>b DEF Die
      <4>2. QED
        <5>1. state' \in [Services -> {"up", "stopping", "stopped", "down"}]
          BY <3>2 DEF Die, TypeOK
        <5>2. stops < MaxStops /\ stops' = stops + 1 /\ tracing' = tracing
          BY <3>2 DEF Die
        <5>3. stops' \in 0 .. MaxStops /\ tracing' \in BOOLEAN
          BY <5>2, MaxStopsAssumption DEF TypeOK
        <5>4. QED
          BY <4>1, <5>1, <5>3 DEF TypeOK, Made, Parent, Root
    <3>3. CASE ShutDown(s)
      BY <3>3 DEF ShutDown, TypeOK, Made, Parent, Root
    <3>4. CASE Restart(s)
      BY <3>4 DEF Restart, TypeOK, Made, Parent, Root
    <3>5. QED
      BY <2>5, <3>1, <3>2, <3>3, <3>4 DEF Service
  <2>6. CASE Tick
    <3>a. ASSUME NEW limit \in Nat, NEW age \in 0 .. limit PROVE Older(age, limit) \in 0 .. limit
      BY DEF Older
    <3>b. RequestTimeout \in Nat /\ WriteTimeout \in Nat
      BY TimeoutsAssumption
    <3>c. ASSUME NEW id \in Made PROVE calls'[id] \in Call
      <4>1. calls[id] \in Call
        BY DEF TypeOK
      <4>2. /\ Older(calls[id].sentAge, RequestTimeout) \in 0 .. RequestTimeout
            /\ Older(calls[id].readAge, WriteTimeout) \in 0 .. WriteTimeout
        BY <3>a, <3>b, <4>1 DEF Call
      <4>3. QED
        BY <2>6, <4>1, <4>2 DEF Tick, Call
    <3>1. calls' \in [Made -> Call]
      BY <2>6, <3>c DEF Tick
    <3>2. QED
      BY <2>6, <3>1, KeepsType DEF Tick
  <2>7. CASE UNCHANGED vars
    BY <2>7 DEF vars, TypeOK, Made, Parent, Root
  <2>8. QED
    BY <2>1, <2>2, <2>3, <2>4, <2>5, <2>6, <2>7
    DEF Next, Requester, Receive, Broken, TimedOut, Cancelled, GiveUp, Quiet
<1>3. QED
  BY <1>1, <1>2, PTL DEF Spec

----
(***************************************************************************)
(* Late answers.                                                           *)
(***************************************************************************)

\* A request somebody waits for was read no earlier than it was sent, and its answer is
\* not late: the inductive form of LateAnswersUnawaited.
Punctual(call) ==
  call.client = "waiting" => call.readAge <= call.sentAge /\ call.server # "late"

Timely == \A id \in Made \ {Root} : Punctual(calls[id])

\* Every other request stays as it is.
LEMMA ChangesOne ==
  ASSUME TypeOK, Timely, NEW id \in Made, NEW call,
         calls' = [calls EXCEPT ![id] = call], id # Root => Punctual(call)
  PROVE  Timely'
BY DEF TypeOK, Timely, Made, Root

\* A new request is punctual.
LEMMA MakesPunctual ==
  ASSUME Timely, NEW id, NEW s, NEW u, Make(id, s, u)
  PROVE  Timely'
<1>1. Punctual(NewCall(s, u))
  BY DEF Punctual, NewCall
<1>2. Made' = Made \cup {id} /\ \A c \in Made' : calls'[c] = IF c = id THEN NewCall(s, u) ELSE calls[c]
  BY DEF Make, Made
<1>3. QED
  BY <1>1, <1>2 DEF Timely, Root

\* The handler of a request somebody waits for returns before the write timeout: the
\* request timeout comes first.
LEMMA FinishesPunctual ==
  ASSUME TypeOK, Timely, NEW id \in Made, NEW code, Running(id), Finish(id, code)
  PROVE  Timely'
<1> DEFINE call == [calls[id] EXCEPT !.code = code,
              !.server = IF calls[id].readAge < WriteTimeout THEN "replied" ELSE "late"]
<1>1. calls[id] \in Call
  BY DEF TypeOK
<1>2. /\ calls[id].sentAge \in Nat /\ calls[id].sentAge <= RequestTimeout
      /\ calls[id].readAge \in Nat
  BY <1>1, TimeoutsAssumption DEF Call
<1>3. /\ call.client = calls[id].client /\ call.sentAge = calls[id].sentAge
      /\ call.readAge = calls[id].readAge
      /\ calls[id].readAge < WriteTimeout => call.server = "replied"
  BY <1>1 DEF Call
<1>4. ASSUME id # Root PROVE Punctual(call)
  <2>1. Punctual(calls[id])
    BY <1>4 DEF Timely
  <2>2. calls[id].client = "waiting" => calls[id].readAge < WriteTimeout
    BY <2>1, <1>2, TimeoutsAssumption DEF Punctual
  <2>3. QED
    BY <2>1, <2>2, <1>3 DEF Punctual
<1>5. calls' = [calls EXCEPT ![id] = call]
  BY DEF Finish
<1>6. QED
  BY <1>4, <1>5, ChangesOne

\* No server loses an answer another service still waits for to its write timeout
\* (main.go, WriteTimeout; utils.go, REQUEST_TIMEOUT).
THEOREM LateAnswersTheorem == Spec => []LateAnswersUnawaited
<1>1. Init => Timely
  BY DEF Init, Timely, Made
<1>2. TypeOK /\ Timely /\ [Next]_vars => Timely'
  <2> SUFFICES ASSUME TypeOK, Timely, [Next]_vars PROVE Timely'
    OBVIOUS
  <2>0. ASSUME NEW id \in Made \ {Root} PROVE Punctual(calls[id])
    BY DEF Timely
  <2>1. CASE Ask
    BY <2>1, MakesPunctual DEF Ask
  <2>2. ASSUME NEW id \in Made, Handler(id) PROVE Timely'
    <3>1. calls[id] \in Call
      BY DEF TypeOK
    <3>2. CASE Accept(id)
      <4>1. id # Root => Punctual([calls[id] EXCEPT !.server = "running"])
        BY <2>0, <3>1 DEF Punctual, Call
      <4>2. QED
        BY <3>2, <4>1, ChangesOne DEF Accept
    <3>3. CASE Refused(id)
      <4>1. id # Root => Punctual([calls[id] EXCEPT !.server = "gone"])
        BY <2>0, <3>1 DEF Punctual, Call
      <4>2. QED
        BY <3>3, <4>1, ChangesOne DEF Refused
    <3>4. CASE Contact(id)
      BY <3>4, MakesPunctual DEF Contact
    <3>5. CASE Contacted(id)
      <4>1. id # Root => Punctual([calls[id] EXCEPT !.next = @ + 1])
        BY <2>0, <3>1 DEF Punctual, Call
      <4>2. QED
        BY <3>5, <4>1, ChangesOne DEF Contacted
    <3>6. QED
      BY <2>2, <3>2, <3>3, <3>4, <3>5, FinishesPunctual
      DEF Handler, EntrypointUnknown, CannotContact, ContactFailed, ContactedAll
  <2>3. ASSUME NEW id \in Made, NEW outcome \in {"got", "failed"}, Client(id, outcome)
        PROVE  Timely'
    <3>1. Punctual([calls[id] EXCEPT !.client = outcome])
      BY <2>3 DEF Punctual, TypeOK, Call
    <3>2. QED
      BY <2>3, <3>1, ChangesOne DEF Client
  <2>4. ASSUME NEW id \in Made, Disconnect(id) PROVE Timely'
    <3>1. id # Root => Punctual([calls[id] EXCEPT !.cancelled = TRUE])
      BY <2>0 DEF Punctual, TypeOK, Call
    <3>2. QED
      BY <2>4, <3>1, ChangesOne DEF Disconnect
  <2>5. ASSUME NEW s \in Services, Service(s) PROVE Timely'
    <3>1. CASE Interrupt(s)
      <4>1. ASSUME NEW id \in Made \ {Root} PROVE Punctual(calls'[id])
        <5>1. Punctual([calls[id] EXCEPT !.cancelled = TRUE])
          BY <2>0 DEF Punctual, TypeOK, Call
        <5>2. QED
          BY <2>0, <3>1, <5>1 DEF Interrupt
      <4>2. QED
        BY <3>1, <4>1 DEF Interrupt, Timely, Made, Root
    <3>2. CASE Die(s)
      <4>1. ASSUME NEW id \in Made \ {Root} PROVE Punctual(calls'[id])
        <5>1. calls[id] \in Call
          BY DEF TypeOK
        <5>2. QED
          BY <2>0, <3>2, <5>1 DEF Die, Punctual, Call
      <4>2. QED
        BY <3>2, <4>1 DEF Die, Timely, Made, Root
    <3>3. CASE ShutDown(s)
      BY <3>3 DEF ShutDown, Timely, Made, Root
    <3>4. CASE Restart(s)
      BY <3>4 DEF Restart, Timely, Made, Root
    <3>5. QED
      BY <2>5, <3>1, <3>2, <3>3, <3>4 DEF Service
  <2>6. CASE Tick
    <3>1. ASSUME NEW id \in Made \ {Root} PROVE Punctual(calls'[id])
      <4>1. calls[id] \in Call
        BY DEF TypeOK
      <4>2. calls[id].sentAge \in Nat /\ calls[id].readAge \in Nat
        BY <4>1, TimeoutsAssumption DEF Call
      <4>3. /\ calls'[id].client = calls[id].client /\ calls'[id].server = calls[id].server
            /\ Waiting(id) => calls'[id].sentAge = calls[id].sentAge + 1
            /\ calls'[id].readAge \in {calls[id].readAge, calls[id].readAge + 1}
        BY <2>6, <4>1 DEF Tick, Call, Older, Made
      <4>4. Waiting(id) =>
              /\ calls[id].readAge <= calls[id].sentAge /\ calls[id].server # "late"
              /\ calls'[id].readAge <= calls[id].readAge + 1
        BY <2>0, <4>2, <4>3 DEF Punctual, Waiting
      <4>5. \A m, n, k \in Nat : m <= n /\ k <= m + 1 => k <= n + 1
        OBVIOUS
      <4>6. calls'[id].readAge \in Nat
        BY <4>2, <4>3
      <4>7. QED
        BY <4>2, <4>3, <4>4, <4>5, <4>6 DEF Punctual, Waiting
    <3>2. QED
      BY <2>6, <3>1 DEF Tick, Timely, Made, Root
  <2>7. CASE UNCHANGED vars
    BY <2>7 DEF vars, Timely, Made, Root
  <2>8. QED
    BY <2>1, <2>2, <2>3, <2>4, <2>5, <2>6, <2>7
    DEF Next, Requester, Receive, Broken, TimedOut, Cancelled, GiveUp, Quiet
<1>3. Timely => LateAnswersUnawaited
  BY DEF Timely, LateAnswersUnawaited, Punctual, Waiting
<1>4. QED
  BY <1>1, <1>2, <1>3, MeshTypeCorrect, PTL DEF Spec

----
(***************************************************************************)
(* The tree of requests: TreeInv.                                          *)
(***************************************************************************)
\* The handler of id went through the connections before the one it is at, each with an
\* answer; whoever got an answer got one that was written, and it is one of those the
\* service promises; whoever waits is waited for by a handler that is at this connection.
Sound(id) ==
  /\ \A i \in 1 .. calls[id].next - 1 :
       Child(id, i) \in Made /\ calls[Child(id, i)].client = "got"
  /\ calls[id].client = "got" => calls[id].server = "replied"
  /\ calls[id].server = "replied" => calls[id].code \in P!Allowed(calls[id].service, calls[id].url)
  /\ calls[id].code = "OK" => calls[id].next > Len(Connections(calls[id]))
  /\ id # Root =>
       /\ id[Len(id)] \in DOMAIN Connections(calls[Parent(id)])
       /\ Waiting(id) => Running(Parent(id)) /\ id = Current(Parent(id))

TreeInv == \A id \in Made : Sound(id)

\* The connections of an endpoint are a list.
LEMMA ConnectionsShape ==
  ASSUME NEW call \in Call
  PROVE  /\ Len(Connections(call)) \in Nat
         /\ DOMAIN Connections(call) = 1 .. Len(Connections(call))
BY EndpointsAssumption DEF Connections, Call

\* A request is the child of its parent, at its place.
LEMMA PlaceInTree ==
  ASSUME NEW id \in Seq(Nat \ {0}), id # Root
  PROVE  /\ Parent(id) \in Seq(Nat \ {0}) /\ id[Len(id)] \in Nat \ {0}
         /\ id = Child(Parent(id), id[Len(id)])
<1> DEFINE n == Len(id)
           p == SubSeq(id, 1, n - 1)
           t == Append(p, id[n])
<1>1. n \in Nat \ {0} /\ n - 1 \in Nat /\ n - 1 <= n
  BY DEF Root
<1>2. id[n] \in Nat \ {0}
  BY <1>1
<1>3. p \in Seq(Nat \ {0}) /\ Len(p) = n - 1 /\ \A k \in 1 .. n - 1 : p[k] = id[k]
  <2>1. \A k \in 1 .. n - 1 : k \in 1 .. n
    BY <1>1
  <2>2. p = [k \in 1 .. n - 1 |-> id[k]]
    BY <1>1
  <2>3. \A k \in 1 .. n : id[k] \in Nat \ {0}
    OBVIOUS
  <2>4. p \in [1 .. n - 1 -> Nat \ {0}]
    BY <2>1, <2>2, <2>3
  <2> HIDE DEF p, n
  <2>5. p \in Seq(Nat \ {0})
    BY <1>1, <2>4
  <2>6. Len(p) = n - 1
    BY <1>1, <2>2, <2>5
  <2>7. QED
    BY <2>2, <2>5, <2>6
<1>4. t \in Seq(Nat \ {0}) /\ Len(t) = n /\ t[n] = id[n] /\ \A k \in 1 .. n - 1 : t[k] = p[k]
  <2> HIDE DEF p
  <2>1. QED
    BY <1>1, <1>2, <1>3
<1>5. t = id
  <2> HIDE DEF p, t
  <2>1. ASSUME NEW k \in 1 .. n PROVE t[k] = id[k]
    <3>1. k = n \/ k \in 1 .. n - 1
      BY <1>1
    <3>2. QED
      BY <1>3, <1>4, <3>1
  <2>2. DOMAIN t = 1 .. n /\ DOMAIN id = 1 .. n
    BY <1>4
  <2>3. t = [k \in 1 .. n |-> t[k]] /\ id = [k \in 1 .. n |-> id[k]]
    BY <1>4, <2>2
  <2>4. QED
    BY <2>1, <2>3
<1>6. QED
  BY <1>2, <1>3, <1>5 DEF Child, Parent

\* What every request may do in a step.
Advances(id) ==
  /\ calls'[id].service = calls[id].service /\ calls'[id].url = calls[id].url
  /\ \/ calls'[id].next = calls[id].next
     \/ /\ calls'[id].next = calls[id].next + 1
        /\ Current(id) \in Made /\ calls[Current(id)].client = "got"
  /\ calls[id].client = "got" => calls'[id].client = "got"
  /\ calls'[id].client = "got" => calls'[id].server = "replied"
  /\ calls'[id].server = "replied" => calls'[id].code \in P!Allowed(calls[id].service, calls[id].url)
  /\ calls'[id].code = "OK" => calls'[id].next > Len(Connections(calls[id]))
  /\ id # Root /\ calls'[id].client = "waiting" =>
       /\ Waiting(id)
       /\ calls'[Parent(id)].server = "running" /\ calls'[Parent(id)].next = calls[Parent(id)].next

\* When every request advances, and none is made, the tree stays sound.
LEMMA AdvancesKeepTree ==
  ASSUME TypeOK, TreeInv, calls' \in [Made -> Call], \A id \in Made : Advances(id)
  PROVE  TreeInv'
<1>1. Made' = Made BY DEF Made
<1> SUFFICES ASSUME NEW id \in Made PROVE Sound(id)'
  BY <1>1 DEF TreeInv
<1>2. Sound(id) /\ Advances(id) BY DEF TreeInv
<1>3. calls[id] \in Call /\ calls'[id] \in Call BY DEF TypeOK
<1>4. Connections(calls'[id]) = Connections(calls[id]) BY <1>2 DEF Advances, Connections
<1>5. ASSUME NEW i \in 1 .. calls'[id].next - 1
      PROVE  Child(id, i) \in Made /\ calls'[Child(id, i)].client = "got"
  <2>1. calls[id].next \in Nat \ {0} BY <1>3 DEF Call
  <2>2. Child(id, i) \in Made /\ calls[Child(id, i)].client = "got"
    <3>1. CASE i \in 1 .. calls[id].next - 1 BY <3>1, <1>2 DEF Sound
    <3>2. CASE i \notin 1 .. calls[id].next - 1
      <4>1. /\ calls'[id].next = calls[id].next + 1
            /\ Current(id) \in Made /\ calls[Current(id)].client = "got"
        BY <3>2, <1>2 DEF Advances
      <4>2. i = calls[id].next BY <4>1, <3>2, <2>1
      <4> QED BY <4>1, <4>2 DEF Current
    <3> QED BY <3>1, <3>2
  <2>3. Advances(Child(id, i)) BY <2>2
  <2> QED BY <2>2, <2>3 DEF Advances
<1>6. ASSUME id # Root
      PROVE  /\ id[Len(id)] \in DOMAIN Connections(calls'[Parent(id)])
             /\ calls'[id].client = "waiting" =>
                  /\ calls'[Parent(id)].server = "running"
                  /\ id = Child(Parent(id), calls'[Parent(id)].next)
  <2>1. Parent(id) \in Made BY <1>6 DEF TypeOK
  <2>2. Advances(Parent(id)) BY <2>1
  <2>3. Connections(calls'[Parent(id)]) = Connections(calls[Parent(id)])
    BY <2>2 DEF Advances, Connections
  <2> QED BY <1>2, <1>6, <2>3 DEF Sound, Advances, Current
<1> QED BY <1>1, <1>2, <1>4, <1>5, <1>6 DEF Sound, Advances, Current, Waiting, Running, Parent, Root, Child

\* One request changes, and those below it that are waited for allow it.
LEMMA ChangesOneKeepsTree ==
  ASSUME TypeOK, TreeInv, NEW id \in Made, NEW call \in Call, calls' = [calls EXCEPT ![id] = call],
         call.service = calls[id].service, call.url = calls[id].url,
         \/ call.next = calls[id].next
         \/ /\ call.next = calls[id].next + 1
            /\ Current(id) \in Made /\ calls[Current(id)].client = "got",
         calls[id].client = "got" => call.client = "got",
         call.client = "got" => call.server = "replied",
         call.server = "replied" => call.code \in P!Allowed(calls[id].service, calls[id].url),
         call.code = "OK" => call.next > Len(Connections(calls[id])),
         call.client = "waiting" => Waiting(id),
         Current(id) \in Made /\ Waiting(Current(id)) =>
           call.server = "running" /\ call.next = calls[id].next
  PROVE  TreeInv'
<1>1. calls' \in [Made -> Call] BY DEF TypeOK
<1>2. \A c \in Made : calls'[c] = IF c = id THEN call ELSE calls[c] BY DEF Made
<1>3. ASSUME NEW c \in Made PROVE Advances(c)
  <2>1. Sound(c) /\ calls[c] \in Call BY DEF TreeInv, TypeOK
  <2>2. c # Root => Parent(c) \in Made BY DEF TypeOK
  <2>3. c # Root /\ calls'[c].client = "waiting" =>
          /\ Waiting(c)
          /\ calls'[Parent(c)].server = "running" /\ calls'[Parent(c)].next = calls[Parent(c)].next
    <3> SUFFICES ASSUME c # Root, calls'[c].client = "waiting"
                 PROVE  /\ Waiting(c)
                        /\ calls'[Parent(c)].server = "running" /\ calls'[Parent(c)].next = calls[Parent(c)].next
      OBVIOUS
    <3>1. Waiting(c) BY <1>2 DEF Waiting
    <3>2. Running(Parent(c)) /\ c = Current(Parent(c)) BY <2>1, <3>1 DEF Sound
    <3>3. CASE Parent(c) = id BY <3>1, <3>2, <3>3, <1>2
    <3>4. CASE Parent(c) # id BY <3>1, <3>2, <3>4, <2>2, <1>2 DEF Running
    <3> QED BY <3>1, <3>3, <3>4
  <2>4. CASE c = id BY <2>3, <2>4, <1>2 DEF Advances
  <2>5. CASE c # id BY <2>1, <2>3, <2>5, <1>2 DEF Advances, Sound
  <2> QED BY <2>4, <2>5
<1> QED BY <1>1, <1>3, AdvancesKeepTree

\* One request is made: the first one, or the next one of a handler.
LEMMA MakesKeepsTree ==
  ASSUME TypeOK, TreeInv, NEW id, id \notin Made, NEW s, NEW u, Make(id, s, u),
         id # Root => /\ Parent(id) \in Made
                      /\ id[Len(id)] \in DOMAIN Connections(calls[Parent(id)])
                      /\ Running(Parent(id)) /\ id = Current(Parent(id))
  PROVE  TreeInv'
<1>1. /\ Made' = Made \cup {id} /\ calls'[id] = NewCall(s, u)
      /\ \A c \in Made : calls'[c] = calls[c]
  BY DEF Make, Made
<1>2. Sound(id)'
  <2>1. /\ NewCall(s, u).next = 1 /\ NewCall(s, u).client = "waiting"
        /\ NewCall(s, u).server = "sent" /\ NewCall(s, u).code = "none"
    BY DEF NewCall
  <2>2. 1 .. NewCall(s, u).next - 1 = {}
    BY <2>1
  <2>3. id # Root => /\ id[Len(id)] \in DOMAIN Connections(calls'[Parent(id)])
                     /\ calls'[Parent(id)].server = "running"
                     /\ id = Child(Parent(id), calls'[Parent(id)].next)
    BY <1>1 DEF Running, Current
  <2>4. QED
    BY <1>1, <2>1, <2>2, <2>3 DEF Sound, Waiting, Running, Current, Root, Parent, Child
<1>3. ASSUME NEW c \in Made PROVE Sound(c)'
  <2>1. Sound(c) /\ calls'[c] = calls[c]
    BY <1>1 DEF TreeInv
  <2>2. c # Root => calls'[Parent(c)] = calls[Parent(c)]
    BY <1>1 DEF TypeOK
  <2>3. \A i \in 1 .. calls[c].next - 1 :
          Child(c, i) \in Made' /\ calls'[Child(c, i)].client = "got"
    BY <1>1, <2>1 DEF Sound
  <2>4. QED
    BY <2>1, <2>2, <2>3 DEF Sound, Waiting, Running, Current, Root, Parent, Child, Connections
<1>4. QED
  BY <1>1, <1>2, <1>3 DEF TreeInv

\* A handler answers: with a status the endpoint may have, and 200 only at the end.
LEMMA FinishesKeepsTree ==
  ASSUME TypeOK, TreeInv, NEW id \in Made, NEW code \in {"OK", "NotFound", "InternalServerError"},
         Running(id), Finish(id, code),
         code \in P!Allowed(calls[id].service, calls[id].url),
         code = "OK" => calls[id].next > Len(Connections(calls[id])),
         ~(Current(id) \in Made /\ Waiting(Current(id)))
  PROVE  TreeInv'
<1> DEFINE call == [calls[id] EXCEPT !.code = code,
              !.server = IF calls[id].readAge < WriteTimeout THEN "replied" ELSE "late"]
<1>1. calls[id] \in Call /\ Sound(id)
  BY DEF TypeOK, TreeInv
<1>2. call \in Call
  BY <1>1 DEF Call
<1>3. /\ call.service = calls[id].service /\ call.url = calls[id].url
      /\ call.next = calls[id].next /\ call.client = calls[id].client /\ call.code = code
  BY <1>1 DEF Call
<1>4. calls[id].client # "got"
  BY <1>1 DEF Sound, Running
<1>5. calls' = [calls EXCEPT ![id] = call]
  BY DEF Finish
<1> HIDE DEF call
<1>6. QED
  BY <1>2, <1>3, <1>4, <1>5, ChangesOneKeepsTree DEF Waiting

\* The request a handler contacts next is waited for until its client ends.
LEMMA NoWaitAfterEnd ==
  ASSUME TypeOK, TreeInv, NEW id \in Made, calls[id].server # "running"
  PROVE  ~(Current(id) \in Made /\ Waiting(Current(id)))
<1>1. id \in Seq(Nat \ {0}) /\ calls[id].next \in Nat \ {0}
  BY DEF TypeOK, Call
<1>2. Current(id) # Root /\ Parent(Current(id)) = id
  BY <1>1, ChildInTree DEF Current
<1>3. QED
  BY <1>2 DEF TreeInv, Sound, Running

\* A handler is at a connection when it made the request of it.
LEMMA CurrentInRange ==
  ASSUME TypeOK, TreeInv, NEW id \in Made, Current(id) \in Made
  PROVE  /\ calls[id].next \in DOMAIN Connections(calls[id])
         /\ Waiting(Current(id)) => Running(id)
<1>1. id \in Seq(Nat \ {0}) /\ calls[id].next \in Nat \ {0}
  BY DEF TypeOK, Call
<1>2. Current(id) # Root /\ Parent(Current(id)) = id
  BY <1>1, ChildInTree DEF Current
<1>3. Current(id)[Len(Current(id))] = calls[id].next
  BY <1>1 DEF Current, Child
<1>4. QED
  BY <1>2, <1>3 DEF TreeInv, Sound

\* An endpoint with connections may answer 200 and 500, one without them 200 only.
LEMMA AllowedStatuses ==
  ASSUME NEW call \in Call
  PROVE  /\ call.url \notin DOMAIN Endpoints[call.service] =>
              "NotFound" \in P!Allowed(call.service, call.url) /\ DOMAIN Connections(call) = {}
         /\ call.url \in DOMAIN Endpoints[call.service] =>
              "OK" \in P!Allowed(call.service, call.url)
         /\ DOMAIN Connections(call) # {} =>
              "InternalServerError" \in P!Allowed(call.service, call.url)
BY DEF P!Allowed, Connections

\* Every step of a handler keeps the tree.
LEMMA HandlerKeepsTree ==
  ASSUME TypeOK, TreeInv, NEW id \in Made, Handler(id)
  PROVE  TreeInv'
<1>1. calls[id] \in Call /\ Sound(id)
  BY DEF TypeOK, TreeInv
<1>2. calls[id].next \in Nat \ {0} /\ Len(Connections(calls[id])) \in Nat
      /\ DOMAIN Connections(calls[id]) = 1 .. Len(Connections(calls[id]))
  BY <1>1, ConnectionsShape DEF Call
<1>3. CASE Accept(id)
  <2> DEFINE call == [calls[id] EXCEPT !.server = "running"]
  <2>1. call \in Call
    BY <1>1 DEF Call
  <2>2. /\ call.service = calls[id].service /\ call.url = calls[id].url
        /\ call.next = calls[id].next /\ call.client = calls[id].client
        /\ call.code = calls[id].code /\ call.server = "running"
    BY <1>1 DEF Call
  <2>3. calls' = [calls EXCEPT ![id] = call] /\ calls[id].server = "sent"
    BY <1>3 DEF Accept
  <2>4. calls[id].client # "got" /\ (calls[id].code = "OK" => calls[id].next > Len(Connections(calls[id])))
    BY <1>1, <2>3 DEF Sound
  <2> HIDE DEF call
  <2>5. QED
    BY <2>1, <2>2, <2>3, <2>4, ChangesOneKeepsTree DEF Waiting
<1>4. CASE Refused(id)
  <2> DEFINE call == [calls[id] EXCEPT !.server = "gone"]
  <2>1. call \in Call
    BY <1>1 DEF Call
  <2>2. /\ call.service = calls[id].service /\ call.url = calls[id].url
        /\ call.next = calls[id].next /\ call.client = calls[id].client
        /\ call.code = calls[id].code /\ call.server = "gone"
    BY <1>1 DEF Call
  <2>3. calls' = [calls EXCEPT ![id] = call] /\ calls[id].server = "sent"
    BY <1>4 DEF Refused
  <2>4. calls[id].client # "got" /\ (calls[id].code = "OK" => calls[id].next > Len(Connections(calls[id])))
    BY <1>1, <2>3 DEF Sound
  <2>5. ~(Current(id) \in Made /\ Waiting(Current(id)))
    BY <2>3, NoWaitAfterEnd
  <2> HIDE DEF call
  <2>6. QED
    BY <2>1, <2>2, <2>3, <2>4, <2>5, ChangesOneKeepsTree DEF Waiting
<1>5. CASE EntrypointUnknown(id)
  <2>1. Current(id) \notin Made
    BY <1>1, <1>5, CurrentInRange, AllowedStatuses DEF EntrypointUnknown
  <2>2. QED
    BY <1>1, <1>5, <2>1, FinishesKeepsTree, AllowedStatuses DEF EntrypointUnknown
<1>6. CASE CannotContact(id)
  BY <1>1, <1>6, FinishesKeepsTree, AllowedStatuses DEF CannotContact
<1>7. CASE ContactFailed(id)
  BY <1>1, <1>7, FinishesKeepsTree, AllowedStatuses, CurrentInRange DEF ContactFailed, Waiting
<1>8. CASE ContactedAll(id)
  <2>1. Current(id) \notin Made
    BY <1>2, <1>8, CurrentInRange DEF ContactedAll
  <2>2. QED
    BY <1>1, <1>8, <2>1, FinishesKeepsTree, AllowedStatuses DEF ContactedAll
<1>9. CASE Contact(id)
  <2>1. id \in Seq(Nat \ {0})
    BY DEF TypeOK
  <2>2. Current(id) # Root /\ Parent(Current(id)) = id
    BY <1>2, <2>1, ChildInTree DEF Current
  <2>3. Current(id)[Len(Current(id))] = calls[id].next
    BY <1>2, <2>1 DEF Current, Child
  <2>4. QED
    BY <1>9, <2>2, <2>3, MakesKeepsTree DEF Contact
<1>10. CASE Contacted(id)
  <2> DEFINE call == [calls[id] EXCEPT !.next = @ + 1]
  <2>1. call \in Call
    BY <1>1 DEF Call
  <2>2. /\ call.service = calls[id].service /\ call.url = calls[id].url
        /\ call.next = calls[id].next + 1 /\ call.client = calls[id].client
        /\ call.code = calls[id].code /\ call.server = "running"
    BY <1>1, <1>10 DEF Call, Contacted, Running
  <2>3. /\ calls' = [calls EXCEPT ![id] = call] /\ calls[id].server = "running"
        /\ Current(id) \in Made /\ calls[Current(id)].client = "got"
    BY <1>10 DEF Contacted, Running
  <2>4. calls[id].client # "got" /\ (calls[id].code = "OK" => calls[id].next > Len(Connections(calls[id])))
    BY <1>1, <2>3 DEF Sound
  <2>5. call.code = "OK" => call.next > Len(Connections(calls[id]))
    BY <1>2, <2>2, <2>4
  <2> HIDE DEF call
  <2>6. QED
    BY <2>1, <2>2, <2>3, <2>4, <2>5, ChangesOneKeepsTree DEF Waiting
<1>11. QED
  BY <1>3, <1>4, <1>5, <1>6, <1>7, <1>8, <1>9, <1>10 DEF Handler

\* A client that ends keeps the tree.
LEMMA ClientKeepsTree ==
  ASSUME TypeOK, TreeInv, NEW id \in Made, NEW outcome \in {"got", "failed"},
         Client(id, outcome), Waiting(id), outcome = "got" => calls[id].server = "replied"
  PROVE  TreeInv'
<1> DEFINE call == [calls[id] EXCEPT !.client = outcome]
<1>1. calls[id] \in Call /\ Sound(id)
  BY DEF TypeOK, TreeInv
<1>2. call \in Call
  BY <1>1 DEF Call
<1>3. /\ call.service = calls[id].service /\ call.url = calls[id].url
      /\ call.next = calls[id].next /\ call.client = outcome
      /\ call.code = calls[id].code /\ call.server = calls[id].server
  BY <1>1 DEF Call
<1>4. /\ calls' = [calls EXCEPT ![id] = call]
      /\ calls[id].client = "waiting"
  BY DEF Client, Waiting
<1>5. /\ calls[id].code = "OK" => calls[id].next > Len(Connections(calls[id]))
      /\ calls[id].server = "replied" => calls[id].code \in P!Allowed(calls[id].service, calls[id].url)
  BY <1>1 DEF Sound
<1>6. Current(id) \in Made /\ Waiting(Current(id)) => calls[id].server = "running"
  BY CurrentInRange DEF Running
<1> HIDE DEF call
<1>7. QED
  BY <1>2, <1>3, <1>4, <1>5, <1>6, ChangesOneKeepsTree

\* The end of the context of a request keeps the tree.
LEMMA DisconnectKeepsTree ==
  ASSUME TypeOK, TreeInv, NEW id \in Made, Disconnect(id)
  PROVE  TreeInv'
<1> DEFINE call == [calls[id] EXCEPT !.cancelled = TRUE]
<1>1. calls[id] \in Call /\ Sound(id)
  BY DEF TypeOK, TreeInv
<1>2. call \in Call
  BY <1>1 DEF Call
<1>3. /\ call.service = calls[id].service /\ call.url = calls[id].url
      /\ call.next = calls[id].next /\ call.client = calls[id].client
      /\ call.code = calls[id].code /\ call.server = "running"
  BY <1>1 DEF Call, Disconnect, Running
<1>4. /\ calls' = [calls EXCEPT ![id] = call] /\ calls[id].server = "running"
      /\ calls[id].client = "failed"
  BY DEF Disconnect, Running
<1>5. calls[id].code = "OK" => calls[id].next > Len(Connections(calls[id]))
  BY <1>1 DEF Sound
<1> HIDE DEF call
<1>6. QED
  BY <1>2, <1>3, <1>4, <1>5, ChangesOneKeepsTree DEF Waiting

\* What a step that leaves every answer and every place alone has to respect.
LEMMA FramesKeepTree ==
  ASSUME TypeOK, TreeInv, calls' \in [Made -> Call],
         \A id \in Made :
           /\ calls'[id].service = calls[id].service /\ calls'[id].url = calls[id].url
           /\ calls'[id].next = calls[id].next /\ calls'[id].code = calls[id].code
           /\ calls'[id].client # calls[id].client =>
                calls[id].client = "waiting" /\ calls'[id].client = "failed"
           /\ calls'[id].server # calls[id].server =>
                calls[id].server = "running" /\ calls'[id].server = "gone",
         \A id \in Made \ {Root} :
           Waiting(id) /\ calls'[Parent(id)].server # "running" => calls'[id].client # "waiting"
  PROVE  TreeInv'
<1>1. ASSUME NEW id \in Made PROVE Advances(id)
  <2>1. Sound(id) /\ calls[id] \in Call
    BY DEF TreeInv, TypeOK
  <2>2. id # Root => Parent(id) \in Made
    BY DEF TypeOK
  <2>3. /\ calls[id].client = "got" => calls'[id].client = "got"
        /\ calls'[id].client = "got" => calls[id].client = "got"
        /\ calls'[id].client = "waiting" => Waiting(id)
        /\ calls'[id].server = "replied" => calls[id].server = "replied"
        /\ calls[id].server = "replied" => calls'[id].server = "replied"
    BY DEF Waiting
  <2>4. id # Root /\ calls'[id].client = "waiting" =>
          /\ calls'[Parent(id)].server = "running"
          /\ calls'[Parent(id)].next = calls[Parent(id)].next
    BY <2>2, <2>3
  <2>5. QED
    BY <2>1, <2>3, <2>4 DEF Advances, Sound
<1>2. QED
  BY <1>1, AdvancesKeepTree

\* A service that stops, dies or starts keeps the tree.
LEMMA ServiceKeepsTree ==
  ASSUME TypeOK, TreeInv, NEW s \in Services, Service(s)
  PROVE  TreeInv'
<1>1. \A id \in Made : calls[id] \in Call
  BY DEF TypeOK
<1>2. CASE Interrupt(s)
  <2>1. ASSUME NEW id \in Made
        PROVE  /\ calls'[id] \in Call
               /\ calls'[id].service = calls[id].service /\ calls'[id].url = calls[id].url
               /\ calls'[id].next = calls[id].next /\ calls'[id].code = calls[id].code
               /\ calls'[id].client = calls[id].client /\ calls'[id].server = calls[id].server
    <3>1. calls'[id] \in {calls[id], [calls[id] EXCEPT !.cancelled = TRUE]}
      BY <1>2 DEF Interrupt
    <3>2. QED
      BY <1>1, <3>1 DEF Call
  <2>2. calls' \in [Made -> Call]
    BY <1>2, <2>1 DEF Interrupt
  <2>3. ASSUME NEW id \in Made \ {Root}, Waiting(id) PROVE calls'[Parent(id)].server = "running"
    <3>1. Parent(id) \in Made
      BY DEF TypeOK
    <3>2. calls[Parent(id)].server = "running"
      BY <2>3 DEF TreeInv, Sound, Running
    <3>3. QED
      BY <2>1, <3>1, <3>2
  <2>4. QED
    BY <2>1, <2>2, <2>3, FramesKeepTree
<1>3. CASE Die(s)
  <2>1. ASSUME NEW id \in Made
        PROVE  /\ calls'[id] \in Call
               /\ calls'[id].service = calls[id].service /\ calls'[id].url = calls[id].url
               /\ calls'[id].next = calls[id].next /\ calls'[id].code = calls[id].code
               /\ calls'[id].client = IF id # Root /\ Parent(id) \in HandlersOf(s) /\ calls[id].client = "waiting"
                                      THEN "failed" ELSE calls[id].client
               /\ calls'[id].server = IF id \in HandlersOf(s) THEN "gone" ELSE calls[id].server
    <3> HIDE DEF HandlersOf
    <3>1. calls'[id] = [calls[id] EXCEPT
             !.server = IF id \in HandlersOf(s) THEN "gone" ELSE @,
             !.client = IF id # Root /\ Parent(id) \in HandlersOf(s) /\ @ = "waiting"
                        THEN "failed" ELSE @]
      BY <1>3 DEF Die
    <3>2. QED
      BY <1>1, <3>1 DEF Call
  <2>2. calls' \in [Made -> Call]
    BY <1>3, <2>1 DEF Die
  <2>3. \A id \in HandlersOf(s) : id \in Made /\ calls[id].server = "running"
    BY DEF HandlersOf, Running
  <2>4. ASSUME NEW id \in Made \ {Root}, Waiting(id), calls'[Parent(id)].server # "running"
        PROVE  calls'[id].client # "waiting"
    <3>1. Parent(id) \in Made /\ calls[Parent(id)].server = "running"
      BY <2>4 DEF TypeOK, TreeInv, Sound, Running
    <3>2. Parent(id) \in HandlersOf(s)
      BY <2>1, <2>4, <3>1
    <3>3. QED
      BY <2>1, <2>4, <3>2 DEF Waiting
  <2>5. QED
    BY <2>1, <2>2, <2>3, <2>4, FramesKeepTree
<1>4. CASE ShutDown(s) \/ Restart(s)
  BY <1>4 DEF ShutDown, Restart, TreeInv, Sound, Made, Waiting, Running, Current, Connections,
    Root, Parent, Child
<1>5. QED
  BY <1>2, <1>3, <1>4 DEF Service

\* Time keeps the tree.
LEMMA TickKeepsTree ==
  ASSUME TypeOK, TreeInv, Tick, TypeOK'
  PROVE  TreeInv'
<1>1. ASSUME NEW id \in Made
      PROVE  /\ calls'[id].service = calls[id].service /\ calls'[id].url = calls[id].url
             /\ calls'[id].next = calls[id].next /\ calls'[id].code = calls[id].code
             /\ calls'[id].client = calls[id].client /\ calls'[id].server = calls[id].server
  <2>1. calls[id] \in Call
    BY DEF TypeOK
  <2>2. QED
    BY <2>1 DEF Tick, Call
<1>2. Made' = Made
  BY DEF Tick, Made
<1>3. calls' \in [Made -> Call]
  BY <1>2 DEF TypeOK
<1>4. \A id \in Made \ {Root} : Waiting(id) => calls'[Parent(id)].server = "running"
  BY <1>1 DEF TypeOK, TreeInv, Sound, Running
<1>5. QED
  BY <1>1, <1>3, <1>4, FramesKeepTree

\* The requests form one tree, in which every handler is where its answers say it is.
LEMMA TreeInvariant == Spec => [](TypeOK /\ TreeInv)
<1>1. Init => TreeInv
  BY DEF Init, TreeInv, Made
<1>2. TypeOK /\ TypeOK' /\ TreeInv /\ [Next]_vars => TreeInv'
  <2> SUFFICES ASSUME TypeOK, TypeOK', TreeInv, [Next]_vars PROVE TreeInv'
    OBVIOUS
  <2>1. CASE Ask
    <3>1. PICK s \in Services, u \in Urls : Make(Root, s, u)
      BY <2>1 DEF Ask
    <3>2. Root \notin Made
      BY <2>1 DEF Ask
    <3>3. QED
      BY <3>1, <3>2, MakesKeepsTree
  <2>2. ASSUME NEW id \in Made, Handler(id) PROVE TreeInv'
    BY <2>2, HandlerKeepsTree
  <2>3. ASSUME NEW id \in Made, Requester(id) \/ (id = Root /\ GiveUp) PROVE TreeInv'
    BY <2>3, ClientKeepsTree DEF Requester, Receive, Broken, TimedOut, Cancelled, GiveUp
  <2>4. ASSUME NEW id \in Made, Disconnect(id) PROVE TreeInv'
    BY <2>4, DisconnectKeepsTree
  <2>5. ASSUME NEW s \in Services, Service(s) PROVE TreeInv'
    BY <2>5, ServiceKeepsTree
  <2>6. CASE Tick
    BY <2>6, TickKeepsTree
  <2>7. CASE UNCHANGED vars
    BY <2>7 DEF vars, TreeInv, Sound, Made, Waiting, Running, Current, Connections, Root, Parent, Child
  <2>8. QED
    BY <2>1, <2>2, <2>3, <2>4, <2>5, <2>6, <2>7 DEF Next, Quiet, GiveUp
<1>3. QED
  BY <1>1, <1>2, MeshTypeCorrect, PTL DEF Spec

\* A service answers 200 only after each of its requests was answered, whatever was given
\* up, interrupted or killed meanwhile (server_side.go, getRootJaeger and getRootNoJaeger).
THEOREM SuccessContactsAllTheorem == Spec => []SuccessContactsAll
<1>1. TypeOK /\ TreeInv => SuccessContactsAll
  <2> SUFFICES ASSUME TypeOK, TreeInv, NEW id \in Made, calls[id].code = "OK",
                      NEW i \in DOMAIN Connections(calls[id])
               PROVE  /\ Child(id, i) \in Made
                      /\ calls[Child(id, i)].client = "got"
                      /\ calls[Child(id, i)].server = "replied"
    BY DEF SuccessContactsAll
  <2>1. calls[id] \in Call /\ Sound(id)
    BY DEF TypeOK, TreeInv
  <2>2. i \in 1 .. Len(Connections(calls[id])) /\ Len(Connections(calls[id])) \in Nat
    BY <2>1, ConnectionsShape
  <2>3. calls[id].next > Len(Connections(calls[id])) /\ calls[id].next \in Nat \ {0}
    BY <2>1 DEF Sound, Call
  <2>4. i \in 1 .. calls[id].next - 1
    BY <2>2, <2>3
  <2>5. Child(id, i) \in Made /\ calls[Child(id, i)].client = "got"
    BY <2>1, <2>4 DEF Sound
  <2>6. Sound(Child(id, i))
    BY <2>5 DEF TreeInv
  <2>7. QED
    BY <2>5, <2>6 DEF Sound
<1>2. QED
  BY <1>1, TreeInvariant, PTL

----
(***************************************************************************)
(* The services keep their promise: Mesh implements MeshPromise.           *)
(***************************************************************************)
\* A request, once made, stays what it is; its client ends once, and an answer once
\* written stays.
Kept(id) ==
  /\ id \in Made'
  /\ calls'[id].service = calls[id].service /\ calls'[id].url = calls[id].url
  /\ calls'[id].client # calls[id].client => Waiting(id)
  /\ calls[id].server = "replied" => calls'[id].code = calls[id].code

\* No step of the services changes what whoever asked has seen.
LEMMA StepsKeep ==
  ASSUME TypeOK, Next, NEW id \in Made
  PROVE  Kept(id)
<1>1. calls[id] \in Call
  BY DEF TypeOK
<1>2. ASSUME NEW new, new \notin Made, NEW s, NEW u, Make(new, s, u) PROVE Kept(id)
  BY <1>2 DEF Make, Kept, Made
<1>3. CASE Ask
  BY <1>2, <1>3 DEF Ask
<1>4. ASSUME NEW c \in Made, Handler(c) PROVE Kept(id)
  <2>1. ASSUME NEW code, Running(c), Finish(c, code) PROVE Kept(id)
    BY <1>1, <2>1 DEF Finish, Running, Kept, Made, Call
  <2>2. CASE Contact(c)
    BY <1>2, <2>2 DEF Contact
  <2>3. CASE Accept(c) \/ Refused(c) \/ Contacted(c)
    BY <1>1, <2>3 DEF Accept, Refused, Contacted, Kept, Made, Call
  <2>4. QED
    BY <1>4, <2>1, <2>2, <2>3
    DEF Handler, EntrypointUnknown, CannotContact, ContactFailed, ContactedAll
<1>5. ASSUME NEW c \in Made, NEW outcome, Waiting(c), Client(c, outcome) PROVE Kept(id)
  BY <1>1, <1>5 DEF Client, Kept, Made, Call, Waiting
<1>6. ASSUME NEW c \in Made, Requester(c) \/ (c = Root /\ GiveUp) PROVE Kept(id)
  BY <1>5, <1>6 DEF Requester, Receive, Broken, TimedOut, Cancelled, GiveUp
<1>7. ASSUME NEW c \in Made, Disconnect(c) PROVE Kept(id)
  BY <1>1, <1>7 DEF Disconnect, Kept, Made, Call
<1>8. ASSUME NEW s \in Services, Service(s) PROVE Kept(id)
  <2>1. CASE Interrupt(s)
    <3>1. id \in Made' /\ calls'[id] \in {calls[id], [calls[id] EXCEPT !.cancelled = TRUE]}
      BY <2>1 DEF Interrupt, Made
    <3>2. QED
      BY <1>1, <3>1 DEF Kept, Call
  <2>2. CASE Die(s)
    <3> HIDE DEF HandlersOf
    <3>1. id \in Made'
      BY <2>2 DEF Die, Made
    <3>2. calls'[id] = [calls[id] EXCEPT
             !.server = IF id \in HandlersOf(s) THEN "gone" ELSE @,
             !.client = IF id # Root /\ Parent(id) \in HandlersOf(s) /\ @ = "waiting"
                        THEN "failed" ELSE @]
      BY <2>2 DEF Die
    <3>3. QED
      BY <1>1, <3>1, <3>2 DEF Kept, Call, Waiting
  <2>3. CASE ShutDown(s) \/ Restart(s)
    BY <2>3 DEF ShutDown, Restart, Kept, Made
  <2>4. QED
    BY <1>8, <2>1, <2>2, <2>3 DEF Service
<1>9. CASE Tick
  BY <1>1, <1>9 DEF Tick, Kept, Made, Call
<1>10. CASE Quiet
  BY <1>10 DEF Quiet, vars, Kept, Made
<1>11. QED
  BY <1>3, <1>4, <1>6, <1>7, <1>8, <1>9, <1>10 DEF Next, GiveUp

\* The tree of requests begins with what somebody asks for.
LEMMA FirstIsAsked ==
  ASSUME TypeOK, Next, Root \notin Made, Root \in Made'
  PROVE  \E s \in Services, u \in Urls : calls'[Root] = NewCall(s, u)
<1>1. CASE Ask
  BY <1>1 DEF Ask, Make
<1>2. ASSUME NEW id \in Made, Handler(id) PROVE FALSE
  <2>1. CASE Contact(id)
    <3>1. id \in Seq(Nat \ {0}) /\ calls[id].next \in Nat \ {0}
      BY DEF TypeOK, Call
    <3>2. Current(id) # Root
      BY <3>1, ChildInTree DEF Current
    <3>3. Made' = Made \cup {Current(id)}
      BY <2>1 DEF Contact, Make, Made
    <3>4. QED
      BY <3>2, <3>3
  <2>2. CASE ~Contact(id)
    BY <1>2, <2>2 DEF Handler, Accept, Refused, EntrypointUnknown, CannotContact, Contacted,
      ContactFailed, ContactedAll, Finish, Made, TypeOK
  <2>3. QED
    BY <2>1, <2>2
<1>3. ASSUME NEW id \in Made, Requester(id) \/ Disconnect(id) PROVE FALSE
  BY <1>3 DEF Requester, Receive, Broken, TimedOut, Cancelled, Client, Disconnect, Made, TypeOK
<1>4. ASSUME NEW s \in Services, Service(s) PROVE FALSE
  BY <1>4 DEF Service, Interrupt, Die, ShutDown, Restart, Made
<1>5. QED
  BY <1>1, <1>2, <1>3, <1>4 DEF Next, GiveUp, Tick, Quiet, vars, Made

\* Whoever asks for a URL is told what the configuration promises, or sees the connection
\* broken: never two answers, and never another one (main.go, server_side.go).
THEOREM PromiseTheorem == Spec => Promised
<1>1. Init => P!PInit
  <2> SUFFICES ASSUME Init PROVE P!PInit
    OBVIOUS
  <2>1. Root \notin Made
    BY DEF Init, Made
  <2>2. QED
    BY <2>1 DEF P!PInit
<1>2. TypeOK /\ TreeInv /\ TypeOK' /\ TreeInv' /\ [Next]_vars => [P!PNext]_(P!pvars)
  <2> SUFFICES ASSUME TypeOK, TreeInv, TypeOK', TreeInv', [Next]_vars
               PROVE  [P!PNext]_(P!pvars)
    OBVIOUS
  <2> DEFINE asked == IF Root \in Made THEN <<calls[Root].service, calls[Root].url>> ELSE <<>>
             answer == IF Root \notin Made THEN "none"
                       ELSE CASE Waiting(Root) -> "pending"
                              [] calls[Root].client = "got" -> calls[Root].code
                              [] OTHER -> "broken"
  <2>1. \/ UNCHANGED <<asked, answer>>
        \/ /\ answer = "none" /\ answer' = "pending"
           /\ \E s \in Services, u \in Urls : asked' = <<s, u>>
        \/ /\ answer = "pending" /\ asked' = asked
           /\ answer' = "broken" \/ answer' \in P!Allowed(asked[1], asked[2])
    <3>1. CASE UNCHANGED vars
      BY <3>1 DEF vars, Made, Waiting, Root
    <3>2. CASE Next /\ Root \notin Made /\ Root \notin Made'
      BY <3>2 DEF Root
    <3>3. CASE Next /\ Root \notin Made /\ Root \in Made'
      <4>1. PICK s \in Services, u \in Urls : calls'[Root] = NewCall(s, u)
        BY <3>3, FirstIsAsked
      <4>2. /\ calls'[Root].service = s /\ calls'[Root].url = u
            /\ calls'[Root].client = "waiting"
        BY <4>1 DEF NewCall
      <4>3. QED
        BY <3>3, <4>2 DEF Root, Waiting
    <3>4. CASE Next /\ Root \in Made
      <4>1. Kept(Root) /\ Sound(Root) /\ calls[Root] \in Call
        BY <3>4, StepsKeep DEF TreeInv, TypeOK
      <4>2. Root \in Made' /\ asked' = asked
        BY <3>4, <4>1 DEF Kept, Root
      <4>3. calls'[Root] \in Call
        BY <4>2 DEF TypeOK, Root
      <4>4. CASE calls'[Root].client = calls[Root].client
        <5>1. calls[Root].client = "got" => calls'[Root].code = calls[Root].code
          BY <4>1 DEF Kept, Sound
        <5>2. QED
          BY <3>4, <4>2, <4>4, <5>1 DEF Waiting, Root
      <4>5. CASE calls'[Root].client # calls[Root].client
        <5>1. calls[Root].client = "waiting" /\ answer = "pending"
          BY <3>4, <4>1, <4>5 DEF Kept, Waiting
        <5>2. CASE calls'[Root].client = "got"
          <6>1. calls'[Root].code \in P!Allowed(calls'[Root].service, calls'[Root].url)
            BY <4>2, <5>2 DEF TreeInv, Sound, Root, P!Allowed
          <6>2. answer' = calls'[Root].code
            BY <4>2, <5>2 DEF Waiting, Root
          <6>3. asked[1] = calls'[Root].service /\ asked[2] = calls'[Root].url
            BY <3>4, <4>1 DEF Kept
          <6>4. QED
            BY <4>2, <5>1, <6>1, <6>2, <6>3
        <5>3. CASE calls'[Root].client # "got"
          <6>1. calls'[Root].client = "failed"
            BY <4>3, <4>5, <5>1, <5>3 DEF Call
          <6>2. answer' = "broken"
            BY <4>2, <6>1 DEF Waiting, Root
          <6>3. QED
            BY <4>2, <5>1, <6>2
        <5>4. QED
          BY <5>2, <5>3
      <4>6. QED
        BY <4>4, <4>5
    <3>5. QED
      BY <3>1, <3>2, <3>3, <3>4
  <2>2. QED
    BY <2>1 DEF P!PNext, P!PAsk, P!PAnswer, P!PBroken, P!pvars
<1>3. QED
  BY <1>1, <1>2, TreeInvariant, PTL DEF Spec, Promised, P!PSpec

----
(***************************************************************************)
(* One branch at a time.                                                   *)
(***************************************************************************)
\* What the requests above one look like.
LEMMA PrefixFacts ==
  ASSUME NEW id \in Seq(Nat \ {0}), NEW k \in 0 .. Len(id)
  PROVE  /\ SubSeq(id, 1, k) \in Seq(Nat \ {0})
         /\ Len(SubSeq(id, 1, k)) = k
         /\ SubSeq(id, 1, k) = [i \in 1 .. k |-> id[i]]
<1> DEFINE p == SubSeq(id, 1, k)
<1>1. k \in Nat /\ \A i \in 1 .. k : i \in 1 .. Len(id)
  OBVIOUS
<1>2. p = [i \in 1 .. k |-> id[i]]
  OBVIOUS
<1>3. \A i \in 1 .. Len(id) : id[i] \in Nat \ {0}
  OBVIOUS
<1>4. p \in [1 .. k -> Nat \ {0}]
  BY <1>1, <1>2, <1>3
<1> HIDE DEF p
<1>5. p \in Seq(Nat \ {0})
  BY <1>1, <1>4
<1>6. Len(p) = k
  BY <1>1, <1>2, <1>5
<1>7. QED
  BY <1>2, <1>5, <1>6 DEF p

\* The parent of one of them is the next shorter one.
LEMMA PrefixParent ==
  ASSUME NEW id \in Seq(Nat \ {0}), NEW k \in 1 .. Len(id)
  PROVE  /\ SubSeq(id, 1, k) # Root
         /\ Parent(SubSeq(id, 1, k)) = SubSeq(id, 1, k - 1)
<1> DEFINE p == SubSeq(id, 1, k)
<1>1. k \in Nat /\ k \in 0 .. Len(id) /\ k - 1 \in 0 .. Len(id) /\ k # 0
  OBVIOUS
<1>2. p \in Seq(Nat \ {0}) /\ Len(p) = k /\ p = [i \in 1 .. k |-> id[i]]
  BY <1>1, PrefixFacts
<1>3. SubSeq(id, 1, k - 1) = [i \in 1 .. k - 1 |-> id[i]]
  BY <1>1, PrefixFacts
<1> HIDE DEF p
<1>4. p # Root
  BY <1>1, <1>2 DEF Root
<1>5. k - 1 \in 0 .. Len(p)
  BY <1>1, <1>2
<1>6. SubSeq(p, 1, k - 1) = [i \in 1 .. k - 1 |-> p[i]]
  BY <1>2, <1>5, PrefixFacts
<1>7. \A i \in 1 .. k - 1 : i \in 1 .. k
  BY <1>1
<1>8. [i \in 1 .. k - 1 |-> p[i]] = [i \in 1 .. k - 1 |-> id[i]]
  BY <1>2, <1>7
<1>9. Parent(p) = SubSeq(p, 1, k - 1)
  BY <1>2 DEF Parent
<1>10. QED
  BY <1>3, <1>4, <1>6, <1>8, <1>9 DEF p

\* The requests above one are in the tree.
LEMMA PrefixesMade ==
  ASSUME TypeOK, NEW id \in Made, NEW k \in 0 .. Len(id)
  PROVE  SubSeq(id, 1, k) \in Made
<1>1. id \in Seq(Nat \ {0}) /\ Len(id) \in Nat
  BY DEF TypeOK
<1> DEFINE T == {n \in 0 .. Len(id) : SubSeq(id, 1, Len(id) - n) \notin Made}
<1>2. T = {}
  <2> SUFFICES ASSUME T # {} PROVE FALSE
    OBVIOUS
  <2>1. PICK n \in T : \A m \in T : n <= m
    <3>1. T \subseteq Nat
      OBVIOUS
    <3> HIDE DEF T
    <3>2. QED
      BY <3>1, SmallestExists
  <2>2. n \in 0 .. Len(id) /\ SubSeq(id, 1, Len(id) - n) \notin Made
    BY <2>1
  <2>3. SubSeq(id, 1, Len(id)) = id
    BY <1>1
  <2>4. n # 0
    <3>1. Len(id) - 0 = Len(id)
      BY <1>1
    <3>2. QED
      BY <2>2, <2>3, <3>1
  <2> DEFINE j == Len(id) - (n - 1)
  <2>5. j \in 1 .. Len(id) /\ j - 1 = Len(id) - n /\ n - 1 \in 0 .. Len(id) /\ ~(n <= n - 1)
    BY <1>1, <2>2, <2>4
  <2>6. SubSeq(id, 1, j) \in Made
    BY <2>1, <2>5
  <2> HIDE DEF j
  <2>7. SubSeq(id, 1, j) # Root /\ Parent(SubSeq(id, 1, j)) = SubSeq(id, 1, j - 1)
    BY <1>1, <2>5, PrefixParent
  <2>8. QED
    BY <2>2, <2>5, <2>6, <2>7 DEF TypeOK
<1>3. Len(id) - k \in 0 .. Len(id) /\ Len(id) - (Len(id) - k) = k
  BY <1>1
<1>4. QED
  BY <1>2, <1>3

\* Two requests that are waited for, with everything above them, lie on one branch: a
\* handler waits for one request only.
LEMMA AwaitedOnOneBranch ==
  ASSUME TypeOK, TreeInv, NEW c \in Made, NEW d \in Made, Awaited(c), Awaited(d),
         Len(c) <= Len(d), NEW k \in 1 .. Len(c),
         \A i \in 1 .. k - 1 : c[i] = d[i]
  PROVE  c[k] = d[k]
<1>1. c \in Seq(Nat \ {0}) /\ d \in Seq(Nat \ {0}) /\ Len(c) \in Nat /\ Len(d) \in Nat
  BY DEF TypeOK
<1>2. /\ k \in Nat /\ k \in 1 .. Len(d) /\ k \in 0 .. Len(c) /\ k \in 0 .. Len(d)
      /\ k - 1 \in 0 .. Len(c) /\ k - 1 \in 0 .. Len(d) /\ k \in 1 .. k
  BY <1>1
<1>3. SubSeq(c, 1, k - 1) = SubSeq(d, 1, k - 1)
  <2>1. /\ SubSeq(c, 1, k - 1) = [i \in 1 .. k - 1 |-> c[i]]
        /\ SubSeq(d, 1, k - 1) = [i \in 1 .. k - 1 |-> d[i]]
    BY <1>1, <1>2, PrefixFacts
  <2>2. [i \in 1 .. k - 1 |-> c[i]] = [i \in 1 .. k - 1 |-> d[i]]
    OBVIOUS
  <2>3. QED
    BY <2>1, <2>2
<1>4. /\ SubSeq(c, 1, k) # Root /\ Parent(SubSeq(c, 1, k)) = SubSeq(c, 1, k - 1)
      /\ SubSeq(d, 1, k) # Root /\ Parent(SubSeq(d, 1, k)) = SubSeq(d, 1, k - 1)
  BY <1>1, <1>2, PrefixParent
<1>5. SubSeq(c, 1, k) \in Made /\ SubSeq(d, 1, k) \in Made
  BY <1>2, PrefixesMade
<1>6. Waiting(SubSeq(c, 1, k)) /\ Waiting(SubSeq(d, 1, k))
  BY <1>2 DEF Awaited
<1>7. /\ SubSeq(c, 1, k) = Current(SubSeq(c, 1, k - 1))
      /\ SubSeq(d, 1, k) = Current(SubSeq(d, 1, k - 1))
  BY <1>4, <1>5, <1>6 DEF TreeInv, Sound
<1>8. SubSeq(c, 1, k) = SubSeq(d, 1, k)
  BY <1>3, <1>7
<1>9. /\ SubSeq(c, 1, k) = [i \in 1 .. k |-> c[i]]
      /\ SubSeq(d, 1, k) = [i \in 1 .. k |-> d[i]]
  BY <1>1, <1>2, PrefixFacts
<1>10. [i \in 1 .. k |-> c[i]][k] = c[k] /\ [i \in 1 .. k |-> d[i]][k] = d[k]
  BY <1>2
<1>11. QED
  BY <1>8, <1>9, <1>10

\* The handlers somebody still waits for are one below the other: requests are sent one
\* after the other, over the whole tree (server_side.go, the loop over the connections).
THEOREM OneActiveBranchTheorem == Spec => []OneActiveBranch
<1>1. TypeOK /\ TreeInv => OneActiveBranch
  <2> SUFFICES ASSUME TypeOK, TreeInv, NEW c \in Made, NEW d \in Made,
                      Awaited(c), Awaited(d), Len(c) <= Len(d)
               PROVE  c = SubSeq(d, 1, Len(c))
    BY DEF OneActiveBranch
  <2>1. c \in Seq(Nat \ {0}) /\ d \in Seq(Nat \ {0}) /\ Len(c) \in Nat /\ Len(d) \in Nat
    BY DEF TypeOK
  <2> DEFINE T == {k \in 1 .. Len(c) : c[k] # d[k]}
  <2>2. T = {}
    <3> SUFFICES ASSUME T # {} PROVE FALSE
      OBVIOUS
    <3>1. PICK k \in T : \A m \in T : k <= m
      <4>1. T \subseteq Nat
        OBVIOUS
      <4> HIDE DEF T
      <4>2. QED
        BY <4>1, SmallestExists
    <3>2. k \in 1 .. Len(c) /\ c[k] # d[k]
      BY <3>1
    <3>3. \A i \in 1 .. k - 1 : i \in 1 .. Len(c) /\ ~(k <= i)
      BY <2>1, <3>2
    <3>4. \A i \in 1 .. k - 1 : c[i] = d[i]
      BY <3>1, <3>3
    <3>5. QED
      BY <3>2, <3>4, AwaitedOnOneBranch
  <2>3. \A k \in 1 .. Len(c) : c[k] = d[k]
    BY <2>2
  <2>4. SubSeq(d, 1, Len(c)) = [k \in 1 .. Len(c) |-> d[k]]
    <3>1. Len(c) \in 0 .. Len(d)
      BY <2>1
    <3>2. QED
      BY <2>1, <3>1, PrefixFacts
  <2>5. c = [k \in 1 .. Len(c) |-> c[k]]
    BY <2>1
  <2>6. QED
    BY <2>3, <2>4, <2>5
<1>2. QED
  BY <1>1, TreeInvariant, PTL
====
