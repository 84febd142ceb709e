---- MODULE MCTelemetry ----
(***************************************************************************)
(* Two requests of a service a, whose packets pass r and q or more on      *)
(* their way to b.                                                         *)
(***************************************************************************)
EXTENDS Telemetry, TLC

CONSTANTS a, b, r, q, r1, r2, f1, f2

MCRequests == {r1, r2}
MCFds == {f1, f2}
Symmetry == Permutations(MCRequests) \cup Permutations(MCFds)

Setup(type, path, slots, eth0, idle, callers) ==
  [type |-> type, path |-> path, slots |-> slots, eth0 |-> eth0, idle |-> idle, callers |-> callers]

\* Everything the generator can select, alone and together; the route of the
\* connection, of a shorter one, of one with a switch; an interface nobody listens to;
\* a trace of more than 244 octets.  Two requests at once where types do not matter.
MCSetups ==
  { Setup(t, <<a, r, b>>, 3, TRUE, {r}, 1) :
      t \in {{0}, {1, 3}, {6}, {0, 8}, {1, 2, 9}, {5, 6, 10}, {8, 9, 10, Opaque}, Selectable} }
  \cup
  { Setup(t, <<a, r, q, b>>, n, TRUE, {a, q}, 1) :
      t \in {{0, 3, 8}, {6, Opaque}}, n \in {2, 5} }
  \cup
  { Setup({0}, <<a, b>>, 2, FALSE, {}, 1), Setup({1}, <<a, b>>, 2, TRUE, {}, 2),
    Setup({Opaque}, <<a, b>>, 2, TRUE, {}, 1), Setup(Selectable, <<a, r, b>>, 6, TRUE, {}, 1) }
====
