---- MODULE IoamTrace ----
(***************************************************************************)
(* The IOAM trace in a packet: the room the generator asks for, what the   *)
(* kernel of each entity on the way writes, what ioam-agent.cpp reads and  *)
(* what ioam-collector.go shows.                                           *)
(*                                                                         *)
(* A trace type is a set of bits.  The data of a trace is a sequence of    *)
(* words of 4 octets; a word is <<the entity that wrote it, the bit it     *)
(* was written for, its place in that field>>.  Nothing gives a namespace  *)
(* a schema, so the opaque state of an entity is one word that announces   *)
(* no data.                                                                *)
(***************************************************************************)
EXTENDS Integers, Sequences, FiniteSets, FiniteSetsExt, Lists

\* The bits of the fields of a node, and of its opaque state.
NodeBits == 0 .. 11
Opaque == 22

Zero == <<>>                \* a word of zeros
Unset == <<>>               \* a field of a message without a value, or with value 0
Garbled == << <<"noise">> >> \* octets read past the end of an array

----
(***************************************************************************)
(* The generator, utils.py, and the ip route command.                      *)
(***************************************************************************)

\* build_ioam_trace_type: the bits that have a constant.
Selectable == {0, 1, 2, 3, 5, 6, 8, 9, 10, Opaque}

\* The wide fields counted like the others.
SizeIoamTraceNarrow(type) == Cardinality(type \ {Opaque})

\* size_ioam_trace, in words: opaque state is not included.
SizeIoamTrace(type) ==
  Cardinality(type \cap {0, 1, 2, 3, 5, 6}) + 2 * Cardinality(type \cap {8, 9, 10})

\* iproute2 and the kernel take a trace of 4 to 244 octets.
EncapAccepted(words) == words \in 1 .. 61

----
(***************************************************************************)
(* The kernel of an entity.                                                *)
(***************************************************************************)
FieldLen(bit) == IF bit \in {8, 9, 10} THEN 2 ELSE 1
NodeWords(type) == {w \in (type \cap NodeBits) \X (1 .. 2) : w[2] <= FieldLen(w[1])}
NodeLen(type) == Cardinality(NodeWords(type))
OpaqueLen(type) == Cardinality(type \cap {Opaque})

\* The words entity e writes, in the order of the bits.  idle: the entities
\* whose queue is empty.
NodeData(type, e, idle) ==
  LET Start(b) == NodeLen({c \in type : c < b})
      Word(j) == LET bit == CHOOSE c \in type \cap NodeBits : j \in Start(c) + 1 .. Start(c) + FieldLen(c)
                 IN  IF bit = 6 /\ e \in idle THEN Zero ELSE <<e, bit, j - Start(bit)>>
  IN  [j \in 1 .. NodeLen(type) + OpaqueLen(type) |->
         IF j <= NodeLen(type) THEN Word(j) ELSE <<e, Opaque, 1>>]

EmptyTrace(type, words) ==
  [type |-> type, remlen |-> words, overflow |-> FALSE, data |-> [j \in 1 .. words |-> Zero]]

\* Every entity writes in front of what the ones before it wrote; the first for whom
\* there is no room sets the overflow flag, after which nobody writes.
Fill(t, e, idle) ==
  LET need == NodeLen(t.type) + OpaqueLen(t.type)
      rest == t.remlen - need
  IN  IF t.overflow \/ rest < 0
      THEN [t EXCEPT !.overflow = TRUE]
      ELSE [t EXCEPT !.remlen = rest,
              !.data = [j \in DOMAIN @ |->
                          IF j \in rest + 1 .. t.remlen THEN NodeData(t.type, e, idle)[j - rest]
                          ELSE @[j]]]

\* The trace after the entities of path, a sequence, have all seen it.
TraceAfter(type, words, path, idle) ==
  LET after[n \in 0 .. Len(path)] ==
        IF n = 0 THEN EmptyTrace(type, words) ELSE Fill(after[n - 1], path[n], idle)
  IN  after[Len(path)]

----
(***************************************************************************)
(* ioam-agent.cpp.                                                         *)
(***************************************************************************)

\* Four octets of a wide id.
WidthNarrow(bit) == IF bit \in {9, 10} THEN 2 ELSE 1

\* parse_node_data: the words it takes for a bit, and the field it sets.
Width(bit) == IF bit \in {8, 9, 10} THEN 2 ELSE 1

Setter == [b \in NodeBits \cup {Opaque} |->
  CASE b = 0 -> "id"                 [] b = 1 -> "ingressid, egressid"
    [] b = 2 -> "timestampsecs"      [] b = 3 -> "timestampfrac"
    [] b = 4 -> "transitdelay"       [] b = 5 -> "namespacedata"
    [] b = 6 -> "queuedepth"         [] b = 7 -> "queuedepth"
    [] b = 8 -> "idwide"             [] b = 9 -> "ingressid, egressid"
    [] b = 10 -> "namespacedatawide" [] b = 11 -> "bufferoccupancy"
    [] b = Opaque -> "oss" ]

Fields == {Setter[b] : b \in NodeBits \cup {Opaque}} \cup {"csumcomp", "ingressidwide, egressidwide"}

\* The words of the bits before it.
Offset(type, bit) == Cardinality({w \in (type \cap NodeBits) \X (1 .. 2) : w[1] < bit /\ w[2] <= Width(w[1])})

\* No SAFE_GUARD throws: there is room for every field in len words.
NodeFits(type, len) ==
  \A b \in type \cap NodeBits : len >= Offset(type, b) + Width(b)

\* The message made from the words that start after the first i.  Of two bits with one
\* field the later wins, and a value of zeros is none.  garbled: the bits whose array,
\* which does not end in a zero, was read further as a string.
ParseNodeData(data, i, type, garbled) ==
  LET Taken(b) == LET s == i + Offset(type, b) IN SubSeq(data, s + 1, s + Width(b))
      Value(b) == CASE b = Opaque -> <<data[i + NodeLen(type) + 1]>>
                    [] b \in garbled -> Garbled
                    [] OTHER -> IF \A j \in DOMAIN Taken(b) : Taken(b)[j] = Zero THEN Unset ELSE Taken(b)
      SetBy(f) == {b \in type : Setter[b] = f}
  IN  [f \in Fields |-> IF SetBy(f) = {} THEN Unset ELSE Value(Max(SetBy(f)))]

\* node.DebugString() is not empty.
HasValue(node) == \E f \in Fields : node[f] # Unset

\* The words the loop of parse_ioam_trace goes on by.
Step(t) == NodeLen(t.type) + OpaqueLen(t.type)

\* How often it does before it is behind the data, and where the nodes start that it meets.
Turns(t) == (Len(t.data) - t.remlen + Step(t) - 1) \div Step(t)
NodeStarts(t) == {t.remlen + (k - 1) * Step(t) : k \in 1 .. Turns(t)}

\* Whether parse_ioam_trace returns and does not throw.
Parsable(t) ==
  \A i \in NodeStarts(t) :
    /\ NodeFits(t.type, Min({NodeLen(t.type), Len(t.data) - i}))
    /\ i + Step(t) <= Len(t.data)

\* The nodes with a value, in the order of the list.
WithValue(nodes) == Sublist(nodes, {k \in DOMAIN nodes : HasValue(nodes[k])})

\* Every node behind the ones parsed before it.
NodesInOrderRead(t, garbled) ==
  WithValue([k \in 1 .. Turns(t) |->
               ParseNodeData(t.data, t.remlen + (k - 1) * Step(t), t.type, garbled)])

\* The nodes of parse_ioam_trace: each goes in front of the ones parsed before it, the
\* ones without a value are left out.
ParseIoamTrace(t, garbled) ==
  WithValue([k \in 1 .. Turns(t) |->
               ParseNodeData(t.data, Len(t.data) - k * Step(t), t.type, garbled)])

----
(***************************************************************************)
(* ioam-collector.go.                                                      *)
(***************************************************************************)

\* The field ParseNode reads for a bit.
Getter == [Setter EXCEPT ![7] = "csumcomp", ![9] = "ingressidwide, egressidwide"]

\* ParseNode: what the text says for every bit.
ParseNode(node, type) == [b \in type |-> node[Getter[b]]]
====
