--------------------------- MODULE MCPropagation ---------------------------
(***************************************************************************)
(* Carriers for Propagation: in each, one of the three headers is any      *)
(* sequence of pieces that make a difference to its parser, and the other  *)
(* two are in order.  A letter stands for itself, the other bytes are      *)
(* named in Propagation.                                                   *)
(***************************************************************************)
EXTENDS Propagation

CONSTANTS
  MaxFields,   \* bound: fields of a traceparent
  MaxMembers   \* bound: members of a tracestate or of baggage

Zero == 48
One == 49
Two == 50
a == 97
b == 98
c == 99
x == 120
Bang == 33

Sequences(pieces, n) == UNION {[1..k -> pieces] : k \in 0..n}

TraceparentFields ==
  { <<Zero, Zero>>, <<Zero, One>>, <<a, Two>>, <<65, One>>, <<a>>, <<Space, Zero, Zero>> }

TracestateMembers ==
  { <<a, EqualSign, x>>, <<a, EqualSign, One>>, <<Space, b, EqualSign, Space, x, Space>>,
    <<a, At, b, EqualSign, x>>, <<One, At, a, EqualSign, x>>, <<One, EqualSign, x>>, <<a, At, EqualSign, x>>,
    <<a, EqualSign>>, <<EqualSign, x>>, <<a, EqualSign, x, EqualSign>>, <<65, EqualSign, x>>, <<>> }

BaggageMembers ==
  { <<a, EqualSign, x>>, <<a, EqualSign, One>>, <<b, EqualSign, x>>, <<c, EqualSign, x>>,
    <<Space, b, Space, EqualSign, x, Semicolon, x>>,
    <<b, EqualSign, Percent, Two, One>>,                \* an escape
    <<b, EqualSign, Percent, Two, Two + 3, Two, One>>,  \* an escaped percent sign before what looks like one
    <<a, EqualSign, Percent, Two>>,                     \* an escape cut short
    <<a, EqualSign, Bang, Bang, Bang>>,                 \* bytes that have to be escaped
    <<b, EqualSign, x, x, x, x, x>>,                    \* too long a value
    <<Percent, EqualSign, x>>, <<40, EqualSign, x>>, <<EqualSign, x>>, <<a, EqualSign, Semicolon>>, <<>> }

InOrder == [traceparent |-> Join(<< <<Zero, Zero>>, <<a, Two>>, <<b, One>>, <<Zero, One>> >>, Dash),
            tracestate |-> <<a, EqualSign, x>>, baggage |-> <<b, EqualSign, x>>]

MCCarriers ==
  {[InOrder EXCEPT !.traceparent = Join(fields, Dash)] : fields \in Sequences(TraceparentFields, MaxFields)}
  \cup {[InOrder EXCEPT !.tracestate = Join(members, Comma)] : members \in Sequences(TracestateMembers, MaxMembers)}
  \cup {[InOrder EXCEPT !.baggage = Join(members, Comma)] : members \in Sequences(BaggageMembers, MaxMembers)}
=============================================================================
