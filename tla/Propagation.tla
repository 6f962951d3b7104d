---------------------------- MODULE Propagation ----------------------------
(***************************************************************************)
(* What a hop does to the trace context it forwards (propagation.go): the  *)
(* headers a request or a message came with are parsed into a context, and *)
(* the headers of what the program sends next are rendered from it.  A     *)
(* text is a sequence of bytes.  A carrier is handed from hop to hop, each *)
(* of which adds its own span id.                                          *)
(***************************************************************************)
EXTENDS Integers, SequencesExt

CONSTANTS
  Carriers,              \* the headers the first hop may receive
  MaxHops,               \* bound: hops of a carrier
  TraceIdBytes,          \* 32 in the code
  SpanIdBytes,           \* 16
  MaxTracestateEntries,  \* 32
  MaxBaggageEntries,     \* 64
  MaxBaggageHeaderBytes, \* 8192
  MaxBaggageValueBytes   \* 4096

VARIABLES carrier, hops

vars == <<carrier, hops>>

Space == 32
Percent == 37
Comma == 44
Dash == 45
Semicolon == 59
EqualSign == 61
At == 64
Underscore == 95

Digits == 48..57
Upper == 65..90
Lower == 97..122

Piece(text, from, to) == SubSeq(text, from, to)

\* strings.Index of a byte, and 0 if there is none.
Index(text, byte) == SelectInSeq(text, LAMBDA b : b = byte)

\* strings.TrimSpace.
Trim(text) ==
  LET ink == {i \in DOMAIN text : text[i] # Space} IN
  IF ink = {} THEN <<>>
  ELSE Piece(text, CHOOSE i \in ink : \A j \in ink : i <= j, CHOOSE i \in ink : \A j \in ink : i >= j)

\* strings.Split at a byte.
Split(text, byte) ==
  LET cuts == SetToSortSeq({i \in DOMAIN text : text[i] = byte} \cup {0, Len(text) + 1}, <) IN
  [k \in 1..(Len(cuts) - 1) |-> Piece(text, cuts[k] + 1, cuts[k + 1] - 1)]

\* strings.Join.
Join(texts, byte) ==
  FoldLeft(LAMBDA text, next : IF text = <<>> THEN next ELSE text \o <<byte>> \o next, <<>>, texts)

-----------------------------------------------------------------------------
(* traceparent *)

NoContext == [traceID |-> <<>>, spanID |-> <<>>, sampled |-> TRUE, tracestate |-> <<>>, baggage |-> <<>>]

LowerHex(text, length) == Len(text) = length /\ ToSet(text) \subseteq Digits \cup 97..102

AllZero(text) == ToSet(text) = {48}

\* A mutant: every flag means sampled.
ParseAnyFlag(header) ==
  LET fields == Split(Trim(header), Dash) IN
  IF /\ Len(fields) = 4
     /\ fields[1] = <<48, 48>>
     /\ LowerHex(fields[2], TraceIdBytes) /\ LowerHex(fields[3], SpanIdBytes) /\ LowerHex(fields[4], 2)
     /\ ~AllZero(fields[2]) /\ ~AllZero(fields[3])
    THEN [NoContext EXCEPT !.traceID = fields[2], !.spanID = fields[3], !.sampled = ~AllZero(fields[4])]
    ELSE NoContext

\* The lowest bit of the flags says whether the trace is sampled.
ParseTraceparentContext(header) ==
  LET fields == Split(Trim(header), Dash) IN
  IF /\ Len(fields) = 4
     /\ fields[1] = <<48, 48>>
     /\ LowerHex(fields[2], TraceIdBytes) /\ LowerHex(fields[3], SpanIdBytes) /\ LowerHex(fields[4], 2)
     /\ ~AllZero(fields[2]) /\ ~AllZero(fields[3])
    THEN [NoContext EXCEPT !.traceID = fields[2], !.spanID = fields[3],
                           !.sampled = fields[4][2] \in {49, 51, 53, 55, 57, 98, 100, 102}]
    ELSE NoContext

Valid(context) == context.traceID # <<>> /\ context.spanID # <<>>

FormatTraceparent(context) ==
  Join(<< <<48, 48>>, context.traceID, context.spanID, <<48, IF context.sampled THEN 49 ELSE 48>> >>, Dash)

-----------------------------------------------------------------------------
(* tracestate *)

\* A member as key and value; the key is empty when there is none.
Member(text) ==
  LET equals == Index(text, EqualSign) IN
  IF equals = 0 THEN [key |-> <<>>, value |-> <<>>]
  ELSE [key |-> Piece(text, 1, equals - 1), value |-> Piece(text, equals + 1, Len(text))]

Render(members) == Join([i \in DOMAIN members |->
                          members[i].key \o <<EqualSign>> \o members[i].value], Comma)

Keys(members) == {members[i].key : i \in DOMAIN members}

TracestateKeyPart(text, length, starts) ==
  /\ Len(text) \in 1..length
  /\ text[1] \in starts
  /\ ToSet(Tail(text)) \subseteq Lower \cup Digits \cup {Underscore, Dash, 42, 47}

\* A simple key, or tenant@system.
ValidTracestateKey(key) ==
  LET at == Index(key, At) IN
  IF at = 0 THEN TracestateKeyPart(key, 256, Lower)
  ELSE /\ TracestateKeyPart(Piece(key, 1, at - 1), 241, Lower \cup Digits)
       /\ TracestateKeyPart(Piece(key, at + 1, Len(key)), 14, Lower)

ValidTracestateValue(value) ==
  /\ Len(value) \in 1..256
  /\ ToSet(value) \subseteq 32..126 \ {Comma, EqualSign}
  /\ Last(value) # Space

KeepTracestate(members, raw) ==
  LET member == Member(Trim(raw)) IN
  IF /\ Len(members) < MaxTracestateEntries
     /\ ValidTracestateKey(member.key) /\ ValidTracestateValue(member.value)
     /\ member.key \notin Keys(members)
    THEN Append(members, member)
    ELSE members

NormalizeTracestate(header) == Render(FoldLeft(KeepTracestate, <<>>, Split(Trim(header), Comma)))

-----------------------------------------------------------------------------
(* baggage *)

HexDigits == Digits \cup 65..70 \cup 97..102

HexNibble(byte) ==
  IF byte \in Digits THEN byte - 48 ELSE IF byte \in Upper THEN byte - 55 ELSE byte - 87

HexDigit(nibble) == IF nibble < 10 THEN nibble + 48 ELSE nibble + 55

\* %XX becomes a byte; an invalid escape is left as it is.
PercentDecode(text) ==
  LET escape(i) == /\ text[i] = Percent /\ i + 2 <= Len(text)
                   /\ {text[i + 1], text[i + 2]} \subseteq HexDigits
      decode[i \in 1..(Len(text) + 1)] ==
        IF i > Len(text) THEN <<>>
        ELSE IF escape(i) THEN <<16 * HexNibble(text[i + 1]) + HexNibble(text[i + 2])>> \o decode[i + 3]
        ELSE <<text[i]>> \o decode[i + 1]
  IN decode[1]

Unreserved == Lower \cup Upper \cup Digits \cup {Dash, 46, Underscore, 126}

PercentEncode(text) ==
  FlattenSeq([i \in DOMAIN text |->
    IF text[i] \in Unreserved THEN <<text[i]>>
    ELSE <<Percent, HexDigit(text[i] \div 16), HexDigit(text[i] % 16)>>])

\* RFC 7230's token.
ValidBaggageKey(key) ==
  key # <<>> /\ ToSet(key) \subseteq Unreserved \cup {33, 35, 36, 37, 38, 39, 42, 43, 94, 96, 124}

\* The part before the first semicolon; what follows are properties.
Plain(text) ==
  LET semi == Index(text, Semicolon) IN
  IF semi = 0 THEN Trim(text) ELSE Trim(Piece(text, 1, semi - 1))

\* A mutant: values are not decoded.
KeepBaggageAsWritten(members, raw) ==
  LET member == Member(Plain(Trim(raw)))
      key == Trim(member.key)
      value == Trim(member.value) IN
  IF /\ Len(members) < MaxBaggageEntries
     /\ member.key # <<>> /\ value # <<>> /\ Len(key) <= 256 /\ ValidBaggageKey(key)
     /\ Len(value) <= MaxBaggageValueBytes
     /\ key \notin Keys(members)
    THEN Append(members, [key |-> key, value |-> PercentEncode(value)])
    ELSE members

KeepBaggage(members, raw) ==
  LET member == Member(Plain(Trim(raw)))
      key == Trim(member.key)
      encoded == Trim(member.value)
      value == PercentDecode(encoded) IN
  IF /\ Len(members) < MaxBaggageEntries
     /\ member.key # <<>> /\ encoded # <<>> /\ Len(key) <= 256 /\ ValidBaggageKey(key)
     /\ Len(value) <= MaxBaggageValueBytes
     /\ key \notin Keys(members)
    THEN Append(members, [key |-> key, value |-> PercentEncode(value)])
    ELSE members

NormalizeBaggage(header) ==
  LET text == Trim(header) IN
  IF Len(text) > MaxBaggageHeaderBytes THEN <<>>
  ELSE Render(FoldLeft(KeepBaggage, <<>>, Split(text, Comma)))

-----------------------------------------------------------------------------
(* Hops *)

\* Handler and extract: without a traceparent they can believe, the companions
\* are not looked at.
Extract(headers) ==
  LET remote == ParseTraceparentContext(headers.traceparent) IN
  IF ~Valid(remote) THEN NoContext
  ELSE [remote EXCEPT !.tracestate = NormalizeTracestate(headers.tracestate),
                      !.baggage = NormalizeBaggage(headers.baggage)]

\* newTraceID and newSpanID: ids that nobody else has.
NewTraceID == [i \in 1..TraceIdBytes |-> 101]
NewSpanID(hop) == [i \in 1..SpanIdBytes |-> 49 + hop]

\* StartSpan under the context, RemoteContext, and the headers of RoundTrip and
\* inject.
Inject(context, hop) ==
  LET span == [context EXCEPT !.traceID = IF Valid(context) THEN @ ELSE NewTraceID,
                              !.spanID = NewSpanID(hop)] IN
  [traceparent |-> FormatTraceparent(span), tracestate |-> span.tracestate, baggage |-> span.baggage]

Hop ==
  /\ hops < MaxHops
  /\ carrier' = Inject(Extract(carrier), hops)
  /\ hops' = hops + 1

Init == carrier \in Carriers /\ hops = 0

Spec == Init /\ [][Hop]_vars

-----------------------------------------------------------------------------
(* What a reader of the standards finds in the headers, whatever their form *)

\* The items an order-preserving reader keeps: the first of each key.
FirstOfKey(items) ==
  LET first == {i \in DOMAIN items : \A j \in 1..(i - 1) : items[j].key # items[i].key}
      order == SetToSortSeq(first, <) IN
  [k \in DOMAIN order |-> items[order[k]]]

AtMost(n, items) == SubSeq(items, 1, IF Len(items) < n THEN Len(items) ELSE n)

Vendors(header) ==
  LET items == [i \in DOMAIN Split(header, Comma) |-> Member(Trim(Split(header, Comma)[i]))] IN
  FirstOfKey(SelectSeq(items, LAMBDA m : ValidTracestateKey(m.key) /\ ValidTracestateValue(m.value)))

\* Baggage as a reader of NormalizeBaggage's comment and tests finds it: decoded,
\* without the properties behind a semicolon, without members that have no key
\* or value or too long a value, and the first member of each key.
Luggage(header) ==
  LET items == [i \in DOMAIN Split(header, Comma) |->
                 LET m == Member(Plain(Split(header, Comma)[i])) IN
                 [key |-> Trim(m.key), value |-> PercentDecode(Trim(m.value))]] IN
  FirstOfKey(SelectSeq(items,
    LAMBDA m : ValidBaggageKey(m.key) /\ Len(m.value) \in 1..MaxBaggageValueBytes))

\* A traceparent by the grammar, read by position.
Believed(header) ==
  LET text == Trim(header)
      traceID == Piece(text, 4, 3 + TraceIdBytes)
      spanID == Piece(text, 5 + TraceIdBytes, 4 + TraceIdBytes + SpanIdBytes) IN
  /\ Len(text) = TraceIdBytes + SpanIdBytes + 7
  /\ Piece(text, 1, 3) = <<48, 48, Dash>>
  /\ text[4 + TraceIdBytes] = Dash /\ text[5 + TraceIdBytes + SpanIdBytes] = Dash
  /\ ToSet(traceID) \cup ToSet(spanID) \cup {text[Len(text) - 1], text[Len(text)]} \subseteq HexDigits \ Upper
  /\ ToSet(traceID) # {48} /\ ToSet(spanID) # {48}

TraceOf(header) == Piece(Trim(header), 4, 3 + TraceIdBytes)
SampledOf(header) == HexNibble(Last(Trim(header))) % 2 = 1

\* A hop hands on what it was handed: the trace and the decision to sample it,
\* the vendors' state and the application's baggage, in their order, whatever
\* form they came in, up to the number of members allowed; and if it cannot
\* believe the traceparent it hands on nothing.  What a hop may leave out beside
\* is what Vendors and Luggage leave out, malformed members and duplicates of a
\* key, and in baggage what follows a semicolon and values that are empty or too
\* long (NormalizeTracestate, NormalizeBaggage and its tests); and all of a
\* baggage header that is too long.
HandedOn ==
  [][/\ Believed(carrier'.traceparent)
     /\ IF Believed(carrier.traceparent)
          THEN /\ TraceOf(carrier'.traceparent) = TraceOf(carrier.traceparent)
               /\ SampledOf(carrier'.traceparent) = SampledOf(carrier.traceparent)
               /\ Vendors(carrier'.tracestate) = AtMost(MaxTracestateEntries, Vendors(carrier.tracestate))
               /\ Len(Trim(carrier.baggage)) <= MaxBaggageHeaderBytes
                    => Luggage(carrier'.baggage) = AtMost(MaxBaggageEntries, Luggage(carrier.baggage))
          ELSE /\ TraceOf(carrier'.traceparent) = NewTraceID
               /\ carrier'.tracestate = <<>> /\ carrier'.baggage = <<>>]_vars

\* From the second hop on, a hop leaves the companions as they are, byte by byte:
\* one normalisation is enough (NormalizeTracestate, NormalizeBaggage), unless
\* it made the baggage too long.
Settled ==
  [][hops > 0 =>
       /\ carrier'.tracestate = carrier.tracestate
       /\ Len(carrier.baggage) <= MaxBaggageHeaderBytes => carrier'.baggage = carrier.baggage]_vars

\* What propagation.go promises of its caps, "so a value one side keeps is a value
\* the other side keeps": baggage that a hop has forwarded is forwarded by the
\* next.
BaggageKept == [][hops > 0 => carrier'.baggage = carrier.baggage]_vars
=============================================================================
