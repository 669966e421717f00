---------------------------- MODULE Propagation ----------------------------
(***************************************************************************)
(* What a trace tells its callee: the traceparent and baggage headers, as   *)
(* the caller's Provider formats and the callee's parses them.  A text is a *)
(* sequence of characters, an id a sequence of bytes.                       *)
(***************************************************************************)
EXTENDS Integers, SequencesExt

CONSTANTS
    Bytes,      \* bytes of which the checked ids are made
    TraceBytes, \* bytes of the id of a trace; 16 in the source
    SpanBytes,  \* bytes of the id of a span; 8 in the source
    Chars,      \* characters of which the checked baggage is made
    NameLength  \* longest key and value of it

ASSUME PropagationAssumption ==
    /\ Bytes \subseteq 0 .. 255 /\ NameLength \in Nat
    /\ TraceBytes \in Nat \ {0} /\ SpanBytes \in Nat \ {0}

Ids(size) == [1 .. size -> Bytes]
Names == SeqOf(Chars, NameLength)

(* The pieces cut off when the loop ends, and where the next one begins.     *)
Cut(delimiter, str) ==
    LET loop[i \in 0 .. Len(str)] ==
            IF i = 0 THEN [arr |-> <<>>, k |-> 1]
            ELSE LET before == loop[i - 1]
                 IN IF str[i] = delimiter
                    THEN [arr |-> Append(before.arr, SubSeq(str, before.k, i - 1)), k |-> i + 1]
                    ELSE before
    IN loop[Len(str)]

(* mutant: what follows the last delimiter is dropped. *)
ExplodeUnterminated(delimiter, str) == Cut(delimiter, str).arr

Explode(delimiter, str) ==
    LET cut == Cut(delimiter, str)
    IN Append(cut.arr, SubSeq(str, cut.k, Len(str)))

-----------------------------------------------------------------------------
(* Hex. *)

HexDigits == <<"0", "1", "2", "3", "4", "5", "6", "7", "8", "9", "a", "b", "c", "d", "e", "f">>
Capitals == <<"A", "B", "C", "D", "E", "F">>

HexEncode(data) ==
    FlattenSeq([i \in DOMAIN data |-> <<HexDigits[(data[i] \div 16) + 1], HexDigits[(data[i] % 16) + 1]>>])

(* strtoul of one or two characters: it also takes a blank or a plus for the *)
(* first of two.  -1 when it fails.                                          *)
Digit(c) ==
    IF Contains(HexDigits, c) THEN (CHOOSE i \in 1 .. 16 : HexDigits[i] = c) - 1
    ELSE IF Contains(Capitals, c) THEN (CHOOSE i \in 1 .. 6 : Capitals[i] = c) + 9
    ELSE -1

Atoul(str) ==
    LET low  == Digit(str[Len(str)])
        high == IF Len(str) = 1 \/ str[1] \in {" ", "+"} THEN 0 ELSE Digit(str[1])
    IN IF low < 0 \/ high < 0 THEN -1 ELSE high * 16 + low

(* Pairs of digits from the right; the empty sequence when one is none.      *)
HexDecode(str) ==
    LET odd == Len(str) % 2
        first == IF odd = 1 THEN <<Atoul(<<str[1]>>)>> ELSE <<>>
        bytes == first \o [i \in 1 .. Len(str) \div 2 |->
                               Atoul(<<str[odd + 2 * i - 1], str[odd + 2 * i]>>)]
    IN IF Contains(bytes, -1) THEN <<>> ELSE bytes

-----------------------------------------------------------------------------
(* The headers. *)

FormatTraceParent(trace, span, sampled) ==
    <<"0", "0", "-">> \o HexEncode(trace) \o <<"-">> \o HexEncode(span)
        \o (IF sampled THEN <<"-", "0", "1">> ELSE <<"-", "0", "0">>)

(* An id of which too few bytes were read: the source copies the bytes that  *)
(* follow the vector as well, nothing is known of the outcome.  When none    *)
(* was read the vector has no bytes at all, and the copy from its null       *)
(* data() throws where nothing catches: the process dies.                    *)
Unknown == <<-1>>
Fatal == <<-2>>

ReadId(text, size) ==
    LET bytes == HexDecode(text)
    IN IF bytes = <<>> THEN Fatal
       ELSE IF Len(bytes) < size THEN Unknown
       ELSE SubSeq(bytes, 1, size)

(* What parseTraceParent leaves of a header it does not take, and of one     *)
(* that kills it.                                                            *)
Foreign == [joined |-> FALSE, trace |-> <<>>, span |-> <<>>, sampled |-> FALSE]
Killed == [Foreign EXCEPT !.trace = Fatal]

ParseTraceParent(str) ==
    LET kv == Explode("-", str)
        trace == ReadId(kv[2], TraceBytes)
        span == ReadId(kv[3], SpanBytes)
    IN IF str = <<>> \/ Len(kv) # 4 THEN Foreign
       ELSE IF Fatal \in {trace, span} THEN Killed
       ELSE [joined |-> TRUE, trace |-> trace, span |-> span, sampled |-> kv[4] = <<"0", "1">>]

(* keys: the order in which the map is walked. *)
FormatBaggage(baggage, keys) ==
    LET item(i) == (IF i = 1 THEN <<>> ELSE <<",">>) \o keys[i] \o <<"=">> \o baggage[keys[i]]
    IN FlattenSeq([i \in DOMAIN keys |-> item(i)])

NoBaggage == [k \in {} |-> <<>>]

(* Of two items with one key the later stays. *)
ParseBaggage(str) ==
    LET pieces == Explode(",", str)
        kv == [i \in DOMAIN pieces |-> Explode("=", pieces[i])]
        taken == {i \in DOMAIN kv : Len(kv[i]) = 2}
    IN IF str = <<>> THEN NoBaggage
       ELSE [k \in {kv[i][1] : i \in taken} |-> kv[Max({i \in taken : kv[i][1] = k})][2]]

-----------------------------------------------------------------------------
(* What arrives. *)

(* How a server joins headers of one name. *)
Joined(texts) ==
    FlattenSeq([i \in DOMAIN texts |-> (IF i = 1 THEN <<>> ELSE <<",", " ">>) \o texts[i]])

Plain(text) == ~Contains(text, ",") /\ ~Contains(text, "=")

(* Baggages of at most two keys with the order in which they are walked.     *)
Walks(names) ==
    UNION {[keys : {keys}, baggage : [ToSet(keys) -> names]] :
             keys \in {s \in SeqOf(names, 2) : IsInjective(s)}}

Format(walk) == FormatBaggage(walk.baggage, walk.keys)

(* A baggage arrives as it was exactly when no key and no value contains     *)
(* one of the separators: nothing escapes them (provider.cc:240-277).        *)
BaggageArrives ==
    \A walk \in Walks(Names) :
        LET texts == DOMAIN walk.baggage \cup {walk.baggage[k] : k \in DOMAIN walk.baggage}
        IN (ParseBaggage(Format(walk)) = walk.baggage) <=> \A text \in texts : Plain(text)

(* What a baggage header adds to the ones before it: behind their comma a    *)
(* blank is joined to its first key.                                         *)
Blanked(walk) == <<" ">> \o walk.keys[1]

Behind(walk) ==
    [k \in (DOMAIN walk.baggage \ {walk.keys[1]}) \cup {Blanked(walk)} |->
        IF k = Blanked(walk) THEN walk.baggage[walk.keys[1]] ELSE walk.baggage[k]]

Arrival(walks, i) == IF i = 1 THEN walks[1].baggage ELSE Behind(walks[i])

(* The last of the first n arrivals that have a key gives its value.         *)
Merges(read, walks, n) ==
    /\ DOMAIN read = UNION {DOMAIN Arrival(walks, i) : i \in 1 .. n}
    /\ \A k \in DOMAIN read :
          \E i \in 1 .. n : /\ k \in DOMAIN Arrival(walks, i) /\ read[k] = Arrival(walks, i)[k]
                           /\ \A j \in i + 1 .. n : k \notin DOMAIN Arrival(walks, j)

(* The walks that a second baggage header may have: neither empty nor with   *)
(* the renamed key as a key of its own.                                      *)
Sent == {walk \in Walks({name \in Names : Plain(name)}) :
           walk.keys # <<>> /\ Blanked(walk) \notin DOMAIN walk.baggage}

(* The baggage of several calls, sent together, arrives with every first key *)
(* but the oldest's renamed: what the newest call says of the key its map is *)
(* walked from is read under another name, and the key keeps the value of an *)
(* earlier call (zend_hook_curl.cc:112-113, provider.cc:240-277).            *)
BaggagesMerge(n) ==
    \A walks \in [1 .. n -> Sent] :
        Merges(ParseBaggage(Joined([i \in 1 .. n |-> Format(walks[i])])), walks, n)
=============================================================================
