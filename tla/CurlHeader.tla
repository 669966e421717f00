----------------------------- MODULE CurlHeader -----------------------------
(***************************************************************************)
(* How a traced curl_exec adds its traceparent and its baggage to the       *)
(* headers the script gave the handle.  libcurl does not tell which headers *)
(* a handle has, so the hooks keep a copy of them in curl_header, a table   *)
(* of the trace from handle numbers to lists, and every traced call         *)
(* rewrites libcurl's list from the copy.  The two lists drift apart when a *)
(* handle is set, cleared, copied or freed where the hooks do not look.     *)
(***************************************************************************)
EXTENDS Propagation

CONSTANTS
    Handles,    \* numbers PHP gives handles; "cid" in the source
    Lists,      \* lists of headers a script sets
    Nothing,    \* the empty list
    MaxCalls    \* bound on the calls of curl_exec

ASSUME CurlHeaderAssumption == Nothing \notin Lists /\ MaxCalls \in Nat \ {0}

VARIABLES
    php8,           \* built for PHP 8: handles are objects and their numbers are reused
    has_provider,   \* a trace is open
    curl_header,    \* the table: a list, or what is no array, for some handles
    alive,          \* handles of the script
    used,           \* numbers given so far
    native,         \* the list libcurl sends for a handle
    wanted,         \* history: the list the script asked for
    past,           \* history: what happened to the handle since its headers were set
    calls,          \* calls of curl_exec so far
    sent            \* the call of curl_exec just made, none after any other step

vars == <<php8, has_provider, curl_header, alive, used, native, wanted, past, calls, sent>>

(* Headers of the script, and the calls whose two headers, a traceparent and *)
(* a baggage, follow them.                                                   *)
List(script) == [script |-> script, added |-> <<>>]
NoArray == [script |-> Nothing, added |-> <<0>>]
NoTable == [id \in {} |-> List(Nothing)]

(* In the past of a handle: its headers were collected; a traced call was    *)
(* made; they were set outside a trace, or in an earlier one; curl_reset; it  *)
(* is a copy; curl_close of PHP 8, which leaves it alive; its number was      *)
(* reused, after an owner that was not closed; curl_setopt_array gave what is *)
(* no plain list ("unlisted").                                               *)
NoCall == [traced |-> FALSE, call |-> 0, list |-> List(Nothing), wanted |-> Nothing,
           past |-> {}, corrupted |-> FALSE]

Init ==
    /\ php8 \in BOOLEAN
    /\ has_provider = FALSE
    /\ curl_header = NoTable
    /\ alive = {} /\ used = {}
    /\ native = [id \in Handles |-> List(Nothing)]
    /\ wanted = [id \in Handles |-> Nothing]
    /\ past = [id \in Handles |-> {}]
    /\ calls = 0
    /\ sent = NoCall

Without(table, id) == [other \in DOMAIN table \ {id} |-> table[other]]
With(table, id, list) == [other \in DOMAIN table \cup {id} |-> IF other = id THEN list ELSE table[other]]

Running == ~sent.corrupted

-----------------------------------------------------------------------------
(* The trace. *)

StartTracer ==
    /\ Running /\ ~has_provider
    /\ has_provider' = TRUE
    /\ curl_header' = NoTable
    /\ UNCHANGED <<php8, alive, used, native, wanted, past, calls>>
    /\ sent' = NoCall

(* The table goes with the trace.  Handles a script of the command line      *)
(* keeps go on into its next one.                                            *)
ShutdownTracer ==
    /\ Running /\ has_provider
    /\ has_provider' = FALSE
    /\ curl_header' = NoTable
    /\ past' = [id \in Handles |->
                  IF id \notin alive THEN {}
                  ELSE (past[id] \ {"collected", "unlisted", "reused"})
                         \cup (IF wanted[id] = Nothing /\ "reused" \notin past[id] THEN {} ELSE {"outside"})]
    /\ UNCHANGED <<php8, alive, used, native, wanted, calls>>
    /\ sent' = NoCall

-----------------------------------------------------------------------------
(* Handles.  curl_init, curl_reset and curl_copy_handle are not hooked.      *)

Fresh(id) == id \notin alive /\ (php8 \/ id \notin used)

(* A new handle finds what the table holds under its number. *)
Inherited(id) == IF past[id] = {} THEN {} ELSE {"reused"} \cup (past[id] \cap {"unlisted"})

CurlInit(id) ==
    /\ Running /\ Fresh(id)
    /\ alive' = alive \cup {id}
    /\ used' = used \cup {id}
    /\ native' = [native EXCEPT ![id] = List(Nothing)]
    /\ wanted' = [wanted EXCEPT ![id] = Nothing]
    /\ past' = [past EXCEPT ![id] = Inherited(id)]
    /\ UNCHANGED <<php8, has_provider, curl_header, calls>>
    /\ sent' = NoCall

CurlCopy(from, id) ==
    /\ Running /\ from \in alive /\ Fresh(id)
    /\ alive' = alive \cup {id}
    /\ used' = used \cup {id}
    /\ native' = [native EXCEPT ![id] = native[from]]
    /\ wanted' = [wanted EXCEPT ![id] = wanted[from]]
    /\ past' = [past EXCEPT ![id] = Inherited(id) \cup (past[from] \cap {"called"})
                                      \cup {"copied"}]
    /\ UNCHANGED <<php8, has_provider, curl_header, calls>>
    /\ sent' = NoCall

CurlReset(id) ==
    /\ Running /\ id \in alive
    /\ native' = [native EXCEPT ![id] = List(Nothing)]
    /\ wanted' = [wanted EXCEPT ![id] = Nothing]
    /\ past' = [past EXCEPT ![id] = @ \cup {"reset"}]
    /\ UNCHANGED <<php8, has_provider, curl_header, alive, used, calls>>
    /\ sent' = NoCall

(* The last variable that holds the handle goes. *)
Unset(id) ==
    /\ Running /\ id \in alive
    /\ alive' = alive \ {id}
    /\ native' = [native EXCEPT ![id] = List(Nothing)]
    /\ wanted' = [wanted EXCEPT ![id] = Nothing]
    /\ past' = [past EXCEPT ![id] = @ \cap {"collected", "unlisted", "reused"}]
    /\ UNCHANGED <<php8, has_provider, curl_header, used, calls>>
    /\ sent' = NoCall

(* mutant: the copy of the headers survives the handle. *)
ForgetKept(id) == curl_header

Forget(id) == IF has_provider THEN Without(curl_header, id) ELSE curl_header

(* PHP 7 frees the handle; curl_close of PHP 8 does nothing. *)
Close(id) ==
    /\ Running /\ id \in alive
    /\ curl_header' = Forget(id)
    /\ IF php8
       THEN /\ past' = [past EXCEPT ![id] =
                          IF has_provider THEN (@ \ {"collected", "unlisted", "reused"}) \cup {"closed"}
                                          ELSE @]
            /\ UNCHANGED <<alive, native, wanted>>
       ELSE /\ alive' = alive \ {id}
            /\ native' = [native EXCEPT ![id] = List(Nothing)]
            /\ wanted' = [wanted EXCEPT ![id] = Nothing]
            /\ past' = [past EXCEPT ![id] = {}]
    /\ UNCHANGED <<php8, has_provider, used, calls>>
    /\ sent' = NoCall

-----------------------------------------------------------------------------
(* What a script passes for CURLOPT_HTTPHEADER: an array, a reference to one *)
(* inside the array of options, which libcurl's binding follows, or a value  *)
(* it refuses.                                                               *)

Values == [kind : {"array", "reference"}, list : Lists] \cup {[kind |-> "scalar", list |-> Nothing]}

(* libcurl's binding replaces the list, with what calls added to it. *)
NativeSet(id, value) ==
    IF value.kind = "scalar" THEN UNCHANGED <<native, wanted>>
    ELSE /\ native' = [native EXCEPT ![id] = List(value.list)]
         /\ wanted' = [wanted EXCEPT ![id] = value.list]

(* mutant: the type of the value is not looked at. *)
CollectsAny(value) == TRUE

Collects(value) == value.kind = "array"

SetOpt(id, value) ==
    /\ Running /\ id \in alive /\ value.kind # "reference"
    /\ IF has_provider /\ Collects(value)
       THEN curl_header' = With(curl_header, id,
                                IF value.kind = "array" THEN List(value.list) ELSE NoArray)
       ELSE UNCHANGED curl_header
    /\ NativeSet(id, value)
    /\ past' = [past EXCEPT ![id] = IF value.kind = "scalar" THEN @
                                    ELSE IF has_provider THEN {"collected"}
                                    ELSE {"outside"}]
    /\ UNCHANGED <<php8, has_provider, alive, used, calls>>
    /\ sent' = NoCall

(* mutant: the headers of curl_setopt_array are not collected. *)
CollectAllSkipped(id, value) == curl_header

CollectAll(id, value) ==
    IF has_provider THEN With(curl_header, id, IF value.kind = "array" THEN List(value.list) ELSE NoArray)
    ELSE curl_header

SetOptArray(id, value) ==
    /\ Running /\ id \in alive
    /\ curl_header' = CollectAll(id, value)
    /\ NativeSet(id, value)
    /\ past' = [past EXCEPT ![id] = IF has_provider
                                    THEN IF value.kind = "array" THEN {"collected"}
                                         ELSE @ \cup {"unlisted"}
                                    ELSE IF value.kind = "scalar" THEN @ ELSE {"outside"}]
    /\ UNCHANGED <<php8, has_provider, alive, used, calls>>
    /\ sent' = NoCall

-----------------------------------------------------------------------------
(* curl_exec. *)

(* The list the call starts from, and the table once its headers are in:     *)
(* the stored list is appended to in place, a fresh one is thrown away.      *)
Option(id) == IF id \in DOMAIN curl_header THEN curl_header[id] ELSE List(Nothing)

WithHeaders(list, call) == [list EXCEPT !.added = Append(@, call)]

(* mutant: the handler's own curl_setopt is collected like the script's. *)
StoredAlways(id, list) == With(curl_header, id, list)

Stored(id, list) == IF id \in DOMAIN curl_header THEN With(curl_header, id, list) ELSE curl_header

(* A call is traced when a trace is open and the url is http or https with a *)
(* host; appending to what is no array corrupts the heap.                    *)
Exec(id, traced) ==
    /\ Running /\ id \in alive /\ calls < MaxCalls
    /\ traced => has_provider
    /\ calls' = calls + 1
    /\ LET corrupted == traced /\ Option(id) = NoArray
           list == IF ~traced \/ corrupted THEN native[id] ELSE WithHeaders(Option(id), calls')
       IN /\ sent' = [traced |-> traced, call |-> calls', list |-> list, wanted |-> wanted[id],
                      past |-> past[id], corrupted |-> corrupted]
          /\ native' = [native EXCEPT ![id] = list]
          /\ curl_header' = IF traced /\ ~corrupted THEN Stored(id, list) ELSE curl_header
    /\ past' = [past EXCEPT ![id] = IF traced THEN @ \cup {"called"} ELSE @]
    /\ UNCHANGED <<php8, has_provider, alive, used, wanted>>

Next ==
    \/ StartTracer
    \/ ShutdownTracer
    \/ \E id \in Handles :
          \/ CurlInit(id)
          \/ CurlReset(id)
          \/ Unset(id)
          \/ Close(id)
          \/ \E from \in Handles : CurlCopy(from, id)
          \/ \E value \in Values : SetOpt(id, value) \/ SetOptArray(id, value)
          \/ \E traced \in BOOLEAN : Exec(id, traced)

CurlSpec == Init /\ [][Next]_vars

-----------------------------------------------------------------------------
(* The last traceparent a traced call sends is its own, and the only one unless *)
(* a traced call has used the collected list before, of this handle or of    *)
(* the one whose number it has.  An untraced call carries none unless an      *)
(* earlier call left it in libcurl's list (zend_hook_curl.cc:67-137).        *)
OwnTraceparent ==
    LET added == sent.list.added
    IN sent.call > 0 /\ ~sent.corrupted =>
         IF sent.traced
         THEN /\ Last(added) = sent.call
              /\ Len(added) = 1 \/ {"collected", "called"} \subseteq sent.past
                                  \/ "reused" \in sent.past
         ELSE added = <<>> \/ "called" \in sent.past

(* A call sends the headers the script asked for unless they were changed     *)
(* where the hooks do not look, and a call corrupts memory only when the      *)
(* script gave curl_setopt_array what is no plain array                      *)
(* (zend_hook_curl.cc:230-323).                                              *)
HeadersKept ==
    sent.call > 0 =>
        /\ sent.list.script = sent.wanted
             \/ sent.past \cap {"outside", "reset", "copied", "closed", "reused"} # {}
        /\ sent.corrupted => "unlisted" \in sent.past

RoundTrip(copies) ==
    \A trace \in Ids(TraceBytes), span \in Ids(SpanBytes), sampled \in BOOLEAN :
        LET header == Joined([i \in 1 .. copies |-> FormatTraceParent(trace, span, sampled)])
            read == ParseTraceParent(header)
        IN IF copies = 1
           THEN read = [joined |-> TRUE, trace |-> trace, span |-> span, sampled |-> sampled]
           ELSE ~read.joined

(* An empty baggage header is not sent: of the calls a list was used in, n   *)
(* have one.                                                                 *)
ReadBack ==
    [copies \in 1 .. MaxCalls |->
        RoundTrip(copies) /\ BaggageArrives /\ \A n \in 2 .. copies : BaggagesMerge(n)]

(* The callee of a traced call joins the caller's trace under the caller's   *)
(* span, sampled as the caller is, exactly when the call carries one         *)
(* traceparent.  It gets the baggage of the call exactly when the call       *)
(* carries one and no separator is in it; from a list that was used before   *)
(* it gets the baggages of all its calls, with the first keys of the later   *)
(* ones renamed (provider.cc:221-278, hex.cc, zend_hook_curl.cc:110-113).    *)
CalleeReadsBack ==
    sent.traced /\ ~sent.corrupted => ReadBack[Len(sent.list.added)]
=============================================================================
