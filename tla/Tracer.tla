------------------------------- MODULE Tracer -------------------------------
(***************************************************************************)
(* One PHP process with the opentelemetry extension loaded: the life of a  *)
(* trace (start_tracer, shutdown_tracer), the Provider that holds its      *)
(* spans, the hooks that wrap internal functions, the error and exception  *)
(* callbacks and the userland API.                                         *)
(*                                                                         *)
(* The same module stands for both SAPIs.  Under php-fpm (Cli = FALSE) a   *)
(* worker serves request after request and keeps one Provider for ever;    *)
(* under the cli SAPI (Cli = TRUE) the script opens and closes traces      *)
(* itself, the Provider dies with the trace, and everything the Provider   *)
(* keeps is indexed by getppid().  A scalar field of the Provider used     *)
(* under php-fpm is the entry of the same map at the one key FpmKey.       *)
(*                                                                         *)
(* Abstractions.  A span is a cell of the heap Spans: its address may be   *)
(* reused once the request that owns it is deleted.  A span id is the      *)
(* address within its request, a trace id a number (0 is the caller's).    *)
(* Names, attributes and time stamps are left out, except whether the      *)
(* first span is older than max_time_consuming and whether a span has      *)
(* ended.                                                                  *)
(***************************************************************************)
EXTENDS Integers, Sequences, FiniteSets

CONSTANTS
    Cli,            \* is_cli_sapi()
    Enabled,        \* opentelemetry.enable
    CliEnabled,     \* opentelemetry.cli_enable
    EnableCollect,  \* opentelemetry.enable_collect
    Php8,           \* PHP_VERSION_ID >= 80000
    SampleRatio,    \* opentelemetry.sample_ratio_based
    CounterLimit,   \* the 10000000 of Provider::increase
    Spans,          \* addresses the allocator can hand out
    NoSpan,         \* a null Span pointer, or the uninitialised one of a handler
    Ppids,          \* the parent pids the process may see
    Headers,        \* the traceparent headers a trace may be started with
    Kinds,          \* the kinds of instrumented functions the script calls
    MaxDepth,       \* bound on nested instrumented calls
    MaxTraces       \* bound on the traces a run opens

ASSUME SwitchesAssumption == /\ Cli \in BOOLEAN
                             /\ Enabled \in BOOLEAN
                             /\ CliEnabled \in BOOLEAN
                             /\ EnableCollect \in BOOLEAN
                             /\ Php8 \in BOOLEAN
ASSUME SampleAssumption == SampleRatio \in Nat /\ CounterLimit \in Nat
ASSUME SpansAssumption == NoSpan \notin Spans
ASSUME PpidsAssumption == Ppids # {} /\ Ppids \subseteq Nat \ {0}
ASSUME HeadersAssumption ==
    Headers \subseteq {"none", "malformed", "undecodable", "sampled", "unsampled"}
ASSUME KindsAssumption ==
    Kinds \subseteq {"curl", "redis", "redis_cluster", "memcached", "pdo", "pdo_statement",
                     "mysqli", "yar_client", "yar_server"}
ASSUME BoundsAssumption == MaxDepth \in Nat /\ MaxTraces \in Nat

VARIABLES
    phase,              \* where the engine is: "idle", "script" or "exited"
    fault,              \* what killed the process
    ppid,               \* what getppid() returns now
    provider,           \* OPENTELEMETRY_G(provider) # nullptr
    started,            \* OPENTELEMETRY_G(is_started_cli_tracer)
    is_init_consumers,  \* OPENTELEMETRY_G(is_init_consumers)
    queue,              \* the message queue of this process: "absent" or "open"
    counter,            \* Provider::counter
    request,            \* Provider::request / requests, per key
    firstSpan,          \* Provider::firstSpan / firstSpans
    sampled,            \* Provider::is_sampled / sampled_map
    redisException,     \* whether Provider::redisException(s) holds a message
    baggage,            \* whether Provider::baggage / baggage_map has an item
    live,               \* the allocated spans
    span,               \* the content of every cell of the heap
    frames,             \* the instrumented calls in progress, innermost last
    wire,               \* the spans the trace closed last serialised, until the next starts
    delivery,           \* what became of the trace closed last, until the next starts
    traces,             \* history: traces opened so far
    openKey,            \* history: the key the last trace was opened under
    moved,              \* history: the parent has changed since then
    promised,           \* history: the last trace told a callee it is sampled
    optOut,             \* history: the user last asked not to sample it
    bailed,             \* history: a bailout cut a call of the last trace short
    late,               \* history: the API wrote to a key that has no request
    unsampledRun        \* history: traces without a caller the ratio passed over in a row

sapiVars == <<phase, ppid, provider, started, counter>>
queueVars == <<is_init_consumers, queue>>
slotVars == <<request, firstSpan, sampled, redisException, baggage>>
heapVars == <<live, span>>
exportVars == <<wire, delivery>>
historyVars == <<traces, openKey, moved, promised, optOut, bailed, late, unsampledRun>>
vars == <<sapiVars, fault, queueVars, slotVars, heapVars, frames, exportVars, historyVars>>

Faults == {"none", "null_span", "dangling", "resource", "div_zero",
           "bad_id", "server", "unchecked"}

NoKey == 0          \* owner of a span whose Provider was deleted before its request
RemoteTrace == 0    \* the trace id a caller sent
Keys == Ppids \cup {NoKey}

SpanRecord == [key : Keys, tid : Nat, parent : {"none", "remote", "first"},
               status : {"unset", "ok", "error"}, ended : BOOLEAN, old : BOOLEAN]
Blank == [key |-> NoKey, tid |-> 0, parent |-> "none",
          status |-> "unset", ended |-> FALSE, old |-> FALSE]

(* A call in progress; threw is the exception the function itself has raised: *)
(* "redis" when its class is RedisException.                                  *)
Frame == [kind : Kinds, span : Spans \cup {NoSpan}, gen : Nat, threw : {"no", "redis", "other"}]

-----------------------------------------------------------------------------
(* Reading the state. *)

Running == fault = "none" /\ phase # "exited"
Hooked == Enabled /\ (Cli => CliEnabled)
Top == frames[Len(frames)]

SpansOf(k) == {s \in live : span[s].key = k}

IsSampled(k) == sampled[k] \/ span[firstSpan[k]].old

(* The engine runs no user code while an exception is pending. *)
UserCode == frames # <<>> => Top.threw = "no"

(* A trace is under way: between RINIT and RSHUTDOWN, or started by the script. *)
Open == IF Cli THEN started ELSE phase = "script"

-----------------------------------------------------------------------------
(* Provider: what its methods make of a span, a slot or a counter.          *)
(* A definition marked "mutant" is a wrong version of the next one; nothing  *)
(* uses it but the runs that show which property it breaks.                  *)

(* mutants: the counter runs backwards; it stays at its limit. *)
Decreased(n) == n - 1
Saturated(n) == IF n > CounterLimit THEN n ELSE n + 1

Increased(n) == (IF n > CounterLimit THEN 0 ELSE n) + 1

(* mutant: every span gets a trace id of its own. *)
NewSpanOfOwnTrace(k, first, tid, parent) ==
    [key |-> k, tid |-> tid, parent |-> parent, status |-> "unset", ended |-> FALSE, old |-> FALSE]

(* createSpan: a child takes the trace id of the first span, a first span a new one. *)
NewSpan(k, first, tid, parent) ==
    [key |-> k, tid |-> IF first = NoSpan THEN tid ELSE span[first].tid,
     parent |-> parent, status |-> "unset", ended |-> FALSE, old |-> FALSE]

(* mutant: okEnd does not look at the status. *)
OkEndAnyway(r) == [r EXCEPT !.status = "ok", !.ended = TRUE]

OkEnd(r) == [r EXCEPT !.status = IF @ = "unset" THEN "ok" ELSE @, !.ended = TRUE]
ErrorEnd(r) == [r EXCEPT !.status = "error", !.ended = TRUE]
EndedAs(r, status) == IF status = "error" THEN ErrorEnd(r) ELSE OkEnd(r)

(* mutants: errorEnd leaves the sampling alone; the last span decides it. *)
SampledAsBefore(status) == sampled
SampledByLast(status) == [sampled EXCEPT ![ppid] = (status = "error")]

(* errorEnd also samples the trace of the current key. *)
SampledAfter(status) ==
    IF status = "error" THEN [sampled EXCEPT ![ppid] = TRUE] ELSE sampled
OptOutAfter(status) == optOut /\ ~(status = "error" /\ ppid = openKey)

(* clean: the entries of key k, when it has a request. *)
(* mutants: the sampled flag or the exception stays. *)
SampledKept(k) == sampled
ExceptionKept(k) == redisException

FreedBy(k) == IF request[k] THEN SpansOf(k) ELSE {}
FirstAfterClean(k) == IF request[k] THEN NoSpan ELSE firstSpan[k]
SampledAfterClean(k) == [sampled EXCEPT ![k] = @ /\ ~request[k]]
ExceptionAfterClean(k) == [redisException EXCEPT ![k] = @ /\ ~Cli /\ ~request[k]]
BaggageAfterClean(k) == [baggage EXCEPT ![k] = @ /\ ~Cli /\ ~request[k]]

(* parseTraceParent: the sampling decision, old being the one clean left.  A  *)
(* header is malformed that has not four pieces; one of four pieces is         *)
(* undecodable when an id in it is empty or not hex, for which Hex::decode     *)
(* returns a vector without data: setting the id kills the process.            *)
ByRatio(n) == SampleRatio = 1 \/ (SampleRatio # 0 /\ n % SampleRatio = 0)
Decision(header, n, old) ==
    CASE header = "sampled"   -> TRUE
      [] header = "unsampled" -> FALSE
      [] header = "none"      -> ByRatio(n) \/ old
      [] OTHER                -> old

FaultOf(header) ==
    CASE header = "undecodable"               -> "bad_id"
      [] header = "none" /\ SampleRatio = 0 -> "div_zero"
      [] OTHER                               -> "none"

(***************************************************************************)
(* Initial states: the process after opentelemetry_module_init.  A php-fpm  *)
(* worker inherits the queue its master opened; creating it may fail, which *)
(* is logged and never tried again.                                         *)
(***************************************************************************)
Init ==
    /\ phase = IF Cli THEN "script" ELSE "idle"
    /\ fault = "none"
    /\ ppid \in Ppids
    /\ provider = FALSE
    /\ started = FALSE
    /\ is_init_consumers = (~Cli /\ Enabled)
    /\ queue \in IF ~Cli /\ Enabled THEN {"absent", "open"} ELSE {"absent"}
    /\ counter = 0
    /\ request = [k \in Keys |-> FALSE]
    /\ firstSpan = [k \in Keys |-> NoSpan]
    /\ sampled = [k \in Keys |-> FALSE]
    /\ redisException = [k \in Keys |-> FALSE]
    /\ baggage = [k \in Keys |-> FALSE]
    /\ live = {}
    /\ span = [s \in Spans |-> Blank]
    /\ frames = <<>>
    /\ wire = {}
    /\ delivery = "none"
    /\ traces = 0
    /\ openKey = ppid
    /\ moved = FALSE
    /\ promised = FALSE
    /\ optOut = FALSE
    /\ bailed = FALSE
    /\ late = FALSE
    /\ unsampledRun = 0

(* The process dies in the middle of an operation of a value it reads without *)
(* a look at its type, its length or its presence; the state is the one before. *)
Dies(cause) ==
    /\ fault' = cause
    /\ UNCHANGED <<sapiVars, queueVars, slotVars, heapVars, frames, exportVars, historyVars>>

-----------------------------------------------------------------------------
(* Opening and closing a trace. *)

InitConsumers ==
    IF is_init_consumers
      THEN UNCHANGED queueVars
      ELSE is_init_consumers' = TRUE /\ queue' \in {"absent", "open"}

(* start_tracer, past its guard: header is the traceparent, item whether the *)
(* baggage header holds a key=value pair.                                     *)
StartTracer(header, item) ==
    LET k == ppid
        freed == FreedBy(k)
        first == FirstAfterClean(k)
        n == Increased(IF provider THEN counter ELSE 0)
        fromCaller == header \in {"sampled", "unsampled"}
        made(new) == IF fromCaller THEN [new EXCEPT !.tid = RemoteTrace, !.parent = "remote"]
                                   ELSE new
    IN /\ traces < MaxTraces
       /\ InitConsumers
       /\ provider' = TRUE
       /\ counter' = n
       /\ request' = [request EXCEPT ![k] = TRUE]
       /\ \E s \in Spans \ (live \ freed) :
             /\ firstSpan' = [firstSpan EXCEPT ![k] = s]
             /\ live' = (live \ freed) \cup {s}
             /\ span' = [x \in Spans |->
                           IF x = s THEN made(NewSpan(k, first, traces + 1, "none"))
                           ELSE IF x \in freed THEN Blank ELSE span[x]]
       /\ sampled' = [SampledAfterClean(k) EXCEPT ![k] = Decision(header, n, @)]
       /\ redisException' = ExceptionAfterClean(k)
       /\ baggage' = [BaggageAfterClean(k) EXCEPT ![k] = @ \/ item]
       /\ fault' = FaultOf(header)
       /\ traces' = traces + 1
       /\ openKey' = k
       /\ moved' = FALSE
       /\ promised' = FALSE
       /\ optOut' = FALSE
       /\ bailed' = FALSE
       /\ late' = FALSE
       /\ unsampledRun' = CASE header # "none" -> 0
                            [] ByRatio(n)      -> 0
                            [] OTHER           -> unsampledRun + 1
       /\ wire' = {}
       /\ delivery' = "none"
       /\ UNCHANGED <<ppid, frames>>

(* exporterOpenTelemetry: a full or a missing queue loses the request. *)
Export(k, closed) ==
    IF EnableCollect /\ IsSampled(k)
      THEN /\ wire' = {closed[s] : s \in SpansOf(k)}
           /\ delivery' \in IF queue = "open" THEN {"queued", "dropped"} ELSE {"dropped"}
      ELSE wire' = wire /\ delivery' = "withheld"

(* shutdown_tracer, past its guard.  Under the cli SAPI the Provider goes   *)
(* with the trace: requests of other keys are not deleted with it, their     *)
(* spans stay allocated but belong to nobody.                                *)
ShutdownTracer ==
    LET k == ppid
        freed == FreedBy(k)
        closed == [span EXCEPT ![firstSpan[k]] = OkEnd(@)]
        gone(v, cleaned) == IF Cli THEN [x \in Keys |-> v] ELSE cleaned
    IN /\ started' = FALSE
       /\ IF firstSpan[k] = NoSpan
            THEN UNCHANGED <<provider, counter, slotVars, heapVars, exportVars>>
            ELSE /\ Export(k, closed)
                 /\ provider' = ~Cli
                 /\ counter' = IF Cli THEN 0 ELSE counter
                 /\ request' = gone(FALSE, [request EXCEPT ![k] = FALSE])
                 /\ firstSpan' = gone(NoSpan, [firstSpan EXCEPT ![k] = FirstAfterClean(k)])
                 /\ sampled' = gone(FALSE, SampledAfterClean(k))
                 /\ redisException' = gone(FALSE, ExceptionAfterClean(k))
                 /\ baggage' = gone(FALSE, BaggageAfterClean(k))
                 /\ live' = live \ freed
                 /\ span' = [x \in Spans |->
                               IF x \in freed THEN Blank
                               ELSE IF Cli THEN [span[x] EXCEPT !.key = NoKey] ELSE span[x]]
       /\ UNCHANGED <<ppid, fault, queueVars, frames, historyVars>>

(* opentelemetry_request_init: an entry of $_SERVER that is no string, as the *)
(* one service_name_key names may be, is read as one.                         *)
RequestInit(header, item) ==
    /\ Running /\ ~Cli /\ Enabled
    /\ phase = "idle" /\ frames = <<>>
    /\ \/ Dies("server")
       \/ /\ phase' = "script"
          /\ started' = started
          /\ StartTracer(header, item)

(* opentelemetry_request_shutdown: no call is in progress when the engine   *)
(* deactivates its modules.                                                 *)
RequestShutdown ==
    /\ Running /\ ~Cli /\ Enabled
    /\ phase = "script" /\ frames = <<>>
    /\ phase' = "idle"
    /\ ShutdownTracer

(* opentelemetry_start_cli_tracer: likewise, and argv may be missing. *)
StartCliTracer(header, item) ==
    /\ Running /\ UserCode /\ Cli /\ CliEnabled /\ ~started
    /\ \/ Dies("server")
       \/ /\ phase' = phase
          /\ started' = TRUE
          /\ StartTracer(header, item)

(* opentelemetry_shutdown_cli_tracer *)
ShutdownCliTracer ==
    /\ Running /\ UserCode /\ Cli /\ CliEnabled /\ started
    /\ phase' = phase
    /\ ShutdownTracer

(* opentelemetry_module_shutdown: only a cli process removes its queue, and *)
(* only when both switches are on.                                          *)
ModuleShutdown ==
    /\ Running /\ frames = <<>>
    /\ Cli \/ phase = "idle"
    /\ phase' = "exited"
    /\ queue' = IF Cli /\ Enabled /\ CliEnabled /\ is_init_consumers THEN "absent" ELSE queue
    /\ UNCHANGED <<fault, ppid, provider, started, counter, is_init_consumers, slotVars,
                   heapVars, frames, exportVars, historyVars>>

-----------------------------------------------------------------------------
(* Instrumented internal functions. *)

(* The handlers: whether one puts a traceparent in the headers it sends; what *)
(* makes its span an ERROR; whether it finishes with okEnd whatever it ended   *)
(* the span with before; when it asks for the Provider: "once", on entry,      *)
(* "twice", again before it ends the span, or "twice" but writing to the span  *)
(* in between "anyway"; and which values it uses unchecked: its "arguments" (or *)
(* what hangs on them: a port that is no number, `new PDO` without a user, a   *)
(* statement or a connection that was never opened) or the "result".           *)
CurlHandler == [sends |-> TRUE, fails |-> "result", okLast |-> TRUE, asks |-> "once",
                trusts |-> "result"]
RedisHandler == [sends |-> FALSE, fails |-> "exception", okLast |-> FALSE, asks |-> "twice",
                 trusts |-> "arguments"]
MemcachedHandler == [sends |-> FALSE, fails |-> "result", okLast |-> FALSE, asks |-> "twice",
                     trusts |-> "arguments"]
PdoHandler == [sends |-> FALSE, fails |-> "result", okLast |-> FALSE, asks |-> "twice",
               trusts |-> "arguments"]
PdoStatementHandler == [sends |-> FALSE, fails |-> "result", okLast |-> FALSE, asks |-> "twice",
                        trusts |-> "arguments"]
MysqliHandler == [sends |-> FALSE, fails |-> "never", okLast |-> FALSE, asks |-> "twice",
                  trusts |-> "arguments"]
YarClientHandler == [sends |-> TRUE, fails |-> "never", okLast |-> FALSE, asks |-> "twice",
                     trusts |-> "arguments"]
YarServerHandler == [sends |-> FALSE, fails |-> "never", okLast |-> FALSE, asks |-> "anyway",
                     trusts |-> "nothing"]
Handler == [curl |-> CurlHandler, redis |-> RedisHandler, redis_cluster |-> RedisHandler,
            memcached |-> MemcachedHandler, pdo |-> PdoHandler,
            pdo_statement |-> PdoStatementHandler, mysqli |-> MysqliHandler,
            yar_client |-> YarClientHandler, yar_server |-> YarServerHandler]

(* mutant: the span is owned by the block of the hook, not by the request. *)
AddScopedChild(s, r) ==
    /\ live' = live
    /\ span' = [span EXCEPT ![s] = r]

(* latestSpan()->span_id(), createSpan, set_parent_span_id: span s becomes a *)
(* child of the first span, with the given status.                           *)
AddChild(s, r) ==
    /\ live' = live \cup {s}
    /\ span' = [span EXCEPT ![s] = r]

Child == NewSpan(ppid, firstSpan[ppid], 0, "first")

(* mutant: a hook does not ask for the Provider. *)
NullFirstSpanUntested == firstSpan[ppid] = NoSpan

(* Every hook asks only whether a Provider exists, then dereferences the     *)
(* first span of the current key.                                            *)
NullFirstSpan == provider /\ firstSpan[ppid] = NoSpan
HasFirstSpan == provider /\ firstSpan[ppid] # NoSpan

CrashOnNullSpan == NullFirstSpan /\ Dies("null_span")

(* What the API takes from the script, and the callbacks from the engine, is  *)
(* used as it comes once there is a Provider.                                 *)
CrashOnUnchecked == provider /\ Dies("unchecked")

(* mutant: the handler keeps latestSpan() instead of the span it made. *)
PushLatest(kind, s) ==
    frames' = Append(frames, [kind |-> kind, span |-> firstSpan[ppid], gen |-> traces, threw |-> "no"])

Push(kind, s) ==
    frames' = Append(frames, [kind |-> kind, span |-> s, gen |-> traces, threw |-> "no"])

(* formatTraceParentHeader: a callee learns that the trace opened last is     *)
(* sampled.                                                                   *)
Promises == ppid = openKey /\ IsSampled(ppid)

(* The part of a handler before the original function, for a call that makes *)
(* a span (a curl handle that is not http has none and changes nothing).     *)
CallBegin(kind) ==
    /\ Running /\ UserCode /\ Hooked
    /\ Len(frames) < MaxDepth
    /\ \/ CrashOnNullSpan
       \/ Handler[kind].trusts = "arguments" /\ CrashOnUnchecked
       \/ /\ HasFirstSpan
          /\ \E s \in Spans \ live : AddChild(s, Child) /\ Push(kind, s)
          /\ promised' = (promised \/ (Handler[kind].sends /\ Promises))
          /\ UNCHANGED <<sapiVars, fault, queueVars, slotVars, exportVars,
                         traces, openKey, moved, optOut, bailed, late, unsampledRun>>

(* The same without a Provider: the handler keeps an uninitialised pointer;  *)
(* one writes through it at once, which may go unnoticed.  curl passes the    *)
(* call on.                                                                  *)
CallBeginUntraced(kind) ==
    /\ Running /\ UserCode /\ Hooked /\ ~provider
    /\ Handler[kind].asks # "once"
    /\ Len(frames) < MaxDepth
    /\ Push(kind, NoSpan)
    /\ fault' \in IF Handler[kind].asks = "anyway" THEN {"none", "dangling"} ELSE {"none"}
    /\ UNCHANGED <<sapiVars, queueVars, slotVars, heapVars, exportVars, historyVars>>

Pop == frames' = SubSeq(frames, 1, Len(frames) - 1)

(* mutant: a handler only looks at the result. *)
EndStatusOfResult(kind) == IF Handler[kind].fails = "result" THEN {"ok", "error"} ELSE {"ok"}

(* How a handler may end its span.  redis looks for the exception the throw  *)
(* hook noted.                                                               *)
EndStatus(kind) ==
    CASE Handler[kind].fails = "exception" -> {IF redisException[ppid] THEN "error" ELSE "ok"}
      [] Handler[kind].fails = "result"    -> {"ok", "error"}
      [] OTHER                             -> {"ok"}

(* mutant: a failed curl call sets the status and forgets the end. *)
FailedNotFinished(kind, r, status) ==
    IF Handler[kind].okLast /\ status = "error" THEN [r EXCEPT !.status = "error"] ELSE EndedAs(r, status)

FinishedAs(kind, r, status) ==
    IF Handler[kind].okLast THEN OkEnd(EndedAs(r, status)) ELSE EndedAs(r, status)

ClearedException(kind) ==
    IF Handler[kind].fails = "exception" THEN [redisException EXCEPT ![ppid] = FALSE] ELSE redisException

(* The part of a handler after the original function.  All but curl ask      *)
(* again whether there is a Provider, none asks whether the span is still    *)
(* the one it made: a pointer to a freed or uninitialised span is undefined  *)
(* behaviour, a crash or a write that nobody sees; the address may also be   *)
(* that of a newer span by now.                                              *)
CallEnd ==
    /\ Running /\ frames # <<>>
    /\ \/ Handler[Top.kind].trusts = "result" /\ Dies("unchecked")
       \/ /\ ~provider /\ Handler[Top.kind].asks # "once"
          /\ Pop
          /\ UNCHANGED <<fault, slotVars, span, optOut>>
          /\ UNCHANGED <<sapiVars, queueVars, live, exportVars,
                         traces, openKey, moved, promised, bailed, late, unsampledRun>>
       \/ /\ provider \/ Handler[Top.kind].asks = "once"
          /\ \E status \in EndStatus(Top.kind) :
                /\ span' = IF Top.span \in live
                             THEN [span EXCEPT ![Top.span] = FinishedAs(Top.kind, @, status)]
                             ELSE span
                /\ fault' \in IF ~provider /\ status = "error" THEN {"dangling"}
                             ELSE IF Top.span \in live THEN {"none"} ELSE {"none", "dangling"}
                /\ sampled' = IF provider THEN SampledAfter(status) ELSE sampled
                /\ optOut' = OptOutAfter(status)
          /\ redisException' = ClearedException(Top.kind)
          /\ IF fault' = "none" THEN Pop ELSE frames' = frames
          /\ UNCHANGED <<request, firstSpan, baggage>>
          /\ UNCHANGED <<sapiVars, queueVars, live, exportVars,
                         traces, openKey, moved, promised, bailed, late, unsampledRun>>

(* exit() or a fatal error: the stack is unwound without the second halves.  *)
Bailout ==
    /\ Running /\ frames # <<>>
    /\ frames' = <<>>
    /\ bailed' = TRUE
    /\ UNCHANGED <<sapiVars, fault, queueVars, slotVars, heapVars, exportVars,
                   traces, openKey, moved, promised, optOut, late, unsampledRun>>

-----------------------------------------------------------------------------
(* The engine's callbacks. *)

(* opentelemetry_error_cb, for an error the configured level collects: the   *)
(* error is a span of its own; when error_reporting includes its type it is  *)
(* an ERROR, and so is the first span if there is no code to blame.          *)
ErrorCallback(reported, nocode) ==
    /\ Running /\ Hooked /\ provider
    /\ LET status == IF reported THEN "error" ELSE "ok"
           first == firstSpan[ppid]
       IN \/ CrashOnNullSpan
          \/ /\ HasFirstSpan
             /\ \E s \in Spans \ live :
                   /\ live' = live \cup {s}
                   /\ span' = [x \in Spans |->
                                 IF x = s THEN EndedAs(Child, status)
                                 ELSE IF x = first /\ reported /\ nocode THEN ErrorEnd(span[x])
                                 ELSE span[x]]
             /\ sampled' = SampledAfter(status)
             /\ optOut' = OptOutAfter(status)
             /\ UNCHANGED <<sapiVars, fault, queueVars, request, firstSpan, redisException,
                            baggage, frames, exportVars, traces, openKey, moved, promised, bailed, late,
                            unsampledRun>>

(* opentelemetry_throw_exception_hook: before PHP 8 the exception becomes an *)
(* ERROR span and the message of a RedisException is noted (not that of a     *)
(* RedisClusterException); from PHP 8 on the hook only calls the next one.  A  *)
(* native exception is one the innermost instrumented function raises itself, *)
(* and it stays pending until the function returns; any other comes from user *)
(* code, which may catch it.  Only the redis classes raise a RedisException.   *)
ThrowException(isRedis, native) ==
    /\ Running /\ UserCode /\ Hooked /\ provider
    /\ native => frames # <<>> /\ (isRedis => Handler[Top.kind].fails = "exception")
    /\ LET noted == IF isRedis THEN "redis" ELSE "other"
           thrown == IF native THEN [frames EXCEPT ![Len(frames)].threw = noted] ELSE frames
       IN \/ /\ Php8
             /\ frames' = thrown
             /\ UNCHANGED <<fault, slotVars, heapVars, optOut>>
             /\ UNCHANGED <<sapiVars, queueVars, exportVars,
                            traces, openKey, moved, promised, bailed, late, unsampledRun>>
          \/ ~Php8 /\ CrashOnNullSpan
          \/ ~Php8 /\ CrashOnUnchecked
          \/ /\ ~Php8 /\ HasFirstSpan
             /\ \E s \in Spans \ live : AddChild(s, ErrorEnd(Child))
             /\ sampled' = SampledAfter("error")
             /\ optOut' = OptOutAfter("error")
             /\ redisException' = [redisException EXCEPT ![ppid] = @ \/ isRedis]
             /\ frames' = thrown
             /\ UNCHANGED <<sapiVars, fault, queueVars, request, firstSpan, baggage, exportVars,
                            traces, openKey, moved, promised, bailed, late, unsampledRun>>

-----------------------------------------------------------------------------
(* The userland API. *)

(* opentelemetry_add_span: an attribute is taken for an array with the keys   *)
(* "key" and "value".                                                         *)
AddSpan(status) ==
    /\ Running /\ UserCode
    /\ \/ CrashOnNullSpan
       \/ CrashOnUnchecked
       \/ /\ HasFirstSpan
          /\ \E s \in Spans \ live : AddChild(s, EndedAs(Child, status))
          /\ sampled' = SampledAfter(status)
          /\ optOut' = OptOutAfter(status)
          /\ UNCHANGED <<sapiVars, fault, queueVars, request, firstSpan, redisException,
                         baggage, frames, exportVars, traces, openKey, moved, promised, bailed, late,
                         unsampledRun>>

(* opentelemetry_set_sample_ratio_based: 0 and 1 decide, any other ratio asks *)
(* the ini setting, and only when no caller sent a traceparent; $_SERVER may   *)
(* hold something else by now.                                                *)
SetSampleRatio(ratio, fromCaller) ==
    /\ Running /\ UserCode /\ provider
    /\ LET asksIni == ratio = "other" /\ ~fromCaller
           decision == CASE ratio = "zero" -> FALSE
                         [] ratio = "one"  -> TRUE
                         [] OTHER -> sampled[ppid] \/ (asksIni /\ counter % SampleRatio = 0)
       IN \/ ratio = "other" /\ CrashOnUnchecked
          \/ asksIni /\ SampleRatio = 0 /\ Dies("div_zero")
          \/ /\ ~(asksIni /\ SampleRatio = 0)
             /\ sampled' = [sampled EXCEPT ![ppid] = decision]
             /\ optOut' = IF ppid # openKey THEN optOut
                          ELSE (ratio = "zero" \/ (optOut /\ ~decision))
             /\ late' = (late \/ ~request[ppid])
             /\ UNCHANGED <<sapiVars, fault, queueVars, request, firstSpan, redisException,
                            baggage, heapVars, frames, exportVars,
                            traces, openKey, moved, promised, bailed, unsampledRun>>

(* opentelemetry_get_traceparent: the script passes the header on by itself. *)
GetTraceparent ==
    /\ Running /\ UserCode
    /\ \/ CrashOnNullSpan
       \/ /\ HasFirstSpan
          /\ promised' = (promised \/ Promises)
          /\ UNCHANGED <<sapiVars, fault, queueVars, slotVars, heapVars, frames, exportVars,
                         traces, openKey, moved, optOut, bailed, late, unsampledRun>>

(* opentelemetry_add_attribute, opentelemetry_add_event: attributes of the   *)
(* first span; of what they do, only the crash is visible here.              *)
AddAttribute == Running /\ UserCode /\ CrashOnNullSpan

(* opentelemetry_add_baggage (item), which makes strings of arguments it may  *)
(* not have been given, and opentelemetry_add_resource_attribute.  The         *)
(* resource belongs to the request: without one the pointer is null under the *)
(* cli SAPI, and under php-fpm the one the last request has freed.            *)
AddToResource(item) ==
    /\ Running /\ UserCode /\ provider
    /\ \/ item /\ CrashOnUnchecked
       \/ /\ baggage' = [baggage EXCEPT ![ppid] = @ \/ item]
          /\ fault' \in IF request[ppid] THEN {"none"}
                        ELSE IF Cli THEN {"resource"} ELSE {"none", "resource"}
          /\ late' = (late \/ ~request[ppid])
          /\ UNCHANGED <<sapiVars, queueVars, request, firstSpan, sampled, redisException,
                         heapVars, frames, exportVars,
                         traces, openKey, moved, promised, optOut, bailed, unsampledRun>>

-----------------------------------------------------------------------------
(* The environment. *)

(* Time passes: the first span gets older than max_time_consuming. *)
Elapse ==
    /\ Running /\ HasFirstSpan
    /\ span' = [span EXCEPT ![firstSpan[ppid]].old = TRUE]
    /\ UNCHANGED <<sapiVars, fault, queueVars, slotVars, live, frames, exportVars, historyVars>>

(* The parent of a cli process dies, or the process goes on as the child of  *)
(* its own pcntl_fork: getppid() changes, and may return to what it was when   *)
(* an earlier trace was open.                                                 *)
Reparent ==
    /\ Running /\ Cli
    /\ ppid' \in Ppids \ {ppid}
    /\ moved' = TRUE
    /\ UNCHANGED <<phase, provider, started, counter, fault, queueVars, slotVars, heapVars,
                   frames, exportVars, traces, openKey, promised, optOut, bailed, late,
                   unsampledRun>>

-----------------------------------------------------------------------------
Next ==
    \/ \E header \in Headers, item \in BOOLEAN : RequestInit(header, item)
    \/ \E header \in Headers, item \in BOOLEAN : StartCliTracer(header, item)
    \/ RequestShutdown
    \/ ShutdownCliTracer
    \/ ModuleShutdown
    \/ \E kind \in Kinds : CallBegin(kind)
    \/ \E kind \in Kinds : CallBeginUntraced(kind)
    \/ CallEnd
    \/ Bailout
    \/ \E reported, nocode \in BOOLEAN : ErrorCallback(reported, nocode)
    \/ \E isRedis, native \in BOOLEAN : ThrowException(isRedis, native)
    \/ \E status \in {"ok", "error"} : AddSpan(status)
    \/ \E ratio \in {"zero", "one", "other"}, fromCaller \in BOOLEAN : SetSampleRatio(ratio, fromCaller)
    \/ GetTraceparent
    \/ AddAttribute
    \/ \E item \in BOOLEAN : AddToResource(item)
    \/ Elapse
    \/ Reparent

Spec == Init /\ [][Next]_vars

-----------------------------------------------------------------------------
(* Properties. *)

(* Every variable has its type: what the state of core.cc, provider.h and   *)
(* php_opentelemetry.h can hold.                                            *)
TypeOK ==
    /\ phase \in {"idle", "script", "exited"}
    /\ fault \in Faults
    /\ ppid \in Ppids
    /\ provider \in BOOLEAN
    /\ started \in BOOLEAN
    /\ is_init_consumers \in BOOLEAN
    /\ queue \in {"absent", "open"}
    /\ counter \in Nat
    /\ request \in [Keys -> BOOLEAN]
    /\ firstSpan \in [Keys -> Spans \cup {NoSpan}]
    /\ sampled \in [Keys -> BOOLEAN]
    /\ redisException \in [Keys -> BOOLEAN]
    /\ baggage \in [Keys -> BOOLEAN]
    /\ live \subseteq Spans
    /\ span \in [Spans -> SpanRecord]
    /\ frames \in Seq(Frame)
    /\ wire \subseteq SpanRecord
    /\ delivery \in {"none", "queued", "dropped", "withheld"}
    /\ traces \in Nat
    /\ openKey \in Ppids
    /\ moved \in BOOLEAN
    /\ promised \in BOOLEAN
    /\ optOut \in BOOLEAN
    /\ bailed \in BOOLEAN
    /\ late \in BOOLEAN
    /\ unsampledRun \in Nat

(* The trace a call belongs to is not the one under way. *)
Stale(f) == f.span = NoSpan \/ f.gen # traces \/ ~Open

(* The slots of the Provider: a key with a request has a first span in it,  *)
(* and nothing but the sampled flag and the baggage without one.            *)
SlotInv ==
    /\ ~request[NoKey]
    /\ \A k \in Keys :
          /\ request[k] <=> firstSpan[k] # NoSpan
          /\ request[k] => firstSpan[k] \in live /\ span[firstSpan[k]].key = k
          /\ redisException[k] => request[k]

(* When there is a Provider, and that the last trace opened is in it.       *)
ProviderInv ==
    /\ ~moved => ppid = openKey
    /\ ~provider => \A k \in Keys : ~request[k]
    /\ IF Cli THEN /\ phase # "idle"
                   /\ provider => request[openKey]
                   /\ started => provider
              ELSE /\ ~moved
                   /\ ~started
                   /\ phase = "script" => provider
                   /\ phase = "script" <=> request[openKey]

(* The spans of a request form one tree of one trace, rooted in its first   *)
(* span; a span that no Provider reaches any more has no key.               *)
TreeInv ==
    /\ \A s \in live : span[s].key # NoKey => request[span[s].key]
    /\ \A k \in Keys : request[k] =>
          /\ span[firstSpan[k]].parent # "first"
          /\ span[firstSpan[k]].parent = "remote" <=> span[firstSpan[k]].tid = RemoteTrace
          /\ \A s \in live : span[s].key = k /\ s # firstSpan[k] =>
                span[s].parent = "first" /\ span[s].tid = span[firstSpan[k]].tid

(* Calls nest: an outer one began in no later trace than an inner one.      *)
NestingInv ==
    /\ \A i \in DOMAIN frames : frames[i].gen <= traces
    /\ \A i, j \in DOMAIN frames : i <= j => frames[i].gen <= frames[j].gen
    /\ ~Cli /\ phase = "exited" => frames = <<>>

(* Of what a process of the extension dies: a hook or the API used after     *)
(* RSHUTDOWN (php-fpm) or under another parent pid than the trace was opened  *)
(* with (cli) finds no first span or no resource; a call that outlives the    *)
(* trace it began in, or began in none, ends a span that is not its own; a    *)
(* sample ratio of zero is divided by; the traceparent a trace is opened with *)
(* has four pieces and an id that decodes to nothing; an entry of $_SERVER or  *)
(* another value is used that the code does not check, the latter only with a *)
(* Provider or when a call of curl returns.  So the order of calls, callbacks, *)
(* errors and exits between RINIT and RSHUTDOWN kills no php-fpm worker        *)
(* (provider.cc latestSpan, the is_has_provider tests of every hook); of the   *)
(* values that may, Handler and the actions of the API name the places.       *)
FaultExplained ==
    /\ fault \in {"null_span", "resource"} => IF Cli THEN ppid # openKey ELSE phase = "idle"
    /\ fault = "dangling" => frames # <<>> /\ Stale(Top)
    /\ fault = "div_zero" => SampleRatio = 0
    /\ fault = "bad_id" => /\ "undecodable" \in Headers
                          /\ ppid = openKey /\ SpansOf(ppid) = {firstSpan[ppid]}
    /\ fault = "server" => ~Open
    /\ fault = "unchecked" => provider \/ (frames # <<>> /\ Handler[Top.kind].trusts = "result")

(* While a trace is under way each call in progress owns the span it made:  *)
(* allocated, still unended, not the first one of its request, of this trace *)
(* unless the parent has changed meanwhile, and no other call's (the span    *)
(* local variable of the handlers across the original function).            *)
OpenCallOwnsItsSpan ==
    \A i \in DOMAIN frames : ~Stale(frames[i]) =>
        LET s == frames[i].span
        IN /\ s \in live
           /\ request[span[s].key] /\ s # firstSpan[span[s].key]
           /\ span[s].key = openKey \/ moved
           /\ ~span[s].ended
           /\ \A j \in DOMAIN frames : frames[j].span = s /\ ~Stale(frames[j]) => j = i

(* A trace with an ERROR span is sampled, whatever the ratio and the caller *)
(* decided before, until the user opts out (errorEnd calls setSampled; under *)
(* another parent pid it writes to another slot).                           *)
ErrorIsSampled ==
    \A s \in live : span[s].status = "error" /\ span[s].key = openKey /\ ~optOut /\ ~moved
        => sampled[openKey]

(* The strengthening of FaultExplained and OpenCallOwnsItsSpan that every    *)
(* step preserves: the Provider's slots agree with each other, with the      *)
(* heap and with the trace under way.                                        *)
TracerInv ==
    /\ TypeOK
    /\ SlotInv
    /\ ProviderInv
    /\ TreeInv
    /\ NestingInv
    /\ OpenCallOwnsItsSpan
    /\ FaultExplained
    /\ ErrorIsSampled

(* What is serialised is one tree of one trace: one span has no parent in   *)
(* it, all others are its children and carry its trace id, the caller's     *)
(* exactly if the caller is its parent (start_tracer creates the first span *)
(* before it parses the traceparent; createSpan copies the trace id).       *)
WireIsOneTrace ==
    wire # {} => \E root \in wire :
        /\ root.parent # "first"
        /\ root.parent = "remote" <=> root.tid = RemoteTrace
        /\ \A r \in wire \ {root} : r.parent = "first" /\ r.tid = root.tid

(* The noted RedisException belongs to a trace that has an ERROR span to    *)
(* show for it: none outlives its request.                                  *)
ExceptionHasItsTrace ==
    \A k \in Keys : redisException[k] => request[k] /\ \E s \in live : span[s].key = k /\ span[s].status = "error"

(* Among traces without a caller the ratio passes over at most ratio - 1 in *)
(* a row, twice that when Provider::counter wraps in between.               *)
RatioHonoured == SampleRatio \in 1 .. CounterLimit => unsampledRun <= 2 * (SampleRatio - 1)

(* The step that closes the trace of the current key. *)
Closes == firstSpan[ppid] # NoSpan /\ firstSpan'[ppid] = NoSpan

(* The step that ends the trace opened last. *)
Ends == Open /\ ~Open'

(* A callee that was told the trace is sampled gets the caller's spans: the *)
(* step that ends the trace hands them to the queue, unless the user opted   *)
(* out or collection is off (formatTraceParentHeader against                *)
(* shutdown_tracer).  A script has to end it under the parent pid it was     *)
(* opened with: shutdown_tracer looks the first span up by getppid(), and    *)
(* under another one it ends the trace without closing it.                   *)
PromiseKept ==
    [][Ends /\ promised /\ ~optOut /\ EnableCollect /\ ppid = openKey
         => Closes /\ delivery' \in {"queued", "dropped"}]_vars

(* Every span that is serialised has ended, unless a call was cut short or  *)
(* is still in progress (the second halves of the handlers).                *)
ExportedSpansEnded ==
    [][Closes /\ ppid = openKey /\ delivery' # "withheld" /\ ~bailed /\ frames = <<>>
         => \A r \in wire' : r.ended]_vars

(* An ERROR never becomes OK, neither while its trace is under way nor when *)
(* the trace is serialised: okEnd, which shutdown_tracer calls on the first  *)
(* span in any case, only sets an unset status.                             *)
ErrorSticks ==
    [][\A s \in live : span[s].status = "error" =>
         /\ s \in live' /\ traces' = traces => span'[s].status = "error"
         /\ Closes /\ span[s].key = ppid /\ delivery' # "withheld" =>
              \E r \in wire' : r.parent = span[s].parent /\ r.status = "error"]_vars

(* A new trace starts from its own decision: sampled only by its caller or  *)
(* its ratio and without a pending exception, if nothing was written        *)
(* between the traces (clean).                                              *)
TraceStartsClean ==
    [][traces' # traces /\ ~late =>
         /\ sampled'[ppid] => span'[firstSpan'[ppid]].parent = "remote" \/ ByRatio(counter')
         /\ ~redisException'[ppid]]_vars

(* A redis command that raised a RedisException ends as an ERROR, whatever    *)
(* other commands and exceptions came between; a command of RedisCluster that *)
(* raised a RedisClusterException does not.                                   *)
RedisErrorAttributed ==
    [][Len(frames') < Len(frames) /\ ~bailed' /\ Top.threw = "redis" /\ ~Stale(Top) /\ ~moved
         => span'[Top.span].status = "error"]_vars

(* An exception that an instrumented call has raised shows in its trace as  *)
(* an ERROR span (zend_hook_exception.cc; the README promises to collect    *)
(* exceptions by default).                                                  *)
ThrownExceptionIsRecorded ==
    frames # <<>> /\ Top.threw # "no" /\ ~Stale(Top)
        => \E s \in SpansOf(openKey) : span[s].status = "error"

=============================================================================
