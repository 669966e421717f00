# A verification of opentelemetry-php-ext in TLA+

The extension records what a PHP request does as OpenTelemetry spans and sends
them to a collector. This directory models the parts of it in which something
can go wrong that a test would hardly reach: spans held by pointer across calls
that re-enter the extension, state that outlives a request, a queue shared by
processes that fork, reload and die, a timer and a list of addresses without a
lock, a table of curl headers that drifts from libcurl's, pointers hooked in
MINIT and given back in MSHUTDOWN, and settings stored with the wrong width. TLC
checks the models on small instances; TLAPS proves the safety properties that
hold for instances of any size (the baggages of section 4 have two keys at most).

Paths are relative to the root of the repository; `core.cc` stands for
`src/core.cc`, and likewise for the other files of its `src` directory.

## 1. The system

| Component | State | Operations |
|---|---|---|
| Module life cycle (`opentelemetry.cc`, `core.cc`) | module globals, the hooks | MINIT, MSHUTDOWN, RINIT, RSHUTDOWN |
| Trace life cycle (`core.cc`) | `is_started_cli_tracer`, `provider` | `start_tracer`, `shutdown_tracer` |
| Provider (`provider.cc`) | request, first span, sampled flag, RedisException and baggage: single fields under php-fpm, maps by parent pid under the cli SAPI; counter | create, find and end spans, `clean`, `parseTraceParent`, `isSampled`, `increase` |
| Userland API (`sdk.cc`) | none of its own | start and shut down a cli trace, add spans, attributes, baggage, set the ratio, get the traceparent |
| Instrumented functions (`zend_hook_curl.cc`, `_redis`, `_memcached`, `_pdo`, `_pdo_statement`, `_mysqli`, `_yar`) | a local `Span*` across the original function; for curl also the table `curl_header` | before / after the original function; collect and forget the headers of a curl handle |
| Error and exception callbacks (`zend_hook_error.cc`, `zend_hook_exception.cc`) | previous callbacks | record an error, note a RedisException |
| Export pipeline (`core.cc`) | a boost message queue in shared memory, `is_init_consumers`, detached threads | `init_consumers`, `exporterOpenTelemetry`, `consumer`, `clean_consumers` |
| OtelExporter (`otel_exporter.cc`) | gRPC calls under way; or a socket, the lists of addresses, the current one and `addr_in` | `sendAsyncTracer`, `AsyncCompleteRpc`; `initUDP`, `sendTracerByUDP`, `resolveUDPAddr` |
| CTimer (`Timer.cc`) | three atomic flags, a counter, a thread | `Start`, `Cancel`, destructor |
| Settings (`opentelemetry.cc`, `php_opentelemetry.h`) | the module globals | registration, update at run time |
| Registry of hooks (`zend_hook.cc`) | the pointers that were replaced: static variables, and maps by function and method name | register, unregister |
| Helpers (`utils.cc`, `hex.cc`) | none | `get_current_ppid`, parsing, formatting |

How they interact. The engine calls RINIT, which starts a trace in the Provider;
while the script runs, the handlers of instrumented functions, the callbacks and
the API create and end spans in it, *nested in one another*: the original
function of curl or of the yar server runs user code, which may call every other
operation. RSHUTDOWN serialises the request and puts it into the message queue
by `try_send`; a detached thread of another process (php-fpm) or of the same one
(cli) takes it out and hands it to the exporter. With udp, a timer thread of the
exporter looks the collector's name up again and again while the consumer sends
to what it found last. The queue is found by a name
made of the pid that ran MINIT; forks inherit name and flags, but no threads.

What is hard. Nothing in one PHP process runs concurrently with its script,
except consumer threads and the timer; the hazards there are *re-entrance* and
*state that is stale when used*: the hooks ask whether a Provider exists, not
whether the trace they began in is still open, and everything under the cli SAPI
is keyed by `getppid()`, read anew at each use. Between processes it is
*interleaving and crashes*: removal of a queue by name, a process that dies
holding the queue's mutex, threads that open the queue after it is gone, calls
that time out although they arrived. `PROJECT.json` lists every such place under
`hazards`, with the properties that are aimed at it.

What correct means, per component:

- *Tracer (Provider, hooks, API, callbacks)*: no operation dereferences a null,
  freed or foreign span; a call ends the span it began; an error is never lost
  and always sampled; what a callee was promised about sampling is kept; nothing
  leaks into the next request; what is exported is one tree of one trace.
- *Pipeline*: a request is handed on at most once; the queue that workers open is
  served; a removed queue is really unused; a request is never held up by the
  collector; no queue outlives the processes that use it.
- *CTimer*: a once task runs once; no task after the destructor; cancel and
  destructor take effect; the timer can be used again.
- *OtelExporter, udp*: every datagram goes to an address of the collector, those of
  one request to the same one; every address is used; the process survives.
- *curl headers*: a traced call sends what the script asked for, one traceparent and
  one baggage, its own; the callee reads them back.
- *Registry*: while scripts run every hook is passed exactly once; afterwards the
  pointers are what they would be without the extension.
- *Settings*: every setting has the value given to it.

## 2. The modules

| Module | Models | Extends / instantiates |
|---|---|---|
| `Tracer` | one process: life of a trace, Provider, handlers, callbacks, API | |
| `TracerProofs` | type correctness of `Tracer`, its inductive invariant and the crashes | `Tracer` |
| `TracerExportProofs` | what is exported: one trace, kept promises, ended spans, errors | `TracerProofs` |
| `TracerCleanProofs` | what one trace leaves to the next, exceptions of redis, the ratio | `TracerExportProofs` |
| `Channel` | abstract: a channel in which no part of a request multiplies | |
| `Pipeline` | queue, consumers and exporter over several processes | `Channel`, as `C` |
| `PipelineProofs` | its types, that it is a `Channel`, served and leaked queues | `Pipeline` |
| `CTimer` | the timer | |
| `UdpExporter` | the udp half of the exporter, with its timer | `CTimer` |
| `UdpProofs` | the safety theorems of `CTimer` and of the exporter, and that it runs a `CTimer` | `UdpExporter` |
| `Propagation` | operators: traceparent, baggage, hex, `explode` | |
| `PropagationProofs` | induction over texts, and that what is written is read back | `Propagation` |
| `CurlHeader` | the headers of curl handles, and what a callee reads | `Propagation` |
| `CurlProofs` | what every call of curl sends, and what its callee reads | `CurlHeader`, `PropagationProofs` |
| `IniGlobals` | the words of the settings in memory | |
| `HookRegistry` | MINIT to unloading: hooks, switches and other extensions | `IniGlobals` |
| `HookProofs` | that settings are kept, hooks chained and given back | `HookRegistry` |
| `MCTracer`, `MCPipeline` | symmetry sets for TLC | |

`PROJECT.json` (`map`) gives the lines every definition stands for. A definition
whose comment says *mutant* is a wrong version of the definition it precedes and
is used by no specification; putting it in the place of the right one must make
TLC report the property named in `PROJECT.json` (`mutants`).

### Tracer

A span is a cell of a heap `Spans`: `live` is what is allocated, and an address
may be handed out again once `clean` has deleted its request, so that a dangling
pointer may also point to somebody else's span. The Provider's fields are
functions of a *key*, which is the parent pid. Under php-fpm the source has one
scalar field instead of each map; the model uses the same functions, and the
one parent pid never changes.

`frames` is the stack of instrumented calls in progress. `CallBegin` is the part
of a handler up to the original function, `CallEnd` the part behind it; between
the two, any action may happen (the original function runs user code), except
that nothing runs while a redis command has an exception pending (`UserCode`).
The handlers differ in five respects, which the records `CurlHandler` ..
`YarServerHandler` hold: whether they send a traceparent, what makes their span
an ERROR, whether an okEnd follows in any case, when they ask for the Provider,
and which values they use unchecked (`trusts`: the arguments, the result, or
none). Redis and RedisCluster have one handler but not one exception class, and
of the two the exception hook knows `RedisException` only; so they are two kinds,
and `threw` of a frame says which of the two its function has raised. `Bailout`
is `exit()` or a fatal error: the stack is unwound without the second halves.

Undefined behaviour of the code is a choice: writing through a pointer to a freed
or uninitialised span sets `fault` or goes unnoticed; if the address has been
reused the write hits the new span. A value that the code takes for what it need
not be (a missing argument, a bool read as a string, text parsed by `std::stoll`)
may kill the process or not: `Dies`, a disjunct of the action that uses it. A
`fault` stops the process, and its value says what it died of.

`StartTracer` is the whole of `start_tracer` (init_consumers, clean, first span,
counter, traceparent, baggage), `ShutdownTracer` the whole of
`shutdown_tracer` (okEnd, export, clean, and under the cli SAPI the deletion of
the Provider). Export ends at the queue here: `delivery` is `queued` or
`dropped`, and `Pipeline` goes on from there.

Abstracted: names, attributes, time stamps and ids. A trace id is the number of
the trace, or 0 for the caller's; `old` stands for "older than
max_time_consuming"; the headers are five classes: `none`, `malformed` (not four
pieces), `undecodable` (four, but an id decodes to nothing), `sampled` and
`unsampled`; of the baggage only whether it has an item.

`Reparent` changes what `getppid()` returns, to any other pid, one of an earlier
trace included: a script started by init that turns into a daemon has parent
1, then another, then 1 again, with the old entries still in the maps.

History variables (`traces`, `openKey`, `moved`, `promised`, `optOut`, `bailed`,
`late`, `unsampledRun`) guard nothing but the bound on `traces`; the properties use them
to say what was promised or asked before.

### Pipeline and Channel

`Root` is the process that runs MINIT: the php-fpm master, or a script. `linked`
is the queue the name stands for; a removed queue lives on, without a name, for
those who have it open. boost keeps a process-shared mutex in the queue that is
*not robust*; `try_send` and `receive` are therefore split at the mutex
(`ExportOpen`, `ExportLock`, `ExportSend`; `ConsumerOpen`, `ReceiveLock`,
`Receive`, `Send`), and a process that is killed between the halves leaves it
locked for ever. The mutex, fork, signals, the reload of php-fpm and the network
are external and so marked in the map. `init_consumers` is two steps
(`InitClean` removes the name, `InitOpen` creates the queue and starts the
threads) since other processes may act in between. php-fpm workers fork from the
master once its MINIT is over; the master serves no request.

The network and the collector count copies. A gRPC call and a short udp request
are one message; a udp request over 60000 bytes (`Long`) is cut into `Parts`, and
the code sends each of them twice, "once more" against loss (`Copies`). `Arrive`
and `Lose` move one copy.

`Channel` says what the pipeline promises: no part of a request arrives before the
request was exported, nor more often than one sending of it makes copies: once, or
twice for a part of a long udp request. What may get lost, may. `Pipeline`
implements it under the mapping in the instance `C`. That the collector must merge
the second copies is part of the promise, and the code's own intent; what the
property excludes is a request handed on a second time, by a consumer, a retry, a
fork or a reload.

### CTimer

Owner and thread share `m_bExpired`, `m_bTryExpired`, `m_bLoop`; every load that
decides and every store is a step. `Cancel` is two steps (test, store): that is
where its race is. `Start` takes `m_bExpired` and is then `replacing` (joining
the old thread) or `sleeping` (synchronous). The module is checked through
`UdpExporter`, which extends it.

### UdpExporter

The consumer thread sends a request (`Receive`, `Send`), then rotates
(`Rotate` .. `StoreAddress`); the timer's thread runs `resolveUDPAddr`
(`TaskBegins` .. `Publish`) as its task. They share `addr_info`,
`current_addr_info` and `addr_in` without a lock. The build is `-O0`
(`config.m4:19`, the Debug type of `CMakeLists.txt`), so that the order of loads
and stores is that of the source, and each mention of a field is a step of its
own. `register` and `resolved` are what a thread has loaded and not yet stored.
`getaddrinfo`'s lists are never freed by the code; so an entry is a pair of list
and position, a stale entry stays readable, and dereferencing a null one is
`crashed`. `addr_in` starts as the address of a local variable of the constructor,
`Null` here.

The variable `udp` chooses between an exporter's timer, which is started once with
`loop` and `async`, and a timer of any other owner, on which every call of
`CTimer` may be made; the properties of the timer are about both.

`Shards` is the number of parts of a long request: a quotient of two floats,
rounded as IEEE single precision rounds, and `ceil`. Every part is sent twice.

### Propagation and CurlHeader

`Propagation` translates `formatTraceParentHeader`, `parseTraceParent`,
`explode`, `Hex` and the baggage functions to operators on sequences. An id from
which too few bytes are decoded is `Unknown`, since the source copies bytes past
the end of a vector; one from which none is decoded is `Fatal`: the vector has no
data, and `set_trace_id(nullptr, 16)` throws where nothing catches (`bad_id` in
`Tracer`).

`CurlHeader` follows, for each handle, the list libcurl really sends (`native`) and
the copy of it in the source's table (`curl_header`). `curl_setopt` and
`curl_setopt_array` write both, `curl_exec` of a traced call writes libcurl's from
the table's, with the traceparent and the baggage of the call appended *in place*
when the list is in the table (`WithHeaders`). `curl_init`, `curl_reset` and
`curl_copy_handle` are not hooked; `curl_close` is, but from PHP 8 on closes
nothing, while handle numbers are used again. Whether the process runs PHP 7 or 8 is
chosen in `Init`. `sent` describes the call of `curl_exec` just made and is cleared
by every other step. `wanted` and `past` are history: what the script asked for, and
which of the events that separate the two lists the handle has seen. `has_provider`
stands for an open trace; what a hook does in a worker between requests is in
`Tracer`.

A server joins headers of one name with ", ", so a list that was used twice
brings its callee two traceparents in one, which it takes neither of, and two
baggages in one, which it does read: `BaggagesMerge` says as what. The blank after
the comma becomes part of the first key of every later baggage; so that item
arrives under a name nobody gave it, and its key keeps the value of the earlier
call. libcurl does not send a header without a value, so calls without baggage do
not count.

### HookRegistry

A hookable pointer is a *slot*: the two callbacks of the engine, a function whose
original is kept in a static variable (`curl`), and functions and methods kept in
a map by name (`mysqli`, and `redis` for redis, memcached, pdo and yar, whose code is
the same). Every module `saved` what it replaced; `Chain` follows the pointers
until the engine's. Other extensions hook the callbacks the same way, loaded
before and after this one, and are shut down in reverse order. MSHUTDOWN asks the
switches again (`GivenBack`); a php-fpm pool may have changed them in the worker.
The module continues `IniGlobals`: registering the settings, MINIT and changing
them are its actions, composed with the hooks.

### IniGlobals

The numeric settings are `int` fields but are registered with PHP's
`OnUpdateLong`, which stores 8 bytes. Memory is modelled by words, `Behind` is
the layout of the struct, `Order` that of the table of entries. Of a pointer
only the damaged half counts.

## 3. What the runs check

All runs set `CHECK_DEADLOCK FALSE`: a script may end, a process may be killed and
the bounds on traces, messages and queues stop every model in the end.

| Run | Instance | Distinct states | Shows |
|---|---|---|---|
| `TracerFpm` | php-fpm, PHP 7, four spans, two requests, calls nested two deep, seven kinds of call, five classes of header | 304,344 | see below |
| `TracerCli` | cli, a parent that changes between two pids and back, three spans, two traces, calls of the yar client | 1,427,524 | the inductive invariant `TracerInv` (with it `FaultExplained` and `OpenCallOwnsItsSpan`), and `PromiseKept` of a trace that ends under the parent it was opened with |
| `TracerRatio` | nine requests without calls, ratio 3, counter wrapping at 4 | 18,136 | `RatioHonoured` |
| `PipelineFpm` | gRPC, master, two workers, a consumer thread, three requests, one over the limit, a queue of length 1, kills and a reload | 58,293 | safety, refinement of `Channel`, liveness |
| `PipelineCli` | three processes of a script, udp, two requests, one of them of two parts sent twice | 1,255,561 | `AtMostOnce` of the parts, `NoQueueLeaked` |
| `UdpExporter` | two lookups that succeed, of one or two addresses; a short and a long request; counter up to 2 | 86,641 | addresses, parts, crashes; safety and liveness of the timer |
| `CurlHeader` | two handle numbers, two lists, two calls; ids of two and one bytes, baggage of two items | 1,333,598 | what a call sends and what its callee reads |
| `HookRegistry` | two neighbours, every choice of switches, two changes by a pool | 490,496 | the chains of hooks, the settings |
| `TracerPhp8`, `TracerCliRatio`, `PipelineFork`, `IniPool` | | | the findings of section 6 |

`TracerFpm` checks, besides the type invariant: `FaultExplained`,
`OpenCallOwnsItsSpan`, `WireIsOneTrace`, `ErrorIsSampled`,
`ExceptionHasItsTrace`, and of steps `PromiseKept` (a callee told "sampled" gets
the caller's spans), `ExportedSpansEnded`, `ErrorSticks`, `TraceStartsClean` and
`RedisErrorAttributed` (of a `RedisException`; that of a cluster is never noted).
Their comments in `Tracer.tla` say each in words.

`FaultExplained` says what the *order* of calls, callbacks, errors and exits can do:
between RINIT and RSHUTDOWN of php-fpm it kills no worker, for a null, freed or
foreign span is reached only by calls outside of them and by calls begun without a
trace. Values may kill it there: a ratio of 0, an id that decodes to nothing, an
entry of `$_SERVER` that is no string, and what a handler or the API uses unchecked
(section 6). Of these the property says where they can, not that they cannot.

`PromiseKept` judges the step that ends a trace. `shutdown_tracer` looks the first
span up by `getppid()`: a script whose parent is no longer the one the trace was
opened under ends it without closing it, and the promised spans are not exported.
The property is about a trace that ends under its own parent; the rest is listed
in section 6.

`UdpExporter` checks `SentToTheCollector` (no datagram to the constructor's dead
variable once a lookup has succeeded), `PartsTogether` (the parts of a request go
to one collector unless a new list was published while they were sent),
`CrashExplained` (the ways in which the fields kill the process; with a numeric
`udp_ip` both it and `SentToTheCollector` say nothing, as nothing can be said),
`PartsCover` (the parts are the whole request), and of the timer `OnceRunsOnce`,
`NoTaskOnceDeleted`, `ReusableUnlessTooLate` and two liveness properties: these
are about `CTimer` as the component it is, for this program starts one looping timer
and never cancels or deletes it.
`CurlHeader` checks `OwnTraceparent`, `HeadersKept`, which name the events after which
the code does not keep them, and `CalleeReadsBack`, which says what is read of one
header and what of several. `HookRegistry` checks
`HooksChained`, `HooksGivenBack` and `OnlyWordBehindSpoilt` (a setting changes
only by its own update, or because it lies behind one that was changed).

**Bounds.** Two traces are enough for anything that leaks from one into the next,
and two nested calls for a call that ends while an inner or outer one is held;
four spans are a first span, two calls and an error or an API span. Memory is
finite in the model only: a step that needs a fresh address is disabled when the
heap is full. The ratio is 3 in `TracerFpm`, so that of two traces none is
sampled by the ratio and what remains of the first is visible in the second;
`TracerRatio` is about the ratio itself, with a counter that wraps at 4 in place
of 10000000. Seven of the nine kinds of call occur in `TracerFpm`; `pdo` and
`pdo_statement` have the same record as `memcached`. In `TracerCli` calls do not
nest and are of one kind, which `TracerFpm` makes up for: what the parent does to the
maps needs one call in progress and a trace before its own, and the yar client's
handler asks for the Provider again after the call, so that it meets a trace that was
ended, or started, meanwhile. The proofs are about any depth and every kind. A queue of
length 1 is full with the first of two requests that fit; two parts are a first and
a last; two queues are one before and one after a reload or a fork;
two workers contend for the mutex and three processes are a script, its child
and another or a grandchild. Two lists of addresses are the one the consumer rotates
through and the one that replaces it, two addresses an end of a list and an entry
before it; by hand the run was repeated with three lists of up to two addresses
(346,679 states) and two of up to three (316,484). The sizes of requests lie on
both sides of one datagram; those for which the splitting is checked, on both
sides of multiples of 60000 up to 2^24, the last size a float holds exactly. Two
handles are a handle and its copy, or a number and its next owner; two calls the
first, which may leave a traceparent behind, and one that finds it. Ids of two
bytes for the trace and one for the span, of digits 0, a and f, show a swapped or
dropped half. A pool that changes two
settings is enough for a switch and the number behind which another lies.

**Fairness.** Only in `PipelineFpm` and `UdpExporter`. Weak fairness of the consumer
threads and of a process inside `try_send`: they are scheduled by the operating
system, and the mutex, taken finitely often since the requests are finite, is
either free for good or orphaned. No fairness of scripts, the network, the answers to
calls, kills or reloads. In `UdpExporter`: of the consumer inside a request, of
the timer's thread (it sleeps at most msTime at a time, and `getaddrinfo`
returns), and of an owner already inside a call; whether requests come, lookups
succeed, or another owner calls anything is left open.

**Liveness.** `QueuedIsReceived`, `ExportEnds`: a queued request is received and
`try_send` returns, except in the two cases they name, the master going down and a
process dying inside the mutex, from which the code does not recover.
`EveryAddressServed`: as long as requests keep coming, every address of the last
list is sent to, unless a newer list replaces it, although rotation and timer
overwrite each other. `CancelEnds`, `DeleteEnds`: a cancelled task runs out, and the
destructor returns.

## 4. What is proved

Assumptions: only those declared as `ASSUME` in the modules, that is the types of
the switches, `NoSpan \notin Spans`, `Ppids` a nonempty set of positive numbers,
that the bounds are natural numbers, and that the sizes of requests are positive.
The theorems hold for heaps, sets of pids, stacks and numbers of traces of any size,
for both SAPIs and for PHP 7 and 8; those of `Pipeline` for any number of processes,
threads, requests and queues; those of `CurlHeader` for any number of handles, lists
and calls. The table names the SAPI or the version of PHP where a theorem is about
one only.

| Theorem | States |
|---|---|
| `TypeCorrect` | `Spec => []TypeOK` of `Tracer` |
| `TracerInvHolds` | the inductive invariant |
| `FaultsExplained` | the process dies only in the ways listed; between RINIT and RSHUTDOWN of php-fpm of values, never of the order of calls |
| `OpenCallsOwnTheirSpans` | a call in an open trace owns its span, however the parent pid changes and returns |
| `ErrorsAreSampled` | a trace with an ERROR is sampled until the user opts out, while the parent pid is that of its start |
| `ExportIsOneTrace` | what is serialised is one tree of one trace |
| `ExceptionsStayInTheirTrace` | a noted exception has its ERROR span and its request |
| `PromisesAreKept` | the step that ends a trace exports it when a callee was told "sampled"; of a script, when it ends it under the parent it was opened with |
| `SpansEndBeforeExport` | what is serialised has ended, unless a call was cut short or is in progress, or the parent has changed |
| `ErrorsStick` | an ERROR never becomes OK and is serialised as one |
| `TracesStartClean` | php-fpm: a trace starts from its own decision |
| `RedisErrorsAttributed` | before PHP 8: a command that raised a `RedisException` is an ERROR; nothing is said of a cluster's |
| `RatioIsHonoured` | php-fpm: of 2 (ratio - 1) + 1 traces without a caller in a row one is sampled, for every ratio and limit of the counter |
| `TaskRunsOnce`, `DestructorJoins`, `TimerReusable` | of `CTimer` |
| `ExporterRunsATimer` | `UdpSpec => Spec`: the exporter's timer is a `CTimer` |
| `DatagramsReachACollector` | with a `udp_ip` that is a name, what is sent after the first successful lookup goes to an address of the collector |
| `RequestsStayTogether` | the parts of a request go to one collector unless a list was published meanwhile |
| `CrashesExplained` | with a `udp_ip` that is a name, the fields kill the process only when a lookup of one address overtakes the rotation through a longer list |
| `PartsCoverRequests` | the parts of a long request are the whole of it, for every size below 2^24 |
| `PipelineTypes` | `Spec => []TypeOK` of `Pipeline` |
| `NothingArrivesTooOften` | `Spec => AtMostOnce`: the pipeline implements `Channel`; a request is handed on once, so that it arrives at most once, and a part of a long udp request at most twice |
| `FpmQueueIsServed`, `FpmConsumersStay`, `FpmRemovesLeftovers` | php-fpm (the first with `Threads # {}`): the queue of the name is served, no consumer returns, only leftovers are removed |
| `CliLeavesNoQueue` | scripts, none killed: no queue is left behind |
| `TraceparentIsOwn`, `ScriptHeadersAreKept` | of `CurlHeader`: what a call of `curl_exec` sends |
| `CalleeReadsCaller` | `CurlSpec => []CalleeReadsBack`: of one traceparent the callee takes the caller's ids and flag, of several nothing; of one baggage what was sent if no separator is in it, of several all of them with renamed first keys |
| `HexReturns`, `TraceParentReturns` | `Hex::decode` and `parseTraceParent` give back what `Hex::encode` and `formatTraceParentHeader` wrote, for ids of any length and bytes |
| `BaggageReturns` | `parseBaggage` gives back what `formatBaggageHeader` wrote exactly when no key and no value contains a comma or an equals sign, for baggage of any size, in any order |
| `SettingsKept` | an update of a setting spoils at most the word behind it |
| `HookInvHolds` | the inductive invariant of the hooks |
| `CallsPassEveryHook`, `HooksAreGivenBack` | of `HookRegistry`: chains are complete while scripts run, and without this module after it |

*Tracer, safety.* `FaultExplained` and `OpenCallOwnsItsSpan` are not inductive. That
a call's span is alive follows only because the trace it began in is still the open
one, which needs to know that a request, once there, stays until `clean` (`SlotInv`:
a key has a request exactly when it has a first span, which is alive and filed under
that key), that under php-fpm a request exists exactly between RINIT and RSHUTDOWN
and under the cli SAPI while a Provider exists: one of the key of the last trace,
though after a reparent not of the current parent, under which there may still be
one of an earlier trace (`ProviderInv`), that `clean` deletes exactly the spans of
its key and that no live span has the key of a request that is gone (`TreeInv`), and
that calls nest, so that an inner call is never from an older trace than an outer
one (`NestingInv`). `TracerInv` is the conjunction. The proof of the step goes by
classes of steps: those that add children of the first span or end spans (`Grows`),
those that open and those that close a trace; each action is shown to be in its
class.

*Tracer, export.* On top of it, `HistoryInv` adds what was said and what is still
open: a promise is backed by the sampled flag or by the age of the first span
(`PromiseInv`), and a span of the open trace that has not ended is the first one or
some call's in progress (`UnendedInv`). Steps are again classified (`StepKinds`):
`Inside` a trace, where every span found keeps its marks; `Opens`; or
`ShutdownTracer`, the only one that `Closes`, and the only one that `Ends`. As long
as the parent is that of the start, the two are the same. The action properties then
follow for the closing step from what `Export` serialises (lemma `Serialised`).
`TracesStartClean` needs `CleanInv`: under php-fpm a sampled flag has its request,
unless the API wrote it between the requests, and no call is in progress there once
there is a Provider. Under the cli SAPI it is false: with another parent pid a flag
is set for a key without a request. `RedisErrorsAttributed` needs `ThrewInv`: the
pending exception is the innermost call's, and it is noted under the key of its
trace if it is a `RedisException`. Its hypothesis is a build before PHP 8; from PHP
8 on the exception hook notes nothing (finding 1).

*Tracer, ratio.* `RatioInv` bounds the traces passed over in a row by where the
counter stands (`RunBound`): from its first multiple of the ratio on by its
remainder, before that by itself and the ratio - 1 that may have gone before the
counter wrapped to 1, which is off the grid of the ratio. It also says that the
counter is 0 while there is no Provider. The theorem is about php-fpm: under the
cli SAPI the counter dies with the Provider after every trace, and the run
`TracerCliRatio` shows the property violated (finding 2).

*CTimer.* `ClaimInv` says that `m_bExpired` is a claim to the timer: when it is
true, or when the owner is about to replace the thread, the old thread is past
its loop. `CountInv` says that a once task has not run while its thread may
still run it. Both are needed, since Start resets the counter while the old
thread may still be there. `FlagInv`, for `TimerReusable`, says that a call of
Start in progress and a task that is over leave no request to stop behind, unless
it came too late.

*UdpExporter.* `ExporterRunsATimer` shows every step of the exporter to be one of the
timer's or to leave it alone, so that the theorems of `CTimer` hold of the
exporter's. `UdpInv` says that before the timer is started nothing but `initUDP`
resolves (`StageInv`), at which places of its code a thread may find a null entry,
and that then a lookup has overtaken the rotation (`NullInv`), that `addr_in` is set
once a lookup has succeeded and not to null again (`AddressInv`), and that the
datagrams of a request so far went to `addr_in` unless a list was published since
(`RouteInv`). `PartsCoverRequests` is arithmetic: rounding to 24 bits moves the
quotient of a size that is no multiple of 60000 by less than its distance to the
next integer (`NothingVanishes`), so that `ceil` yields the same as without rounding
(`ShardsRoundUp`).

*Propagation.* What a text is read as is defined by recursion along it (`Cut`, and
`FlattenSeq` of the community modules). `NatInduct` is induction as a fact about
sets: a set of numbers that holds 0 and every successor is `Nat`, since otherwise the
numbers outside it had a least one, by the library's theorem on well-founded
orders (`WFMin`); `SeqInduct` is the same for sequences that grow by an element.
`Recursion` shows that the function a recursion defines exists, so that the defining
`CHOOSE` obeys its equation (`CutLoop`, `Flatten`). From these follow, each by
induction over the text, what one more character does to the pieces of `Explode`
(`ExplodeAppend`), that a text without the delimiter is one piece (`ExplodeWhole`),
that what follows the last delimiter is the last one (`ExplodeAfter`), that no piece
contains the delimiter (`ExplodePieces`), and that more text means no fewer
(`ExplodeGrows`, `ExplodeMore`). `TraceParentReturns` then needs that no hex digit is a
dash; of joined traceparents, each of which has a dash, the parts are more than four
(`ManyTexts`). For `BaggageReturns`, entries without a comma joined by commas are
the pieces of the whole (`EntriesJoined`), and each splits at its sign; conversely all
that `parseBaggage` keeps was cut at both separators, so it contains neither
(`BaggagePlain`). For baggages joined by a server (`BaggagesOfCalls`), the pieces of
two texts joined by a comma are those of the one and then those of the other
(`ExplodeConcat`), so that what is read of the second overrides what is read of the
first (`ParseConcat`). A blank before a baggage is a blank before the key its walk
begins with, that is, the text of another baggage (`BehindText`), which arrives as
any other does (`FollowerArrives`); and overriding one by one is what `Merges` says
of all (`MergesAnother`). This is proved for baggages of one or two keys, as
`BaggagesMerge` states it, from any number of calls.

*CurlHeader.* The first two properties are about the call just made. `CurlInv` ties the
table of the hooks to libcurl's list for every handle that may be called next
(`HandleOK`): unless the handle's past has an event the hooks do not see, both hold
the headers the script wants; a traceparent in the table's list got there by a
call after collecting, of this handle or an earlier owner of its number; one in
libcurl's list by a call; and what is no array in the table was put there by
`curl_setopt_array`. Without an open trace the table is empty. `CalleeReadsBack` needs
besides, in `CallsInv`, that no list in the table holds the headers of more calls than
were made, so that a traced call carries those of one to `MaxCalls`; how these are read
is the matter of `PropagationProofs` (`TraceParentReturns`, `ManyTexts`,
`BaggageOfNames`, `BaggagesOfCalls`).

*Pipeline.* `TypeOK` is not inductive: that `receive` finds a message in a queue
needs `MutexInv`, that the mutex of a queue has at most one holder and the queue is
not empty when it is a thread, since nobody else can take from it meanwhile.
`TokenInv` says that a request is in one place at a time, a process's `try_send`, a
thread, or at one position of one queue (`PlaceInv`), that while it is in one
nothing of it is in the network or has arrived, and that the copies of a datagram
under way and arrived are together no more than one sending makes (`CountInv`).
Lemma `TokenInvStep` shows that every step preserves it and is a step of `Channel`
or none (`ChannelStep`): five actions move a request or a datagram, one at a time;
the rest keep the places or lose what is in them (`Stays`). For php-fpm, `FpmInv`
says that only the initialised master has threads, that there is a queue of the name
while it has, which is the one they have open, and that `init_consumers` creates one
when the name is free. For scripts, `CliInv` says that while there is a queue, a
process is left, not past MSHUTDOWN, that will remove it.

*HookRegistry.* `IniInv` says that until MINIT is over, and under the cli SAPI for
good, every setting holds what it was given, and that what is not registered yet
is 0, because every number is registered before the word behind it. A step of the
registry is one of `IniGlobals`, the MINIT of a disabled extension, or leaves
the settings alone. `HookInv` says where every pointer leads (`Top`) and what every
loaded module saved (`Below`, `Under`), from the list of loaded modules and the
switches of MINIT alone. That a chain is complete is then followed link by link
(`ChainEnds`). `HooksGivenBack` needs what `HooksChained` does not: that no switch
has changed before scripts run, so that MSHUTDOWN gives back what MINIT took, and
that an error was raised into nothing only if one has changed since (`SlotsOK`). The
bound on altered settings plays no part.

Only model-checked: all liveness (`QueuedIsReceived`, `ExportEnds`,
`EveryAddressServed`, `CancelEnds`, `DeleteEnds`), since fairness and ENABLED are out of
TLAPS's reach. Every other property of a passing run has its theorem. Of the
traceparents and baggage that a callee gets from others only how `Explode` cuts
them is proved; what `ReadId` and `ParseBaggage` make of them is proved for those
that this program wrote.

## 5. What is not modelled

- Text: names, attributes, JSON, stack traces, the log. No property is about it.
- `sendTracer`, which has no caller; the code under `// debug`.
- Failures of allocation. Of a traceparent with ids that are too short, bytes past
  the end of a vector are copied: the id is `Unknown` in `Propagation`, and
  no property says more of it. (An id of which *nothing* is decoded is modelled: it
  kills the process, section 6.)
- What the collector does with the second copies of udp parts: it is outside this
  repository.
- The splitting of requests of 2^24 bytes and more, where a float no longer holds
  the size: `max_message_size` is 102400 by default and 1024000 in the example.
- Whether php-fpm turns into a daemon after MINIT, which leaves the consumer
  threads behind in the process that exits; this is decided outside this
  repository.
- Build, docker, examples; `tests/001.phpt` only loads the extension.

## 6. Where the code and its documentation disagree

Each has a run that shows it (`findings` in `PROJECT.json` quotes the lines):

1. `TracerPhp8`: from PHP 8 on the exception hook records nothing, although
   `enable_exception` is documented as collecting exceptions.
2. `TracerCliRatio`: under the cli SAPI the counter dies with the Provider after
   every trace, so with a ratio above 1 no trace is sampled by the ratio.
3. `PipelineFork`: `init_consumers` in a forked child removes, as remains of
   earlier errors, the queue its parent's consumer is emptying.
4. `IniPool`: setting `sample_ratio_based` after MINIT zeroes
   `max_time_consuming`.

Weaknesses seen without a run of their own, each named as an exception in a
property:

- *Values* (`FaultExplained`; `bad_id`, `server`, `unchecked` and `div_zero` in
  `Tracer`). A traceparent of four pieces with an empty id, or one that is not hex,
  makes `Hex::decode` return an empty vector (`hex.cc:47`, `:62`, `:71`), and the
  copy from its null data (`provider.cc:226-227`) throws in RINIT or `start_tracer`,
  where nothing catches. An entry of `$_SERVER` is read as a string without a test,
  as `argv` under the cli SAPI is (`core.cc:249`, `utils.cc:205-221`). The API
  builds strings from optional arguments that were not given (`sdk.cc:96-112`) and
  reads the attributes of a span without a test of their type (`sdk.cc:211-224`).
  Handlers read the bool that `curl_exec` returns without `CURLOPT_RETURNTRANSFER`
  as a string (`zend_hook_curl.cc:212-216`), the second argument of `new PDO(dsn)`
  (`zend_hook_pdo.cc:63-64`), the state of a statement that was never initialised
  (`zend_hook_pdo_statement.cc:55-62`), a redis port by `std::stoll`
  (`zend_hook_redis.cc:112-114`), the arguments of memcached, mysqli and yar
  (`zend_hook_memcached.cc:88-93`, `zend_hook_mysqli.cc:71-76` and `:90`,
  `zend_hook_yar.cc:109-114`) and the properties of an exception
  (`zend_hook_exception.cc:51-58`). The model has one disjunct per place that may
  die of this, `CrashOnUnchecked` or `Dies("unchecked")`, and not one per value.
- *RedisCluster* (`RedisErrorAttributed`): the redis handler wraps it too
  (`zend_hook_redis.cc:138`, `:271`), but the exception hook compares the class with
  exactly `RedisException` (`zend_hook_exception.cc:85`); a command that raised a
  `RedisClusterException` ends OK. A `RedisException` that user code throws, on the
  other hand, makes an ERROR of the next redis command of the trace.
- *Reparent* (`PromiseKept`, `ErrorIsSampled`): under another parent pid than the trace
  was opened with, `shutdown_tracer` finds no first span (`core.cc:318`): the trace
  is ended, not closed, and what a callee was promised is not exported. Neither is
  it when a script ends without `opentelemetry_shutdown_cli_tracer`. When the old
  parent pid returns, so do the old entries of the maps.
- *Exit* (`ExportedSpansEnded`): spans of calls that `exit()` or a fatal error cut
  short are exported without an end.
- *Between requests* (`TraceStartsClean`): what the API writes to the sampled flag or
  the baggage after RSHUTDOWN survives into the next request, because `clean` does
  nothing without a request (`provider.cc:169`).
- *Queue*: when its creation fails, it is not tried again and every export is dropped.
- *Timer*: a `Cancel` that loses its race leaves a timer that `Start` refuses for
  ever (`ReusableUnlessTooLate`).
- *Pipeline*: `consumer` is `[[noreturn]]` and returns when the queue is gone before
  its detached thread opens it, which under php-fpm does not happen
  (`ConsumerNeverReturns`) and under the cli SAPI does; with `enable = 0` and
  `cli_enable = 1` a script's queue is never removed, nor is that of the php-fpm
  master (`NoQueueLeaked` is about both switches on).
- *Udp* (`SentToTheCollector`, `CrashExplained`, `PartsTogether`): with a numeric
  `udp_ip`, which `opentelemetry.ini:28` gives as an example (`udp_ip =
  "127.0.0.1"`), the exporter writes and sends through the address of a dead local
  variable; with a name it sends there until a first lookup has succeeded, since
  `sendTracerByUDP` does not ask; the consumer tests `ai_next` and loads it again,
  and dereferences null when a lookup with a single address comes between; the parts
  of one request may go to two collectors; every part of a long request is sent
  twice (`otel_exporter.cc:122-134`), both copies with the same id and index, so
  that merging them is left to the collector. Every refresh starts again at the
  first entry, and an entry that is IPv6 is lost on the `AF_INET` socket.
- *Curl* (`OwnTraceparent`, `HeadersKept`): a handle used twice in a trace sends two
  traceparents, of which the callee takes neither, and two baggages, of which it
  reads the second with a blank before its first key (`CalleeReadsBack`); headers
  are lost or come back after `curl_reset`, `curl_copy_handle`, `curl_close` of PHP
  8, a handle number used again, or when they were set outside the trace;
  `curl_setopt_array` stores the header option without a test of its type. Baggage
  is not escaped (`BaggageArrives`).
- *Hooks* (`HooksGivenBack`): a switch that a pool changed makes MSHUTDOWN leave a
  pointer into the unloaded extension, or set `zend_error_cb` to null; classes of
  extensions that are loaded later are never hooked (`HooksChained`), and their
  handlers become null at the end.
- `opentelemetry_set_sample_ratio_based` takes any ratio but 0 and 1 to mean the ini
  setting; the comment of `get_current_ppid` speaks of the thread id
  (`include/utils.h:136-139`) where the code returns `getppid()`.

## 7. Plan

Done: `Tracer`, `Channel` and `Pipeline`, `CTimer`, `IniGlobals`; `UdpExporter` with
`CTimer`, `HookRegistry` with `IniGlobals`, `CurlHeader` with `Propagation`; the
proofs of section 4.

Left: the liveness properties have no proof. `Chain` and `HookProofs` are about one
neighbour on either side; any number of them would need chains of any length, for
which `NatInduct` and `SeqInduct` would serve.

## 8. Running it

    tlc -config TracerFpm.cfg MCTracer.tla
    tlc -config UdpExporter.cfg UdpExporter.tla
    tlapm TracerCleanProofs.tla
    tlapm HookProofs.tla

The runs and the module each belongs to are in `PROJECT.json`.
