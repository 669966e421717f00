------------------------- MODULE TracerCleanProofs -------------------------
(***************************************************************************)
(* What one trace leaves to the next in a php-fpm worker, and what a redis  *)
(* exception leaves to the call that raised it: the action properties       *)
(* TraceStartsClean and RedisErrorAttributed of Tracer.  Both are about     *)
(* slots that are written without a look at whether their request exists.   *)
(* And what all the traces of a worker share: the counter of the sampling   *)
(* ratio, and with it RatioHonoured.                                         *)
(***************************************************************************)
EXTENDS TracerExportProofs

(* The parts of the sapi's state that only the opening and closing steps     *)
(* and the move to another parent pid change.                                *)
SameTrace ==
    /\ UNCHANGED <<phase, started, traces, openKey>>
    /\ moved' \/ UNCHANGED <<moved, ppid>>

-----------------------------------------------------------------------------
(* Under php-fpm a sampled flag has its request, unless the API wrote it     *)
(* between the requests; no call is in progress there once there is a        *)
(* Provider.                                                                 *)
CleanInv ==
    /\ \A k \in Keys : k # ppid => ~sampled[k]
    /\ phase = "idle" /\ provider => frames = <<>>
    /\ ~late /\ sampled[ppid] => request[ppid]

LEMMA CleanInit == Init => CleanInv
BY KeysAreNat DEF Init, CleanInv

(* A step that writes the flag of the current key, at most to its request's. *)
LEMMA CleanWrite ==
  ASSUME TracerInv, CleanInv, UNCHANGED <<ppid, phase, provider, request>>,
         NEW b \in BOOLEAN, sampled' = [sampled EXCEPT ![ppid] = b],
         request[ppid] \/ (b => sampled[ppid]) \/ late',
         late => late', frames' = <<>> \/ frames # <<>> \/ phase # "idle"
  PROVE  CleanInv'
BY KeysAreNat DEF TracerInv, TypeOK, CleanInv

(* A step that leaves the flags alone. *)
LEMMA CleanQuiet ==
  ASSUME CleanInv, UNCHANGED <<ppid, phase, provider, request, sampled>>, late => late',
         frames' = <<>> \/ frames # <<>> \/ phase # "idle" \/ ~provider
  PROVE  CleanInv'
BY Zenon DEF CleanInv

(* The step of errorEnd: it writes to the current key, which has a request.  *)
LEMMA CleanError ==
  ASSUME TracerInv, CleanInv, UNCHANGED <<ppid, phase, provider, request, late>>,
         NEW status, sampled' = SampledAfter(status), HasFirstSpan,
         frames' = <<>> \/ frames # <<>> \/ phase # "idle"
  PROVE  CleanInv'
<1>1. request[ppid]
  BY FirstIsOpen
<1>2. CASE status = "error"
  BY <1>1, <1>2, CleanWrite DEF SampledAfter
<1>3. CASE status # "error"
  BY <1>3, CleanQuiet DEF SampledAfter
<1>4. QED
  BY <1>2, <1>3

LEMMA CleanStep ==
  ASSUME ~Cli, TracerInv, CleanInv, [Next]_vars
  PROVE  CleanInv'
<1>a. ASSUME NEW cause, Dies(cause) PROVE CleanInv'
  <2>1. UNCHANGED <<ppid, phase, provider, request, sampled, late, frames>>
    BY <1>a, Zenon DEF Dies, sapiVars, slotVars, historyVars
  <2>2. QED
    BY <2>1, CleanQuiet, Zenon
<1>1. ASSUME CrashOnNullSpan \/ CrashOnUnchecked PROVE CleanInv'
  BY <1>a, <1>1 DEF CrashOnNullSpan, CrashOnUnchecked
<1>2. ASSUME NEW header \in Headers, NEW item \in BOOLEAN,
             RequestInit(header, item) \/ StartCliTracer(header, item)
      PROVE  CleanInv'
  <2>1. CASE Dies("server")
    BY <1>a, <2>1
  <2>2. CASE ~Dies("server")
    <3>1. /\ phase' = "script" /\ ppid' = ppid /\ ppid \in Keys
          /\ request' = [request EXCEPT ![ppid] = TRUE]
          /\ \E d : sampled' = [SampledAfterClean(ppid) EXCEPT ![ppid] = d]
      BY <1>2, <2>2, KeysAreNat, Zenon
      DEF RequestInit, StartCliTracer, StartTracer, TracerInv, TypeOK
    <3>2. request'[ppid] /\ \A k \in Keys : k # ppid => sampled'[k] = sampled[k]
      BY <3>1 DEF SampledAfterClean, TracerInv, TypeOK
    <3>3. QED
      BY <3>1, <3>2 DEF CleanInv
  <2>3. QED
    BY <2>1, <2>2
<1>3. CASE RequestShutdown \/ ShutdownCliTracer
  <2>1. frames = <<>> /\ frames' = frames /\ ShutdownTracer
    BY <1>3, Zenon DEF RequestShutdown, ShutdownCliTracer, ShutdownTracer
  <2>2. ppid' = ppid /\ late' = late
    BY <2>1, CloseFacts, Zenon
  <2>3. CASE firstSpan[ppid] = NoSpan
    <3>1. UNCHANGED <<request, sampled>>
      BY <2>1, <2>3, CloseFacts, Zenon
    <3>2. QED
      BY <2>1, <2>2, <3>1, Zenon DEF CleanInv
  <2>4. CASE firstSpan[ppid] # NoSpan
    <3>1. sampled' = SampledAfterClean(ppid) /\ ~sampled'[ppid]
      BY <2>1, <2>4, CloseFacts, Zenon DEF ShutdownTracer
    <3>2. \A k \in Keys : k # ppid => sampled'[k] = sampled[k]
      BY <3>1 DEF SampledAfterClean, TracerInv, TypeOK
    <3>3. QED
      BY <2>1, <2>2, <3>1, <3>2, Zenon DEF CleanInv
  <2>5. QED
    BY <2>3, <2>4
<1>4. CASE ModuleShutdown
  <2>1. /\ phase' = "exited"
        /\ UNCHANGED <<ppid, request, sampled, late>>
    BY <1>4, Zenon DEF ModuleShutdown, slotVars, historyVars
  <2>2. QED
    BY <2>1 DEF CleanInv
<1>5. ASSUME NEW kind \in Kinds, CallBegin(kind) PROVE CleanInv'
  <2>1. CASE CrashOnNullSpan \/ CrashOnUnchecked
    BY <1>1, <2>1
  <2>2. CASE ~CrashOnNullSpan /\ ~CrashOnUnchecked
    <3>1. HasFirstSpan /\ UNCHANGED <<ppid, phase, provider, request, sampled, late>>
      BY <1>5, <2>2, Zenon DEF CallBegin, sapiVars, slotVars
    <3>2. phase # "idle"
      BY <3>1, FirstIsOpen DEF TracerInv, ProviderInv
    <3>3. QED
      BY <3>1, <3>2, CleanQuiet
  <2>3. QED
    BY <2>1, <2>2
<1>6. ASSUME NEW kind \in Kinds, CallBeginUntraced(kind) PROVE CleanInv'
  <2>1. ~provider /\ UNCHANGED <<ppid, phase, provider, request, sampled, late>>
    BY <1>6, Zenon DEF CallBeginUntraced, sapiVars, slotVars, historyVars
  <2>2. QED
    BY <2>1, CleanQuiet
<1>7. CASE CallEnd
  <2>1. CASE CallReturns
    <3>1. frames # <<>> /\ Running /\ UNCHANGED <<ppid, phase, provider, late>>
      BY <1>7, <2>1, CallEndCases, Zenon DEF CallReturns, sapiVars
    <3>2. CASE ~provider
      <4>1. UNCHANGED <<request, sampled>>
        BY <2>1, <3>2, Zenon DEF CallReturns, slotVars
      <4>2. QED
        BY <3>1, <4>1, CleanQuiet
    <3>3. CASE provider
      <4>1. phase = "script"
        BY <3>1, <3>3 DEF CleanInv, TracerInv, TypeOK, Running
      <4>2. HasFirstSpan
        BY <3>3, <4>1, KeysAreNat DEF TracerInv, ProviderInv, SlotInv, TypeOK, HasFirstSpan
      <4>3. PICK status \in EndStatus(Top.kind) : sampled' = SampledAfter(status) /\ request' = request
        BY <2>1, <3>3, Zenon DEF CallReturns
      <4>4. QED
        BY <3>1, <4>2, <4>3, CleanError
    <3>4. QED
      BY <3>2, <3>3
  <2>2. CASE ~CallReturns
    BY <1>7, <2>2, <1>a, CallEndCases
  <2>3. QED
    BY <2>1, <2>2
<1>8. CASE Bailout
  <2>1. frames' = <<>> /\ UNCHANGED <<ppid, phase, provider, request, sampled, late>>
    BY <1>8, Zenon DEF Bailout, sapiVars, slotVars
  <2>2. QED
    BY <2>1, CleanQuiet
<1>9. ASSUME NEW reported \in BOOLEAN, NEW nocode \in BOOLEAN, ErrorCallback(reported, nocode)
      PROVE  CleanInv'
  <2>1. CASE CrashOnNullSpan
    BY <1>1, <2>1
  <2>2. CASE ~CrashOnNullSpan
    <3>1. /\ HasFirstSpan /\ UNCHANGED <<ppid, phase, provider, request, late, frames>>
          /\ sampled' = SampledAfter(IF reported THEN "error" ELSE "ok")
      BY <1>9, <2>2, Zenon DEF ErrorCallback, sapiVars
    <3>2. QED
      BY <3>1, CleanError, Zenon
  <2>3. QED
    BY <2>1, <2>2
<1>10. ASSUME NEW isRedis \in BOOLEAN, NEW native \in BOOLEAN, ThrowException(isRedis, native)
       PROVE  CleanInv'
  <2>1. CASE CrashOnNullSpan \/ CrashOnUnchecked
    BY <1>1, <2>1
  <2>2. ASSUME frames' = Thrown(isRedis, native) PROVE frames' = <<>> \/ frames # <<>>
    BY <1>10, <2>2, ThrowExceptionCases DEF Thrown
  <2>3. CASE NotRecorded(isRedis, native)
    <3>1. UNCHANGED <<ppid, phase, provider, late, request, sampled>>
          /\ frames' = Thrown(isRedis, native)
      BY <2>3, Zenon DEF NotRecorded, sapiVars, slotVars
    <3>2. QED
      BY <2>2, <3>1, CleanQuiet, Zenon
  <2>4. CASE Recorded(isRedis, native)
    <3>1. /\ HasFirstSpan /\ sampled' = SampledAfter("error")
          /\ UNCHANGED <<ppid, phase, provider, late, request>>
          /\ frames' = Thrown(isRedis, native)
      BY <2>4, Zenon DEF Recorded, sapiVars
    <3>2. QED
      BY <2>2, <3>1, CleanError, Zenon
  <2>5. QED
    BY <1>10, <2>1, <2>3, <2>4, ThrowExceptionCases
<1>11. ASSUME NEW status \in {"ok", "error"}, AddSpan(status) PROVE CleanInv'
  <2>1. CASE CrashOnNullSpan \/ CrashOnUnchecked
    BY <1>1, <2>1
  <2>2. CASE ~CrashOnNullSpan /\ ~CrashOnUnchecked
    <3>1. /\ HasFirstSpan /\ UNCHANGED <<ppid, phase, provider, request, late, frames>>
          /\ sampled' = SampledAfter(status)
      BY <1>11, <2>2, Zenon DEF AddSpan, sapiVars
    <3>2. QED
      BY <3>1, CleanError, Zenon
  <2>3. QED
    BY <2>1, <2>2
<1>12. ASSUME NEW ratio \in {"zero", "one", "other"}, NEW fromCaller \in BOOLEAN,
              SetSampleRatio(ratio, fromCaller)
       PROVE  CleanInv'
  <2>1. CASE RatioSet(ratio, fromCaller)
    <3>1. /\ UNCHANGED <<ppid, phase, provider, request, frames>>
          /\ late' = (late \/ ~request[ppid])
      BY <2>1, Zenon DEF RatioSet, sapiVars
    <3>2. \E b \in BOOLEAN : sampled' = [sampled EXCEPT ![ppid] = b]
      BY <2>1 DEF RatioSet
    <3>3. QED
      BY <3>1, <3>2, CleanWrite
  <2>2. CASE CrashOnUnchecked \/ Dies("div_zero")
    BY <1>a, <1>1, <2>2
  <2>3. TypeOK
    BY DEF TracerInv
  <2>4. QED
    BY <1>12, <2>1, <2>2, <2>3, SetSampleRatioCases
<1>13. CASE GetTraceparent
  <2>1. CASE CrashOnNullSpan
    BY <1>1, <2>1
  <2>2. CASE ~CrashOnNullSpan
    <3>1. UNCHANGED <<ppid, phase, provider, request, sampled, late, frames>>
      BY <1>13, <2>2, Zenon DEF GetTraceparent, sapiVars, slotVars
    <3>2. QED
      BY <3>1, CleanQuiet, Zenon
  <2>3. QED
    BY <2>1, <2>2
<1>14. CASE AddAttribute
  BY <1>1, <1>14, Zenon DEF AddAttribute
<1>15. ASSUME NEW item \in BOOLEAN, AddToResource(item) PROVE CleanInv'
  <2>1. CASE CrashOnUnchecked
    BY <1>1, <2>1
  <2>2. CASE ~CrashOnUnchecked
    <3>1. /\ UNCHANGED <<ppid, phase, provider, request, sampled, frames>>
          /\ late' <=> (late \/ ~request[ppid])
      BY <1>15, <2>2, Zenon DEF AddToResource, sapiVars
    <3>2. QED
      BY <3>1, CleanQuiet, Zenon
  <2>3. QED
    BY <2>1, <2>2
<1>16. CASE Elapse
  <2>1. UNCHANGED <<ppid, phase, provider, request, sampled, late, frames>>
    BY <1>16, Zenon DEF Elapse, sapiVars, slotVars, historyVars
  <2>2. QED
    BY <2>1, CleanQuiet, Zenon
<1>17. CASE Reparent
  BY <1>17, Zenon DEF Reparent
<1>18. CASE UNCHANGED vars
  <2>1. UNCHANGED <<ppid, phase, provider, request, sampled, late, frames>>
    BY <1>18, Zenon DEF vars, sapiVars, slotVars, historyVars
  <2>2. QED
    BY <2>1, CleanQuiet, Zenon
<1>19. QED
  BY <1>2, <1>3, <1>4, <1>5, <1>6, <1>7, <1>8, <1>9, <1>10, <1>11, <1>12, <1>13, <1>14, <1>15,
     <1>16, <1>17, <1>18
  DEF Next

LEMMA CleanInvHolds ==
  ASSUME ~Cli
  PROVE  Spec => []CleanInv
<1>1. TracerInv /\ CleanInv /\ [Next]_vars => CleanInv'
  BY CleanStep
<1>2. QED
  BY <1>1, CleanInit, TracerInvHolds, PTL DEF Spec

(* The first step of a trace in a php-fpm worker decides its sampling from   *)
(* its caller and its ratio alone.                                           *)
LEMMA CleanStart ==
  ASSUME ~Cli, TracerInv, CleanInv, [Next]_vars, traces' # traces, ~late
  PROVE  /\ sampled'[ppid] => span'[firstSpan'[ppid]].parent = "remote" \/ ByRatio(counter')
         /\ ~redisException'[ppid]
<1>1. CASE Inside
  BY <1>1, Zenon DEF Inside, Keeping
<1>2. CASE ShutdownTracer
  BY <1>2, CloseFacts, Zenon
<1>3. CASE Opens
  <2>1. PICK header \in Headers, item \in BOOLEAN : StartTracer(header, item)
    BY <1>3 DEF Opens
  <2>2. ~(sampled[ppid] /\ ~request[ppid])
    BY DEF CleanInv
  <2>3. /\ sampled'[ppid] = Decision(header, counter', FALSE)
        /\ ~redisException'[ppid]
        /\ span'[firstSpan'[ppid]].parent = "remote" <=> header \in {"sampled", "unsampled"}
    BY <2>1, <2>2, OpenFacts
  <2>4. Decision(header, counter', FALSE) => header = "sampled" \/ ByRatio(counter')
    BY HeadersAssumption DEF Decision, ByRatio
  <2>5. QED
    BY <2>3, <2>4
<1>4. QED
  BY <1>1, <1>2, <1>3, StepKinds

(* In a php-fpm worker a trace starts from its own decision, sampled only by *)
(* its caller or its ratio, and without a pending exception, if nothing was  *)
(* written between the requests (provider.cc clean, parseTraceParent).       *)
THEOREM TracesStartClean ==
  ASSUME ~Cli
  PROVE  Spec => TraceStartsClean
<1>1. TracerInv /\ CleanInv /\ [Next]_vars
        => [traces' # traces /\ ~late =>
              /\ sampled'[ppid] => span'[firstSpan'[ppid]].parent = "remote" \/ ByRatio(counter')
              /\ ~redisException'[ppid]]_vars
  BY CleanStart
<1>2. QED
  BY <1>1, TracerInvHolds, CleanInvHolds, PTL DEF Spec, TraceStartsClean

-----------------------------------------------------------------------------
(* Before PHP 8, a RedisException pending in a command is noted with the     *)
(* trace of the command, and only the innermost call can have one.           *)
ThrewInv ==
    /\ \A i \in DOMAIN frames :
          /\ frames[i].threw # "no" => i = Len(frames)
          /\ frames[i].threw = "redis" => Handler[frames[i].kind].fails = "exception"
    /\ frames # <<>> /\ Top.threw = "redis" /\ ~Stale(Top) /\ ~moved => redisException[ppid]

(* A step that touches neither the calls nor what is noted. *)
LEMMA ThrewQuiet ==
  ASSUME ThrewInv, SameTrace, UNCHANGED <<frames, redisException>>
  PROVE  ThrewInv'
<1>1. ~moved' => ~moved /\ ppid' = ppid
  BY Zenon DEF SameTrace
<1>2. Top' = Top
  BY Zenon DEF Top
<1>3. frames # <<>> => (Stale(Top)' <=> Stale(Top))
  BY Zenon DEF Stale, Open, SameTrace, Top
<1>4. QED
  BY <1>1, <1>2, <1>3, Zenon DEF ThrewInv

(* A step that leaves the calls alone while no exception is pending.         *)
LEMMA ThrewFree ==
  ASSUME ThrewInv, UserCode, frames' = frames
  PROVE  ThrewInv'
BY Zenon DEF ThrewInv, UserCode, Top

(* A call that begins: no exception is pending. *)
LEMMA ThrewPush ==
  ASSUME TracerInv, ThrewInv, UserCode, NEW kind \in Kinds, NEW s \in Spans \cup {NoSpan},
         Push(kind, s)
  PROVE  ThrewInv'
<1>1. /\ Len(frames) \in Nat /\ DOMAIN frames = 1 .. Len(frames)
      /\ frames # <<>> <=> Len(frames) # 0
  BY FrameFacts DEF TracerInv
<1>2. /\ DOMAIN frames' = 1 .. Len(frames) + 1 /\ Len(frames') = Len(frames) + 1
      /\ \A i \in DOMAIN frames : frames'[i] = frames[i]
      /\ frames'[Len(frames) + 1].threw = "no"
  <2>1. frames \in Seq(Frame)
    BY DEF TracerInv, TypeOK
  <2>2. frames' = Append(frames, [kind |-> kind, span |-> s, gen |-> traces, threw |-> "no"])
    BY DEF Push
  <2> DEFINE e == [kind |-> kind, span |-> s, gen |-> traces, threw |-> "no"]
  <2>3. e \in Frame /\ e.threw = "no"
    BY DEF Frame, TracerInv, TypeOK
  <2> HIDE DEF e
  <2>4. frames' = Append(frames, e)
    BY <2>2 DEF e
  <2>5. QED
    BY <1>1, <2>1, <2>3, <2>4
<1>3. \A i \in DOMAIN frames : frames[i].threw = "no"
  BY <1>1, FrameFacts DEF ThrewInv, UserCode, Top, TracerInv, Frame
<1>4. \A i \in DOMAIN frames' : frames'[i].threw = "no"
  <2> SUFFICES ASSUME NEW i \in DOMAIN frames' PROVE frames'[i].threw = "no"
    OBVIOUS
  <2>1. i \in DOMAIN frames \/ i = Len(frames) + 1
    BY <1>1, <1>2
  <2>2. QED
    BY <1>2, <1>3, <2>1, Zenon
<1>5. Len(frames') \in DOMAIN frames'
  BY <1>1, <1>2
<1>6. QED
  BY <1>4, <1>5, Zenon DEF ThrewInv, Top

(* The innermost call owns its span while its trace is open. *)
LEMMA TopOwnsItsSpan ==
  ASSUME TracerInv, frames # <<>>, ~Stale(Top)
  PROVE  Top.span \in live /\ provider
<1>1. Len(frames) \in DOMAIN frames
  BY FrameFacts DEF TracerInv
<1>2. Top.span \in live
  BY <1>1, Zenon DEF Top, TracerInv, OpenCallOwnsItsSpan
<1>3. provider
  BY DEF Stale, Open, TracerInv, ProviderInv
<1>4. QED
  BY <1>2, <1>3

LEMMA ThrewCallEnd ==
  ASSUME TracerInv, ThrewInv, CallEnd
  PROVE  ThrewInv'
<1>1. frames # <<>> /\ UNCHANGED <<phase, started, traces, openKey, moved, ppid>>
  BY CallEndCases, Zenon DEF CallReturns, Dies, sapiVars, historyVars
<1>2. CASE Pop
  <2>1. \A i \in DOMAIN frames' : frames'[i].threw = "no"
    <3>1. \A i \in DOMAIN frames : frames[i].threw \in {"no", "redis", "other"}
      BY FrameFacts DEF TracerInv, Frame
    <3>2. QED
      BY <1>1, <1>2, <3>1, PoppedCalls, Zenon DEF ThrewInv
  <2>2. frames' # <<>> => Len(frames') \in DOMAIN frames'
    BY <1>1, <1>2, PoppedCalls
  <2>3. QED
    BY <2>1, <2>2 DEF ThrewInv, Top
<1>3. CASE ~Pop /\ CallReturns
  <2>1. PICK status \in EndStatus(Top.kind) :
           /\ fault' \in IF ~provider /\ status = "error" THEN {"dangling"}
                        ELSE IF Top.span \in live THEN {"none"} ELSE {"none", "dangling"}
           /\ fault' # "none" /\ frames' = frames
    BY <1>3, Zenon DEF CallReturns
  <2>2. Stale(Top)
    <3> SUFFICES ASSUME ~Stale(Top) PROVE FALSE
      OBVIOUS
    <3>1. Top.span \in live /\ provider
      BY <1>1, TopOwnsItsSpan
    <3>2. QED
      BY <2>1, <3>1
  <2>3. Top' = Top /\ Stale(Top)'
    BY <1>1, <2>1, <2>2, Zenon DEF Top, Stale, Open
  <2>4. QED
    BY <2>1, <2>3, Zenon DEF ThrewInv
<1>4. CASE Dies("unchecked")
  <2>1. UNCHANGED <<frames, redisException>> /\ SameTrace
    BY <1>1, <1>4, Zenon DEF Dies, slotVars, SameTrace
  <2>2. QED
    BY <2>1, ThrewQuiet
<1>5. QED
  BY <1>2, <1>3, <1>4, CallEndCases

LEMMA ThrewThrow ==
  ASSUME ~Php8, TracerInv, ThrewInv, NEW isRedis \in BOOLEAN, NEW native \in BOOLEAN,
         ThrowException(isRedis, native)
  PROVE  ThrewInv'
<1>1. /\ UserCode
      /\ native => frames # <<>> /\ (isRedis => Handler[Top.kind].fails = "exception")
  BY ThrowExceptionCases
<1>2. CASE frames' = frames
  BY <1>1, <1>2, ThrewFree
<1>3. CASE frames' # frames
  <2>1. Recorded(isRedis, native) /\ native
    <3>1. CrashOnNullSpan => frames' = frames
      BY Zenon DEF CrashOnNullSpan, Dies
    <3>2. CrashOnUnchecked => frames' = frames
      BY Zenon DEF CrashOnUnchecked, Dies
    <3>3. Recorded(isRedis, native)
      BY <1>3, <3>1, <3>2, ThrowExceptionCases, Zenon
    <3>4. native
      BY <1>3, <3>3, Zenon DEF Recorded, Thrown
    <3>5. QED
      BY <3>3, <3>4
  <2>2. /\ frames' = Thrown(isRedis, native) /\ ppid' = ppid
        /\ redisException' = [redisException EXCEPT ![ppid] = @ \/ isRedis]
    BY <2>1, Zenon DEF Recorded, sapiVars
  <2>3. /\ Len(frames') = Len(frames) /\ DOMAIN frames' = DOMAIN frames
        /\ \A i \in DOMAIN frames : /\ frames'[i].kind = frames[i].kind
                                    /\ i # Len(frames) => frames'[i] = frames[i]
        /\ Top'.threw = IF isRedis THEN "redis" ELSE "other"
    BY <1>1, <2>1, <2>2, ThrownCalls DEF TracerInv
  <2>4. isRedis => redisException'[ppid']
    BY <2>2, KeysAreNat DEF TracerInv, TypeOK
  <2>5. Top'.threw = "redis" => isRedis
    BY <2>3
  <2>6. ASSUME NEW i \in DOMAIN frames'
        PROVE  /\ frames'[i].threw # "no" => i = Len(frames')
               /\ frames'[i].threw = "redis" => Handler[frames'[i].kind].fails = "exception"
    <3>1. CASE i = Len(frames)
      BY <1>1, <2>1, <2>3, <2>5, <2>6, <3>1 DEF Top
    <3>2. CASE i # Len(frames)
      BY <2>3, <2>6, <3>2 DEF ThrewInv
    <3>3. QED
      BY <3>1, <3>2
  <2>7. QED
    BY <2>4, <2>5, <2>6, Zenon DEF ThrewInv
<1>4. QED
  BY <1>2, <1>3

LEMMA ThrewStep ==
  ASSUME ~Php8, TracerInv, ThrewInv, [Next]_vars
  PROVE  ThrewInv'
<1>2. ASSUME UNCHANGED <<phase, started, ppid, traces, openKey, moved, frames, redisException>>
      PROVE  ThrewInv'
  BY <1>2, ThrewQuiet, Zenon DEF SameTrace
<1>a. ASSUME NEW cause, Dies(cause) PROVE ThrewInv'
  BY <1>a, <1>2, Zenon DEF Dies, sapiVars, slotVars, historyVars
<1>3. ASSUME CrashOnNullSpan \/ CrashOnUnchecked PROVE ThrewInv'
  BY <1>3, <1>a DEF CrashOnNullSpan, CrashOnUnchecked
<1>4. ASSUME NEW header \in Headers, NEW item \in BOOLEAN,
             RequestInit(header, item) \/ StartCliTracer(header, item)
      PROVE  ThrewInv'
  BY <1>4, <1>a, ThrewFree, Zenon DEF RequestInit, StartCliTracer, StartTracer, UserCode
<1>5. CASE RequestShutdown \/ ShutdownCliTracer
  BY <1>5, ThrewFree, Zenon DEF RequestShutdown, ShutdownCliTracer, ShutdownTracer, UserCode
<1>6. CASE ModuleShutdown
  BY <1>6, ThrewFree, Zenon DEF ModuleShutdown, UserCode
<1>7. ASSUME NEW kind \in Kinds, CallBegin(kind) PROVE ThrewInv'
  <2>1. CASE CrashOnNullSpan \/ CrashOnUnchecked
    BY <1>3, <2>1
  <2>2. CASE ~CrashOnNullSpan /\ ~CrashOnUnchecked
    <3>1. UserCode /\ \E s \in Spans : Push(kind, s)
      BY <1>7, <2>2, Zenon DEF CallBegin
    <3>2. QED
      BY <3>1, ThrewPush
  <2>3. QED
    BY <2>1, <2>2
<1>8. ASSUME NEW kind \in Kinds, CallBeginUntraced(kind) PROVE ThrewInv'
  BY <1>8, ThrewPush DEF CallBeginUntraced
<1>9. CASE Bailout
  <2>1. frames' = <<>>
    BY <1>9, Zenon DEF Bailout
  <2>2. QED
    BY <2>1 DEF ThrewInv
<1>10. ASSUME NEW reported \in BOOLEAN, NEW nocode \in BOOLEAN, ErrorCallback(reported, nocode)
       PROVE  ThrewInv'
  BY <1>2, <1>3, <1>10, Zenon DEF ErrorCallback, sapiVars
<1>11. ASSUME NEW status \in {"ok", "error"}, AddSpan(status) PROVE ThrewInv'
  BY <1>3, <1>11, ThrewFree, Zenon DEF AddSpan
<1>12. ASSUME NEW ratio \in {"zero", "one", "other"}, NEW fromCaller \in BOOLEAN,
              SetSampleRatio(ratio, fromCaller)
       PROVE  ThrewInv'
  <2>1. CASE CrashOnUnchecked \/ Dies("div_zero")
    BY <1>3, <1>a, <2>1
  <2>2. CASE ~CrashOnUnchecked /\ ~Dies("div_zero")
    BY <1>12, <2>2, ThrewFree, Zenon DEF SetSampleRatio
  <2>3. QED
    BY <2>1, <2>2
<1>13. CASE GetTraceparent
  BY <1>3, <1>13, ThrewFree, Zenon DEF GetTraceparent
<1>14. CASE AddAttribute
  BY <1>3, <1>14, Zenon DEF AddAttribute
<1>15. ASSUME NEW item \in BOOLEAN, AddToResource(item) PROVE ThrewInv'
  BY <1>3, <1>15, ThrewFree, Zenon DEF AddToResource
<1>16. CASE Elapse
  BY <1>2, <1>16, Zenon DEF Elapse, sapiVars, slotVars, historyVars
<1>17. CASE Reparent
  <2>1. SameTrace /\ UNCHANGED <<frames, redisException>>
    BY <1>17, Zenon DEF Reparent, SameTrace, slotVars
  <2>2. QED
    BY <2>1, ThrewQuiet
<1>18. CASE UNCHANGED vars
  BY <1>2, <1>18, Zenon DEF vars, sapiVars, slotVars, historyVars
<1>19. QED
  BY <1>4, <1>5, <1>6, <1>7, <1>8, <1>9, <1>10, <1>11, <1>12, <1>13, <1>14, <1>15, <1>16, <1>17,
     <1>18, ThrewCallEnd, ThrewThrow
  DEF Next

LEMMA ThrewInvHolds ==
  ASSUME ~Php8
  PROVE  Spec => []ThrewInv
<1>1. Init => ThrewInv
  BY DEF Init, ThrewInv
<1>2. TracerInv /\ ThrewInv /\ [Next]_vars => ThrewInv'
  BY ThrewStep
<1>3. QED
  BY <1>1, <1>2, TracerInvHolds, PTL DEF Spec

(* Only the end of a call and a bailout make the stack of calls shorter.     *)
LEMMA ShorterStack ==
  ASSUME TracerInv, [Next]_vars, Len(frames') < Len(frames)
  PROVE  CallEnd \/ Bailout
<1>1. Len(frames) \in Nat
  BY FrameFacts DEF TracerInv
<1>2. frames' # frames
  BY <1>1
<1>3. ASSUME NEW kind, NEW s, Push(kind, s) PROVE FALSE
  <2> DEFINE e == [kind |-> kind, span |-> s, gen |-> traces, threw |-> "no"]
  <2>1. frames' = Append(frames, e)
    BY <1>3 DEF Push
  <2> HIDE DEF e
  <2>2. Len(frames') = Len(frames) + 1
    BY <2>1 DEF TracerInv, TypeOK
  <2>3. QED
    BY <1>1, <2>2
<1>4. ASSUME NEW cause, Dies(cause) PROVE FALSE
  BY <1>2, <1>4, Zenon DEF Dies
<1>5. ~CrashOnNullSpan /\ ~CrashOnUnchecked
  BY <1>4, Zenon DEF CrashOnNullSpan, CrashOnUnchecked
<1>6. ASSUME NEW isRedis, NEW native, ThrowException(isRedis, native) PROVE FALSE
  <2>1. frames' = Thrown(isRedis, native) /\ (native => frames # <<>>)
    BY <1>5, <1>6, ThrowExceptionCases, Zenon DEF NotRecorded, Recorded
  <2>2. Len(frames') = Len(frames)
    BY <2>1, ThrownCalls DEF TracerInv
  <2>3. QED
    BY <1>1, <2>2
<1>7. ASSUME NEW header, NEW item, RequestInit(header, item) \/ StartCliTracer(header, item)
      PROVE  FALSE
  BY <1>2, <1>4, <1>7, Zenon DEF RequestInit, StartCliTracer, StartTracer
<1>8. QED
  BY <1>2, <1>3, <1>4, <1>5, <1>6, <1>7, Zenon
  DEF Next, RequestShutdown, ShutdownCliTracer, ShutdownTracer, ModuleShutdown, CallBegin,
      CallBeginUntraced, ErrorCallback, AddSpan, SetSampleRatio, GetTraceparent, AddAttribute,
      AddToResource, Elapse, Reparent, vars

LEMMA RedisStep ==
  ASSUME TracerInv, ThrewInv, [Next]_vars, Len(frames') < Len(frames), ~bailed',
         Top.threw = "redis", ~Stale(Top), ~moved
  PROVE  span'[Top.span].status = "error"
<1>1. CallEnd
  BY ShorterStack, Zenon DEF Bailout
<1>2. frames # <<>>
  BY <1>1, Zenon DEF CallEnd
<1>3. redisException[ppid] /\ Top.span \in live /\ provider
  BY <1>2, TopOwnsItsSpan, Zenon DEF ThrewInv
<1>4. Handler[Top.kind].fails = "exception"
  <2>1. Len(frames) \in DOMAIN frames
    BY <1>2, FrameFacts DEF TracerInv
  <2>2. QED
    BY <2>1, Zenon DEF ThrewInv, Top
<1>5. EndStatus(Top.kind) = {"error"}
  BY <1>3, <1>4, Zenon DEF EndStatus
<1>6. CallReturns
  <2>1. frames' # frames
    BY <1>2, FrameFacts DEF TracerInv
  <2>2. QED
    BY <1>1, <2>1, CallEndCases, Zenon DEF Dies
<1>7. span' = [span EXCEPT ![Top.span] = FinishedAs(Top.kind, @, "error")]
  BY <1>3, <1>5, <1>6 DEF CallReturns
<1>8. QED
  BY <1>3, <1>7, EndedSpan

(* Before PHP 8, a redis command that raised a RedisException ends as an     *)
(* ERROR, whatever else was called, started or shut down around it, as long   *)
(* as the parent stays (zend_hook_redis.cc, zend_hook_exception.cc); nothing  *)
(* is said of a RedisClusterException, which is not noted.                    *)
THEOREM RedisErrorsAttributed ==
  ASSUME ~Php8
  PROVE  Spec => RedisErrorAttributed
<1>1. TracerInv /\ ThrewInv /\ [Next]_vars
        => [Len(frames') < Len(frames) /\ ~bailed' /\ Top.threw = "redis" /\ ~Stale(Top) /\ ~moved
            => span'[Top.span].status = "error"]_vars
  BY RedisStep
<1>2. QED
  BY <1>1, TracerInvHolds, ThrewInvHolds, PTL DEF Spec, RedisErrorAttributed

-----------------------------------------------------------------------------
(* Division with remainder, and how the remainder moves on.                  *)
LEMMA Division ==
  ASSUME NEW R \in Nat \ {0}, NEW c \in Nat
  PROVE  \E q \in Nat : c = R * q + (c % R) /\ c % R \in 0 .. R - 1
<1>1. c = R * (c \div R) + (c % R)
  OBVIOUS
<1>2. c \div R \in Nat
  OBVIOUS
<1>3. c % R \in 0 .. R - 1
  OBVIOUS
<1>4. QED
  BY <1>1, <1>2, <1>3

LEMMA SmallMultiple ==
  ASSUME NEW R \in Nat \ {0}, NEW d \in Int, R * d < R, -R < R * d
  PROVE  d = 0
<1>1. CASE d >= 1
  <2>1. PICK e \in Nat : d = e + 1
    <3>1. d - 1 \in Nat
      BY <1>1
    <3>2. QED
      BY <3>1
  <2>2. R * d = R * e + R
    BY <2>1
  <2>3. R * e >= 0
    OBVIOUS
  <2>4. QED
    BY <2>2, <2>3
<1>2. CASE d <= -1
  <2>1. PICK e \in Nat : d = -1 - e
    <3>1. -1 - d \in Nat
      BY <1>2
    <3>2. QED
      BY <3>1
  <2>2. R * d = -R - R * e
    BY <2>1
  <2>3. R * e >= 0
    OBVIOUS
  <2>4. QED
    BY <2>2, <2>3
<1>3. QED
  BY <1>1, <1>2

LEMMA NextRemainder ==
  ASSUME NEW R \in Nat \ {0}, NEW c \in Nat, (c + 1) % R # 0
  PROVE  (c + 1) % R = (c % R) + 1
<1> DEFINE m == c % R
           n == (c + 1) % R
<1>1. PICK q \in Nat : c = R * q + m /\ m \in 0 .. R - 1
  BY Division
<1>2. PICK p \in Nat : c + 1 = R * p + n /\ n \in 0 .. R - 1
  <2>1. c + 1 \in Nat
    OBVIOUS
  <2>2. QED
    BY <2>1, Division, Zenon
<1>3. n # 0
  OBVIOUS
<1> HIDE DEF m, n
<1>4. R * (p - q) = m + 1 - n
  <2>1. R * (p - q) = R * p - R * q
    BY <1>1, <1>2
  <2>2. R * p \in Int /\ R * q \in Int
    BY <1>1, <1>2
  <2>3. QED
    BY <1>1, <1>2, <2>1, <2>2
<1>5. R * (p - q) < R /\ -R < R * (p - q)
  BY <1>1, <1>2, <1>3, <1>4
<1>6. p - q = 0
  BY <1>5, <1>1, <1>2, SmallMultiple
<1>7. m + 1 - n = 0
  BY <1>6, <1>4
<1>8. QED
  BY <1>7, <1>1, <1>2 DEF m, n

-----------------------------------------------------------------------------
(* How many traces without a caller were passed over in a row, by where the  *)
(* counter stands: past its first multiple of the ratio no more than its     *)
(* remainder, before it those, and the ones before the counter wrapped.       *)
RunBound(c) == IF c < SampleRatio THEN c + SampleRatio - 1 ELSE c % SampleRatio

RatioInv ==
    /\ counter \in 0 .. CounterLimit + 1
    /\ provider \/ counter = 0
    /\ unsampledRun <= RunBound(counter)

LEMMA RatioInit == SampleRatio \in 1 .. CounterLimit /\ Init => RatioInv
BY SampleAssumption DEF Init, RatioInv, RunBound

(* The counter the next trace gets is in its range, and one more unsampled   *)
(* trace fits under the bound unless the ratio picks it.                     *)
LEMMA NextRun ==
  ASSUME SampleRatio \in 1 .. CounterLimit, NEW c \in 0 .. CounterLimit + 1,
         NEW run \in Nat, run <= RunBound(c)
  PROVE  /\ Increased(c) \in 1 .. CounterLimit + 1
         /\ 0 <= RunBound(Increased(c))
         /\ ~ByRatio(Increased(c)) => run + 1 <= RunBound(Increased(c))
<1> DEFINE R == SampleRatio
           n == Increased(c)
<1>1. R \in Nat \ {0} /\ CounterLimit \in Nat /\ R <= CounterLimit
  BY SampleAssumption
<1>2. n \in 1 .. CounterLimit + 1
  BY <1>1 DEF Increased
<1>3. c % R \in 0 .. R - 1 /\ n % R \in 0 .. R - 1
  BY <1>1, <1>2
<1>4. ~ByRatio(n) => n % R # 0
  BY <1>1 DEF ByRatio
<1>5. n # R \/ n % R = 0
  BY <1>1
<1>6. 0 <= RunBound(n)
  BY <1>1, <1>2, <1>3 DEF RunBound
<1>7. ASSUME ~ByRatio(n) PROVE run + 1 <= RunBound(n)
  <2>1. CASE c > CounterLimit
    <3>1. n = 1 /\ c >= R
      BY <2>1, <1>1 DEF Increased
    <3>2. run <= R - 1
      BY <3>1, <1>1, <1>3 DEF RunBound
    <3>3. n # R
      BY <1>4, <1>5, <1>7
    <3>4. QED
      BY <3>1, <3>2, <3>3, <1>1 DEF RunBound
  <2>2. CASE c <= CounterLimit /\ c < R
    <3>1. n = c + 1 /\ run <= c + R - 1
      BY <2>2, <1>1 DEF Increased, RunBound
    <3>2. n # R
      BY <1>4, <1>5, <1>7
    <3>3. QED
      BY <3>1, <3>2, <2>2, <1>1 DEF RunBound
  <2>3. CASE c <= CounterLimit /\ c >= R
    <3>1. n = c + 1 /\ run <= c % R
      BY <2>3, <1>1 DEF Increased, RunBound
    <3>2. n % R = (c % R) + 1
      <4>1. (c + 1) % R # 0 /\ c \in Nat
        BY <3>1, <1>1, <1>4, <1>7
      <4>2. (c + 1) % R = (c % R) + 1
        BY <4>1, <1>1, NextRemainder, Zenon
      <4>3. QED
        BY <3>1, <4>2
    <3>3. QED
      BY <3>1, <3>2, <2>3, <1>1, <1>3 DEF RunBound
  <2>4. QED
    BY <2>1, <2>2, <2>3, <1>1
<1>8. QED
  BY <1>2, <1>6, <1>7

LEMMA RatioStart ==
  ASSUME SampleRatio \in 1 .. CounterLimit, TypeOK, RatioInv,
         NEW header \in Headers, NEW item \in BOOLEAN, StartTracer(header, item)
  PROVE  RatioInv'
<1>1. (IF provider THEN counter ELSE 0) = counter
  BY DEF RatioInv
<1>2. /\ counter' = Increased(counter) /\ provider'
      /\ \/ unsampledRun' = 0
         \/ ~ByRatio(Increased(counter)) /\ unsampledRun' = unsampledRun + 1
  BY <1>1, Zenon DEF StartTracer
<1>3. /\ counter' \in 1 .. CounterLimit + 1
      /\ 0 <= RunBound(counter')
      /\ ~ByRatio(counter') => unsampledRun + 1 <= RunBound(counter')
  BY <1>2, NextRun DEF RatioInv, TypeOK
<1>4. unsampledRun' <= RunBound(counter')
  BY <1>2, <1>3
<1>5. QED
  BY <1>2, <1>3, <1>4, SampleAssumption DEF RatioInv, RunBound

LEMMA RatioKept ==
  ASSUME RatioInv, UNCHANGED <<counter, unsampledRun>>, provider' = provider \/ provider'
  PROVE  RatioInv'
BY DEF RatioInv, RunBound

LEMMA RatioStep ==
  ASSUME ~Cli, SampleRatio \in 1 .. CounterLimit, TypeOK, RatioInv, [Next]_vars
  PROVE  RatioInv'
<1>0. ASSUME NEW cause, Dies(cause) PROVE RatioInv'
  BY <1>0, RatioKept, Zenon DEF Dies, sapiVars, historyVars
<1>1. ASSUME CrashOnNullSpan \/ CrashOnUnchecked PROVE RatioInv'
  BY <1>0, <1>1, Zenon DEF CrashOnNullSpan, CrashOnUnchecked
<1>2. ASSUME NEW header \in Headers, NEW item \in BOOLEAN,
             RequestInit(header, item) \/ StartCliTracer(header, item)
      PROVE  RatioInv'
  BY <1>0, <1>2, RatioStart, Zenon DEF RequestInit, StartCliTracer
<1>3. CASE RequestShutdown \/ ShutdownCliTracer
  <2>1. ShutdownTracer
    BY <1>3, Zenon DEF RequestShutdown, ShutdownCliTracer
  <2>2. CASE firstSpan[ppid] = NoSpan
    BY <2>1, <2>2, RatioKept, Zenon DEF ShutdownTracer, historyVars
  <2>3. CASE firstSpan[ppid] # NoSpan
    BY <2>1, <2>3, RatioKept, Zenon DEF ShutdownTracer, historyVars
  <2>4. QED
    BY <2>2, <2>3
<1>4. ASSUME NEW reported, NEW nocode, ErrorCallback(reported, nocode) PROVE RatioInv'
  BY <1>1, <1>4, RatioKept, Zenon DEF ErrorCallback, sapiVars
<1>5. ASSUME NEW status, AddSpan(status) PROVE RatioInv'
  BY <1>1, <1>5, RatioKept, Zenon DEF AddSpan, sapiVars
<1>6. ASSUME \/ ModuleShutdown
             \/ \E kind \in Kinds : CallBegin(kind) \/ CallBeginUntraced(kind)
             \/ Bailout
      PROVE  RatioInv'
  BY <1>1, <1>6, RatioKept, Zenon
  DEF ModuleShutdown, CallBegin, CallBeginUntraced, Bailout, sapiVars, historyVars
<1>7. CASE CallEnd
  BY <1>0, <1>7, CallEndCases, RatioKept, Zenon DEF CallReturns, sapiVars
<1>8. ASSUME NEW isRedis, NEW native, ThrowException(isRedis, native) PROVE RatioInv'
  BY <1>1, <1>8, ThrowExceptionCases, RatioKept, Zenon DEF NotRecorded, Recorded, sapiVars
<1>9. ASSUME NEW ratio \in {"zero", "one", "other"}, NEW fromCaller \in BOOLEAN,
             SetSampleRatio(ratio, fromCaller)
      PROVE  RatioInv'
  BY <1>0, <1>1, <1>9, SetSampleRatioCases, RatioKept, Zenon DEF RatioSet, sapiVars
<1>10. ASSUME GetTraceparent \/ AddAttribute PROVE RatioInv'
  BY <1>1, <1>10, RatioKept, Zenon DEF GetTraceparent, AddAttribute, sapiVars
<1>11. ASSUME NEW item, AddToResource(item) PROVE RatioInv'
  BY <1>1, <1>11, RatioKept, Zenon DEF AddToResource, sapiVars
<1>12. ASSUME Elapse \/ Reparent \/ UNCHANGED vars PROVE RatioInv'
  BY <1>12, RatioKept, Zenon DEF Elapse, Reparent, sapiVars, historyVars, vars
<1>13. QED
  BY <1>2, <1>3, <1>4, <1>5, <1>6, <1>7, <1>8, <1>9, <1>10, <1>11, <1>12, Zenon DEF Next

(* In a php-fpm worker the ratio is honoured whatever the traces and their   *)
(* callers: of the traces without one, 2 * (ratio - 1) in a row at most go    *)
(* unsampled, with the wrap of Provider::increase (provider.cc) between them. *)
THEOREM RatioIsHonoured ==
  ASSUME ~Cli
  PROVE  Spec => []RatioHonoured
<1>1. CASE SampleRatio \in 1 .. CounterLimit
  <2>1. TypeOK /\ RatioInv /\ [Next]_vars => RatioInv'
    BY <1>1, RatioStep
  <2>2. Init => RatioInv
    BY <1>1, RatioInit
  <2>3. TypeOK /\ RatioInv => RatioHonoured
    BY <1>1, SampleAssumption DEF TypeOK, RatioInv, RunBound, RatioHonoured
  <2>4. QED
    BY <2>1, <2>2, <2>3, TypeCorrect, PTL DEF Spec
<1>2. CASE SampleRatio \notin 1 .. CounterLimit
  <2>1. RatioHonoured
    BY <1>2 DEF RatioHonoured
  <2>2. QED
    BY <2>1, PTL
<1>3. QED
  BY <1>1, <1>2
=============================================================================
