------------------------- MODULE TracerExportProofs -------------------------
(***************************************************************************)
(* What a trace promises while it is open and what of it is exported: the   *)
(* action properties of Tracer, and the invariants about what was           *)
(* serialised.  Every step that neither opens nor closes a trace keeps the  *)
(* marks of the spans it finds (Keeping).                                   *)
(***************************************************************************)
EXTENDS TracerProofs

(* The marks of a span, which no step inside a trace takes away. *)
KeepsMarks(s) ==
    /\ span'[s].key = span[s].key
    /\ span[s].status = "error" => span'[s].status = "error"
    /\ span[s].old => span'[s].old
    /\ span[s].ended => span'[s].ended

Keeping ==
    /\ UNCHANGED <<provider, request, firstSpan, traces, openKey, wire>>
    /\ live \subseteq live'
    /\ \A s \in live : KeepsMarks(s)

(* Where the noted exceptions come from. *)
ExceptionsShown ==
    \A k \in Keys : redisException'[k] =>
        \/ redisException[k]
        \/ request[k] /\ \E s \in live' : span'[s].key = k /\ span'[s].status = "error"

(* How the sampling of the last trace, and what was said about it, changes.  *)
SamplingMoves ==
    /\ sampled[openKey] => sampled'[openKey] \/ optOut'
    /\ optOut /\ ~optOut' => sampled'[openKey] \/ ~request[openKey]
    /\ promised' /\ request[openKey] => promised \/ IsSampled(openKey)

(* What becomes of the calls in progress and of the spans they hold. *)
CallsHold ==
    /\ bailed => bailed'
    /\ \A s \in live' \ live :
          span'[s].ended \/ \E i \in DOMAIN frames' : frames'[i].span = s /\ frames'[i].gen = traces
    /\ \/ bailed' \/ ~provider
       \/ \A i \in DOMAIN frames :
             \/ \E j \in DOMAIN frames' : /\ frames'[j].span = frames[i].span
                                          /\ frames'[j].gen = frames[i].gen
             \/ frames[i].span \notin live
             \/ span'[frames[i].span].ended

Inside == Keeping /\ ExceptionsShown /\ SamplingMoves /\ CallsHold

-----------------------------------------------------------------------------
(* The steps inside a trace, one by one. *)

(* A step that leaves the heap, the sampling and the calls alone. *)
LEMMA QuietInside ==
  ASSUME UNCHANGED <<provider, request, firstSpan, sampled, redisException, live, span, frames,
                     wire, traces, openKey, promised, optOut, bailed>>
  PROVE  Inside
BY Zenon DEF Inside, Keeping, KeepsMarks, ExceptionsShown, SamplingMoves, CallsHold

LEMMA DiesInside ==
  ASSUME NEW cause, Dies(cause)
  PROVE  Inside
BY QuietInside, Zenon DEF Dies, sapiVars, slotVars, heapVars, exportVars, historyVars

LEMMA CrashInside ==
  ASSUME CrashOnNullSpan \/ CrashOnUnchecked
  PROVE  Inside
BY DiesInside, Zenon DEF CrashOnNullSpan, CrashOnUnchecked

(* A step that adds a child of the first span which has ended.               *)
LEMMA EndedChildInside ==
  ASSUME TracerInv, HasFirstSpan, NEW s \in Spans \ live, NEW r \in SpanRecord, AddChild(s, r),
         r.ended, NEW status \in {"ok", "error"},
         sampled' = SampledAfter(status), optOut' = OptOutAfter(status),
         ExceptionsShown,
         UNCHANGED <<provider, request, firstSpan, wire, traces, openKey, promised, bailed>>,
         SameCalls
  PROVE  Inside
<1>1. live \subseteq Spans /\ span \in [Spans -> SpanRecord]
  BY DEF TracerInv, TypeOK
<1>2. live' = live \cup {s} /\ span'[s] = r /\ \A x \in live : span'[x] = span[x]
  BY <1>1 DEF AddChild
<1>3. Keeping
  BY <1>2, Zenon DEF Keeping, KeepsMarks
<1>4. SamplingMoves
  BY SampledAfterType, KeysAreNat DEF SamplingMoves, OptOutAfter, TracerInv, TypeOK
<1>5. CallsHold
  BY <1>2, Zenon DEF CallsHold, SameCalls
<1>6. QED
  BY <1>3, <1>4, <1>5 DEF Inside

(* Ending a span does not make it younger. *)
LEMMA EndedOld ==
  ASSUME NEW kind, NEW r \in SpanRecord, NEW status \in {"ok", "error"}
  PROVE  /\ OkEnd(r).old = r.old /\ ErrorEnd(r).old = r.old
         /\ EndedAs(r, status).old = r.old
         /\ FinishedAs(kind, r, status).old = r.old
<1>1. \A e \in SpanRecord : OkEnd(e).old = e.old /\ ErrorEnd(e).old = e.old
  BY DEF OkEnd, ErrorEnd, SpanRecord
<1>2. EndedAs(r, status).old = r.old /\ EndedAs(r, status) \in SpanRecord
  BY <1>1, EndedAsType DEF EndedAs
<1>3. QED
  BY <1>1, <1>2 DEF FinishedAs

LEMMA AddSpanInside ==
  ASSUME TracerInv, NEW status \in {"ok", "error"}, AddSpan(status)
  PROVE  Inside
<1>1. CASE CrashOnNullSpan \/ CrashOnUnchecked
  BY <1>1, CrashInside
<1>2. CASE ~CrashOnNullSpan /\ ~CrashOnUnchecked
  <2>1. /\ HasFirstSpan
        /\ sampled' = SampledAfter(status) /\ optOut' = OptOutAfter(status)
        /\ UNCHANGED <<provider, request, firstSpan, redisException, frames, wire, traces,
                       openKey, promised, bailed>>
    BY <1>2, Zenon DEF AddSpan, sapiVars, exportVars
  <2>2. PICK s \in Spans \ live : AddChild(s, EndedAs(Child, status))
    BY <1>2, Zenon DEF AddSpan
  <2>3. EndedAs(Child, status) \in SpanRecord /\ EndedAs(Child, status).ended
    BY <2>1, ChildType, EndedAsType DEF TracerInv
  <2>4. ExceptionsShown /\ SameCalls
    BY <2>1, Zenon DEF ExceptionsShown, SameCalls
  <2>5. QED
    BY <2>1, <2>2, <2>3, <2>4, EndedChildInside
<1>3. QED
  BY <1>1, <1>2

LEMMA ThrowExceptionInside ==
  ASSUME TracerInv, NEW isRedis \in BOOLEAN, NEW native \in BOOLEAN,
         ThrowException(isRedis, native)
  PROVE  Inside
<1>1. ASSUME frames' = Thrown(isRedis, native) PROVE SameCalls
  <2>1. native => frames # <<>>
    BY ThrowExceptionCases
  <2>2. QED
    BY <1>1, <2>1, ThrownCalls DEF SameCalls, TracerInv
<1>2. CASE CrashOnNullSpan \/ CrashOnUnchecked
  BY <1>2, CrashInside
<1>3. CASE NotRecorded(isRedis, native)
  <2>1. /\ UNCHANGED <<provider, wire, traces, openKey, promised, bailed>>
        /\ UNCHANGED <<slotVars, heapVars, optOut>>
        /\ frames' = Thrown(isRedis, native)
    BY <1>3, Zenon DEF NotRecorded, sapiVars, exportVars
  <2>2. Keeping /\ ExceptionsShown /\ SamplingMoves
    BY <2>1, Zenon DEF Keeping, KeepsMarks, ExceptionsShown, SamplingMoves, slotVars, heapVars
  <2>3. SameCalls
    BY <1>1, <2>1
  <2>4. CallsHold
    BY <2>1, <2>3, Zenon DEF CallsHold, SameCalls, heapVars
  <2>5. QED
    BY <2>2, <2>4 DEF Inside
<1>4. CASE Recorded(isRedis, native)
  <2>1. /\ HasFirstSpan
        /\ sampled' = SampledAfter("error") /\ optOut' = OptOutAfter("error")
        /\ redisException' = [redisException EXCEPT ![ppid] = @ \/ isRedis]
        /\ UNCHANGED <<provider, request, firstSpan, wire, traces, openKey, promised, bailed>>
        /\ frames' = Thrown(isRedis, native)
    BY <1>4, Zenon DEF Recorded, sapiVars, exportVars
  <2>2. PICK s \in Spans \ live : AddChild(s, ErrorEnd(Child))
    BY <1>4, Zenon DEF Recorded
  <2>3. /\ ErrorEnd(Child) \in SpanRecord /\ ErrorEnd(Child).ended
        /\ ErrorEnd(Child).status = "error" /\ ErrorEnd(Child).key = ppid
    BY <2>1, ChildType, ErrorEndType DEF TracerInv
  <2>4. live' = live \cup {s} /\ span'[s] = ErrorEnd(Child)
    BY <2>2 DEF AddChild, TracerInv, TypeOK
  <2>5. \A k \in Keys : k # ppid => redisException'[k] = redisException[k]
    BY <2>1 DEF TracerInv, TypeOK
  <2>6. request[ppid]
    BY <2>1, FirstIsOpen
  <2>7. ExceptionsShown
    BY <2>3, <2>4, <2>5, <2>6, Zenon DEF ExceptionsShown
  <2>8. SameCalls
    BY <1>1, <2>1
  <2>9. QED
    BY <2>1, <2>2, <2>3, <2>7, <2>8, EndedChildInside
<1>5. QED
  BY <1>2, <1>3, <1>4, ThrowExceptionCases

LEMMA ErrorCallbackInside ==
  ASSUME TracerInv, NEW reported \in BOOLEAN, NEW nocode \in BOOLEAN,
         ErrorCallback(reported, nocode)
  PROVE  Inside
<1> DEFINE status == IF reported THEN "error" ELSE "ok"
           first == firstSpan[ppid]
           r == EndedAs(Child, status)
<1>1. CASE CrashOnNullSpan
  BY <1>1, CrashInside
<1>2. CASE ~CrashOnNullSpan
  <2>1. /\ HasFirstSpan
        /\ sampled' = SampledAfter(status) /\ optOut' = OptOutAfter(status)
        /\ UNCHANGED <<provider, request, firstSpan, redisException, frames, wire, traces,
                       openKey, promised, bailed>>
    BY <1>2, Zenon DEF ErrorCallback, sapiVars, exportVars
  <2>2. PICK s \in Spans \ live :
           /\ live' = live \cup {s}
           /\ span' = [x \in Spans |->
                         IF x = s THEN r
                         ELSE IF x = first /\ reported /\ nocode THEN ErrorEnd(span[x])
                         ELSE span[x]]
    BY <1>2, Zenon DEF ErrorCallback
  <2>3. r.ended
    BY <2>1, ChildType, EndedAsType DEF TracerInv
  <2> HIDE DEF r
  <2>4. live \subseteq Spans /\ span \in [Spans -> SpanRecord]
    BY DEF TracerInv, TypeOK
  <2>5. span'[s] = r /\ \A x \in live : KeepsMarks(x)
    BY <2>2, <2>4, ErrorEndType, EndedOld DEF KeepsMarks
  <2>6. Keeping /\ ExceptionsShown
    BY <2>1, <2>2, <2>5, Zenon DEF Keeping, ExceptionsShown
  <2>7. CallsHold
    BY <2>1, <2>2, <2>3, <2>5, Zenon DEF CallsHold
  <2>8. SamplingMoves
    BY <2>1, SampledAfterType, KeysAreNat DEF SamplingMoves, OptOutAfter, TracerInv, TypeOK
  <2>9. QED
    BY <2>6, <2>7, <2>8 DEF Inside
<1>3. QED
  BY <1>1, <1>2

LEMMA SetSampleRatioInside ==
  ASSUME TracerInv, NEW ratio \in {"zero", "one", "other"}, NEW fromCaller \in BOOLEAN,
         SetSampleRatio(ratio, fromCaller)
  PROVE  Inside
<1>1. CASE RatioSet(ratio, fromCaller)
  <2>1. UNCHANGED <<provider, request, firstSpan, redisException, live, span, frames, wire,
                    traces, openKey, promised, bailed>>
    BY <1>1, Zenon DEF RatioSet, sapiVars, heapVars, exportVars
  <2>2. Keeping /\ ExceptionsShown /\ CallsHold
    BY <2>1, Zenon DEF Keeping, KeepsMarks, ExceptionsShown, CallsHold
  <2>3. PICK decision \in BOOLEAN :
           /\ sampled' = [sampled EXCEPT ![ppid] = decision]
           /\ ratio = "one" => decision
           /\ ratio = "other" /\ sampled[ppid] => decision
           /\ optOut' = IF ppid # openKey THEN optOut
                        ELSE (ratio = "zero" \/ (optOut /\ ~decision))
    BY <1>1 DEF RatioSet
  <2>4. sampled \in [Keys -> BOOLEAN] /\ ppid \in Keys /\ openKey \in Keys
    BY KeysAreNat DEF TracerInv, TypeOK
  <2>5. SamplingMoves
    <3>1. CASE ppid # openKey
      BY <2>1, <2>3, <2>4, <3>1 DEF SamplingMoves
    <3>2. CASE ppid = openKey
      BY <2>1, <2>3, <2>4, <3>2 DEF SamplingMoves
    <3>3. QED
      BY <3>1, <3>2
  <2>6. QED
    BY <2>2, <2>5 DEF Inside
<1>2. CASE CrashOnUnchecked \/ Dies("div_zero")
  BY <1>2, CrashInside, DiesInside
<1>3. TypeOK
  BY DEF TracerInv
<1>4. QED
  BY <1>1, <1>2, <1>3, SetSampleRatioCases

LEMMA ElapseInside ==
  ASSUME TracerInv, Elapse
  PROVE  Inside
<1> DEFINE first == firstSpan[ppid]
           aged == [span[first] EXCEPT !.old = TRUE]
<1>1. UNCHANGED <<provider, request, firstSpan, sampled, redisException, live, frames, wire,
                  traces, openKey, promised, optOut, bailed>> /\ HasFirstSpan
  BY Zenon DEF Elapse, sapiVars, slotVars, exportVars, historyVars
<1>2. /\ span' = [span EXCEPT ![first] = aged]
      /\ aged.key = span[first].key /\ aged.status = span[first].status
      /\ aged.ended = span[first].ended
  BY <1>1, AgedType DEF Elapse, TracerInv
<1>3. aged.old
  BY <1>1, FirstIsOpen DEF TracerInv, TypeOK, SpanRecord
<1> HIDE DEF aged
<1>4. \A s \in live : KeepsMarks(s)
  BY <1>2, <1>3 DEF KeepsMarks, TracerInv, TypeOK
<1>5. Keeping /\ ExceptionsShown /\ SamplingMoves
  BY <1>1, <1>4, Zenon DEF Keeping, ExceptionsShown, SamplingMoves
<1>6. CallsHold
  BY <1>1, Zenon DEF CallsHold
<1>7. QED
  BY <1>5, <1>6 DEF Inside

LEMMA CallBeginInside ==
  ASSUME TracerInv, NEW kind \in Kinds, CallBegin(kind)
  PROVE  Inside
<1>1. CASE CrashOnNullSpan \/ CrashOnUnchecked
  BY <1>1, CrashInside
<1>2. CASE ~CrashOnNullSpan /\ ~CrashOnUnchecked
  <2>1. /\ HasFirstSpan
        /\ promised' = (promised \/ (Handler[kind].sends /\ Promises))
        /\ UNCHANGED <<phase, started, provider, request, firstSpan, sampled, redisException, wire,
                       traces, openKey, optOut, bailed>>
    BY <1>2, Zenon DEF CallBegin, sapiVars, slotVars, exportVars
  <2>2. PICK s \in Spans \ live : AddChild(s, Child) /\ Push(kind, s)
    BY <1>2, Zenon DEF CallBegin
  <2>3. live' = live \cup {s} /\ \A x \in live : span'[x] = span[x]
    BY <2>2 DEF AddChild, TracerInv, TypeOK
  <2>4. Keeping /\ ExceptionsShown
    BY <2>1, <2>3, Zenon DEF Keeping, KeepsMarks, ExceptionsShown
  <2>5. SamplingMoves
    BY <2>1, Zenon DEF SamplingMoves, Promises
  <2>6. CallsHold
    <3>1. /\ DOMAIN frames' = 1 .. Len(frames) + 1
          /\ \A i \in DOMAIN frames : frames'[i] = frames[i]
          /\ frames'[Len(frames) + 1].span = s /\ frames'[Len(frames) + 1].gen = traces
      BY <2>1, <2>2, PushFacts DEF Open
    <3>2. DOMAIN frames \subseteq DOMAIN frames' /\ Len(frames) + 1 \in DOMAIN frames'
      BY <3>1, FrameFacts DEF TracerInv
    <3>3. QED
      BY <2>1, <2>3, <3>1, <3>2, Zenon DEF CallsHold
  <2>7. QED
    BY <2>4, <2>5, <2>6 DEF Inside
<1>3. QED
  BY <1>1, <1>2

LEMMA CallBeginUntracedInside ==
  ASSUME TracerInv, NEW kind \in Kinds, CallBeginUntraced(kind)
  PROVE  Inside
<1>1. /\ UNCHANGED <<provider, request, firstSpan, sampled, redisException, live, span, wire,
                     traces, openKey, promised, optOut, bailed>>
      /\ ~provider
  BY Zenon DEF CallBeginUntraced, sapiVars, slotVars, heapVars, exportVars, historyVars
<1>2. Keeping /\ ExceptionsShown /\ SamplingMoves /\ CallsHold
  BY <1>1, Zenon DEF Keeping, KeepsMarks, ExceptionsShown, SamplingMoves, CallsHold
<1>3. QED
  BY <1>2 DEF Inside

(* The innermost call is the only one that ends. *)
LEMMA PoppedCalls ==
  ASSUME TracerInv, frames # <<>>, Pop
  PROVE  /\ DOMAIN frames = 1 .. Len(frames) /\ DOMAIN frames' = 1 .. Len(frames) - 1
         /\ Len(frames) \in Nat \ {0} /\ Len(frames') = Len(frames) - 1
         /\ \A i \in DOMAIN frames : i = Len(frames) \/ (i \in DOMAIN frames' /\ frames'[i] = frames[i])
         /\ \A i \in DOMAIN frames' : i \in DOMAIN frames /\ i # Len(frames) /\ frames'[i] = frames[i]
         /\ Top = frames[Len(frames)]
<1>1. frames' = SubSeq(frames, 1, Len(frames) - 1)
  BY DEF Pop
<1>2. /\ frames' \in Seq(Frame) /\ Len(frames') = Len(frames) - 1
      /\ \A i \in 1 .. Len(frames) - 1 : frames'[i] = frames[i]
      /\ Len(frames) \in Nat \ {0} /\ DOMAIN frames = 1 .. Len(frames)
  BY <1>1, PopType DEF TracerInv
<1>3. DOMAIN frames' = 1 .. Len(frames) - 1
  BY <1>2, LenProperties
<1>4. QED
  BY <1>2, <1>3 DEF Top

(* The span a call ends. *)
LEMMA EndedSpan ==
  ASSUME TracerInv, NEW kind, NEW s, NEW status \in {"ok", "error"},
         span' = IF s \in live THEN [span EXCEPT ![s] = FinishedAs(kind, @, status)] ELSE span
  PROVE  /\ \A x \in live : KeepsMarks(x)
         /\ s \in live => span'[s].ended /\ (status = "error" => span'[s].status = "error")
<1>1. live \subseteq Spans /\ span \in [Spans -> SpanRecord]
  BY DEF TracerInv, TypeOK
<1>2. CASE s \notin live
  BY <1>2 DEF KeepsMarks
<1>3. CASE s \in live
  <2> DEFINE r == FinishedAs(kind, span[s], status)
  <2>1. span' = [span EXCEPT ![s] = r] /\ s \in Spans /\ span[s] \in SpanRecord
    BY <1>1, <1>3
  <2>2. /\ r.key = span[s].key /\ r.ended /\ r.old = span[s].old
        /\ span[s].status = "error" \/ status = "error" => r.status = "error"
    BY <2>1, FinishedAsType, EndedOld
  <2> HIDE DEF r
  <2>3. span'[s] = r /\ \A x \in Spans : x # s => span'[x] = span[x]
    BY <1>1, <2>1
  <2>4. QED
    BY <1>1, <2>2, <2>3 DEF KeepsMarks
<1>4. QED
  BY <1>2, <1>3

LEMMA CallReturnsInside ==
  ASSUME TracerInv, frames # <<>>, CallReturns
  PROVE  Inside
<1>1. frames # <<>> /\ UNCHANGED <<provider, live, wire, traces, openKey, promised, bailed>>
  BY Zenon DEF CallReturns, sapiVars, exportVars
<1>2. CASE ~provider /\ Pop /\ UNCHANGED <<fault, slotVars, span, optOut>>
  <2>1. UNCHANGED <<request, firstSpan, sampled, redisException, span, optOut>>
    BY <1>2, Zenon DEF slotVars
  <2>2. QED
    <3>1. Keeping /\ ExceptionsShown /\ SamplingMoves
      BY <1>1, <2>1, Zenon DEF Keeping, KeepsMarks, ExceptionsShown, SamplingMoves
    <3>2. CallsHold
      BY <1>1, <1>2, Zenon DEF CallsHold
    <3>3. QED
      BY <3>1, <3>2 DEF Inside
<1>3. CASE ~(~provider /\ Pop /\ UNCHANGED <<fault, slotVars, span, optOut>>)
  <2>1. PICK status \in EndStatus(Top.kind) :
          /\ span' = IF Top.span \in live
                       THEN [span EXCEPT ![Top.span] = FinishedAs(Top.kind, @, status)]
                       ELSE span
          /\ sampled' = IF provider THEN SampledAfter(status) ELSE sampled
          /\ redisException' = ClearedException(Top.kind)
          /\ optOut' = OptOutAfter(status)
          /\ Pop \/ frames' = frames
          /\ UNCHANGED <<request, firstSpan>>
    BY <1>3, Zenon DEF CallReturns
  <2>2. status \in {"ok", "error"}
    BY <1>1, <2>1, PopType, EndStatusType DEF Frame, TracerInv
  <2>3. /\ \A x \in live : KeepsMarks(x)
        /\ Top.span \in live => span'[Top.span].ended
    BY <2>1, <2>2, EndedSpan
  <2>4. Keeping
    BY <1>1, <2>1, <2>3, Zenon DEF Keeping
  <2>5. ExceptionsShown
    BY <2>1 DEF ExceptionsShown, ClearedException, TracerInv, TypeOK
  <2>6. SamplingMoves
    <3>1. CASE provider
      BY <1>1, <2>1, <3>1, SampledAfterType, KeysAreNat
      DEF SamplingMoves, OptOutAfter, TracerInv, TypeOK
    <3>2. CASE ~provider
      BY <1>1, <2>1, <3>2, NoProviderNoTrace, KeysAreNat
      DEF SamplingMoves, OptOutAfter, TracerInv, TypeOK
    <3>3. QED
      BY <3>1, <3>2
  <2>7. CallsHold
    <3>1. CASE frames' = frames
      BY <1>1, <3>1, Zenon DEF CallsHold
    <3>2. CASE Pop
      BY <1>1, <2>3, <3>2, PoppedCalls, Zenon DEF CallsHold
    <3>3. QED
      BY <2>1, <3>1, <3>2
  <2>8. QED
    BY <2>4, <2>5, <2>6, <2>7 DEF Inside
<1>4. QED
  BY <1>2, <1>3

LEMMA CallEndInside ==
  ASSUME TracerInv, CallEnd
  PROVE  Inside
BY CallEndCases, CallReturnsInside, DiesInside

-----------------------------------------------------------------------------
(* The steps that open and close a trace. *)

Opens == \E header \in Headers, item \in BOOLEAN : StartTracer(header, item)

(* What the engine or the script guarantees around them. *)
BetweenCalls == IF Cli THEN UserCode ELSE frames = <<>>

LEMMA StepKinds ==
  ASSUME TracerInv, [Next]_vars
  PROVE  \/ Inside
         \/ Opens /\ BetweenCalls
         \/ ShutdownTracer /\ BetweenCalls
<1>1. ASSUME NEW header \in Headers, NEW item \in BOOLEAN,
             RequestInit(header, item) \/ StartCliTracer(header, item)
      PROVE  Inside \/ (Opens /\ BetweenCalls)
  <2>1. CASE Dies("server")
    BY <2>1, DiesInside
  <2>2. CASE ~Dies("server")
    BY <1>1, <2>2, Zenon DEF RequestInit, StartCliTracer, Opens, BetweenCalls
  <2>3. QED
    BY <2>1, <2>2
<1>2. CASE RequestShutdown \/ ShutdownCliTracer
  BY <1>2, Zenon DEF RequestShutdown, ShutdownCliTracer, BetweenCalls
<1>3. CASE ModuleShutdown
  BY <1>3, QuietInside, Zenon
  DEF ModuleShutdown, slotVars, heapVars, exportVars, historyVars
<1>4. CASE Bailout
  <2>1. bailed' /\ UNCHANGED <<provider, request, firstSpan, sampled, redisException, live, span,
                              wire, traces, openKey, promised, optOut>>
    BY <1>4, Zenon DEF Bailout, sapiVars, slotVars, heapVars, exportVars
  <2>2. QED
    BY <2>1, Zenon DEF Inside, Keeping, KeepsMarks, ExceptionsShown, SamplingMoves, CallsHold
<1>5. CASE GetTraceparent
  <2>1. CASE CrashOnNullSpan
    BY <2>1, CrashInside
  <2>2. CASE ~CrashOnNullSpan
    <3>1. /\ UNCHANGED <<provider, request, firstSpan, sampled, redisException, live, span, frames,
                         wire, traces, openKey, optOut, bailed>>
          /\ promised' = (promised \/ Promises)
      BY <1>5, <2>2, Zenon DEF GetTraceparent, sapiVars, slotVars, heapVars, exportVars
    <3>2. QED
      BY <3>1, Zenon
      DEF Inside, Keeping, KeepsMarks, ExceptionsShown, SamplingMoves, CallsHold, Promises
  <2>3. QED
    BY <2>1, <2>2
<1>6. CASE AddAttribute
  BY <1>6, CrashInside DEF AddAttribute
<1>7. ASSUME NEW item \in BOOLEAN, AddToResource(item) PROVE Inside
  <2>1. CASE CrashOnUnchecked
    BY <2>1, CrashInside
  <2>2. CASE ~CrashOnUnchecked
    BY <1>7, <2>2, QuietInside, Zenon DEF AddToResource, sapiVars, heapVars, exportVars
  <2>3. QED
    BY <2>1, <2>2
<1>8. CASE Reparent
  BY <1>8, QuietInside, Zenon DEF Reparent, slotVars, heapVars, exportVars
<1>9. CASE UNCHANGED vars
  BY <1>9, QuietInside, Zenon
  DEF vars, sapiVars, slotVars, heapVars, exportVars, historyVars
<1>10. QED
  BY <1>1, <1>2, <1>3, <1>4, <1>5, <1>6, <1>7, <1>8, <1>9, CallBeginInside,
     CallBeginUntracedInside, CallEndInside, ErrorCallbackInside, ThrowExceptionInside,
     AddSpanInside, SetSampleRatioInside, ElapseInside
  DEF Next

LEMMA OpenFacts ==
  ASSUME TracerInv, NEW header \in Headers, NEW item \in BOOLEAN, StartTracer(header, item)
  PROVE  /\ ppid \in Keys /\ ppid # NoKey
         /\ openKey' = ppid /\ ppid' = ppid /\ frames' = frames
         /\ wire' = {} /\ ~promised' /\ ~bailed' /\ ~late' /\ traces' # traces
         /\ firstSpan'[ppid] # NoSpan
         /\ span'[firstSpan'[ppid]].parent = "remote" <=> header \in {"sampled", "unsampled"}
         /\ \A x \in live' : \/ x = firstSpan'[ppid]
                             \/ x \in live /\ span[x].key # ppid /\ span'[x] = span[x]
         /\ \A x \in live : span[x].key # ppid => x \in live' /\ span'[x] = span[x]
         /\ ~redisException'[ppid] /\ request'[ppid]
         /\ \A j \in Keys : j # ppid => /\ redisException'[j] => redisException[j]
                                        /\ request'[j] <=> request[j]
         /\ sampled'[ppid] = Decision(header, counter', sampled[ppid] /\ ~request[ppid])
<1> DEFINE k == ppid
           new == NewSpan(k, FirstAfterClean(k), traces + 1, "none")
           r == IF header \in {"sampled", "unsampled"}
                  THEN [new EXCEPT !.tid = RemoteTrace, !.parent = "remote"] ELSE new
<1>1. PICK s \in Spans \ (live \ FreedBy(k)) :
         /\ firstSpan' = [firstSpan EXCEPT ![k] = s]
         /\ live' = (live \ FreedBy(k)) \cup {s}
         /\ span' = [x \in Spans |-> IF x = s THEN r ELSE IF x \in FreedBy(k) THEN Blank ELSE span[x]]
  BY DEF StartTracer
<1>2. r.parent = "remote" <=> header \in {"sampled", "unsampled"}
  BY DEF NewSpan
<1> HIDE DEF r
<1>3. /\ k \in Keys /\ k # NoKey /\ traces \in Nat /\ NoSpan \notin Spans
      /\ live \subseteq Spans /\ span \in [Spans -> SpanRecord]
      /\ request \in [Keys -> BOOLEAN] /\ firstSpan \in [Keys -> Spans \cup {NoSpan}]
      /\ redisException \in [Keys -> BOOLEAN] /\ sampled \in [Keys -> BOOLEAN]
  BY KeysAreNat, SpansAssumption DEF TracerInv, TypeOK
<1>4. /\ openKey' = k /\ ppid' = ppid /\ frames' = frames
      /\ wire' = {} /\ ~promised' /\ ~bailed' /\ ~late' /\ traces' = traces + 1
      /\ request' = [request EXCEPT ![k] = TRUE]
      /\ redisException' = ExceptionAfterClean(k)
      /\ sampled' = [SampledAfterClean(k) EXCEPT ![k] = Decision(header, counter', @)]
  BY Zenon DEF StartTracer
<1>5. traces' # traces
  BY <1>3, <1>4
<1>6. firstSpan'[k] = s /\ firstSpan'[k] # NoSpan /\ span'[s] = r
  BY <1>1, <1>3
<1>7. \A x \in live : x \in FreedBy(k) <=> span[x].key = k
  BY <1>3 DEF FreedBy, SpansOf, TracerInv, TreeInv
<1>8. \A x \in live \ FreedBy(k) : x # s /\ x \in live' /\ span'[x] = span[x]
  BY <1>1, <1>3
<1>9. /\ \A x \in live' : x = s \/ (x \in live /\ span[x].key # k /\ span'[x] = span[x])
      /\ \A x \in live : span[x].key # k => x \in live' /\ span'[x] = span[x]
  BY <1>1, <1>7, <1>8, Zenon
<1>10. /\ ~redisException'[k] /\ request'[k]
       /\ \A j \in Keys : j # k => /\ redisException'[j] => redisException[j]
                                   /\ request'[j] <=> request[j]
  BY <1>3, <1>4 DEF ExceptionAfterClean, TracerInv, SlotInv
<1>11. sampled'[k] = Decision(header, counter', sampled[k] /\ ~request[k])
  BY <1>3, <1>4, Zenon DEF SampledAfterClean
<1>12. QED
  BY <1>2, <1>3, <1>4, <1>5, <1>6, <1>9, <1>10, <1>11, Zenon

LEMMA CloseFacts ==
  ASSUME TracerInv, ShutdownTracer
  PROVE  /\ UNCHANGED <<ppid, frames, traces, openKey, promised, optOut, bailed, late>>
         /\ \/ /\ firstSpan[ppid] = NoSpan
               /\ UNCHANGED <<request, firstSpan, sampled, redisException, live, span, wire>>
            \/ /\ firstSpan[ppid] # NoSpan /\ request[ppid] /\ ppid # NoKey
               /\ ~Cli => ppid = openKey
               /\ ~request'[openKey] /\ openKey # NoKey
               /\ firstSpan[ppid] \in SpansOf(ppid) /\ SpansOf(ppid) \subseteq live
               /\ Export(ppid, [span EXCEPT ![firstSpan[ppid]] = OkEnd(@)])
               /\ firstSpan'[ppid] = NoSpan /\ ~request'[ppid]
               /\ \A j \in Keys : request'[j] => request[j]
               /\ \A j \in Keys : redisException'[j] => redisException[j] /\ j # ppid /\ ~Cli
               /\ ~Cli => \A j \in Keys : j # ppid => request'[j] = request[j]
               /\ ~sampled'[ppid]
               /\ \A x \in live' : /\ x \in live /\ span[x].key # ppid
                                   /\ span'[x].status = span[x].status
                                   /\ span'[x].key = IF Cli THEN NoKey ELSE span[x].key
               /\ ~Cli => \A x \in live : span[x].key # ppid => x \in live' /\ span'[x] = span[x]
<1> DEFINE k == ppid
<1>1. UNCHANGED <<ppid, frames, traces, openKey, promised, optOut, bailed, late>>
  BY Zenon DEF ShutdownTracer, historyVars
<1>2. CASE firstSpan[k] = NoSpan
  BY <1>1, <1>2, Zenon DEF ShutdownTracer, slotVars, heapVars, exportVars
<1>3. CASE firstSpan[k] # NoSpan
  <2>1. /\ live \subseteq Spans /\ span \in [Spans -> SpanRecord] /\ k \in Keys /\ k # NoKey
        /\ request \in [Keys -> BOOLEAN] /\ firstSpan \in [Keys -> Spans \cup {NoSpan}]
        /\ redisException \in [Keys -> BOOLEAN] /\ sampled \in [Keys -> BOOLEAN]
    BY KeysAreNat DEF TracerInv, TypeOK
  <2>2. request[k] /\ provider
    BY <1>3, <2>1 DEF TracerInv, SlotInv, ProviderInv
  <2>3. firstSpan[k] \in SpansOf(k) /\ SpansOf(k) \subseteq live
    BY <1>3, <2>2, FirstIsOpen DEF HasFirstSpan, SpansOf
  <2>a. (~Cli => k = openKey) /\ openKey \in Keys /\ openKey # NoKey
    BY KeysAreNat DEF TracerInv, TypeOK, ProviderInv
  <2>4. FreedBy(k) = SpansOf(k) /\ FirstAfterClean(k) = NoSpan
    BY <2>2 DEF FreedBy, FirstAfterClean
  <2>5. /\ Export(k, [span EXCEPT ![firstSpan[k]] = OkEnd(@)])
        /\ Cli => /\ request' = [x \in Keys |-> FALSE] /\ firstSpan' = [x \in Keys |-> NoSpan]
                  /\ redisException' = [x \in Keys |-> FALSE] /\ sampled' = [x \in Keys |-> FALSE]
        /\ ~Cli => /\ request' = [request EXCEPT ![k] = FALSE]
                   /\ firstSpan' = [firstSpan EXCEPT ![k] = NoSpan]
                   /\ redisException' = ExceptionAfterClean(k)
                   /\ sampled' = SampledAfterClean(k)
        /\ live' = live \ SpansOf(k)
        /\ span' = [x \in Spans |->
                      IF x \in SpansOf(k) THEN Blank
                      ELSE IF Cli THEN [span[x] EXCEPT !.key = NoKey] ELSE span[x]]
    BY <1>3, <2>4 DEF ShutdownTracer
  <2>6. /\ firstSpan'[k] = NoSpan /\ ~request'[k] /\ ~sampled'[k]
        /\ \A j \in Keys : request'[j] => request[j]
        /\ \A j \in Keys : redisException'[j] => redisException[j] /\ j # k /\ ~Cli
        /\ ~Cli => \A j \in Keys : j # k => request'[j] = request[j]
        /\ ~request'[openKey]
    <3>1. CASE Cli
      BY <2>1, <2>a, <2>5, <3>1
    <3>2. CASE ~Cli
      BY <2>1, <2>a, <2>2, <2>5, <3>2 DEF ExceptionAfterClean, SampledAfterClean
    <3>3. QED
      BY <3>1, <3>2
  <2>7. ASSUME NEW x \in live'
        PROVE  /\ x \in live /\ span[x].key # k
               /\ span'[x].status = span[x].status
               /\ span'[x].key = IF Cli THEN NoKey ELSE span[x].key
    <3>1. x \in live /\ x \notin SpansOf(k) /\ x \in Spans /\ span[x] \in SpanRecord
      BY <2>1, <2>5
    <3>2. span'[x] = IF Cli THEN [span[x] EXCEPT !.key = NoKey] ELSE span[x]
      BY <2>5, <3>1
    <3>3. QED
      BY <3>1, <3>2, UnkeyedType DEF SpansOf
  <2>8. ~Cli => \A x \in live : span[x].key # k => x \in live' /\ span'[x] = span[x]
    BY <2>1, <2>5 DEF SpansOf
  <2>9. QED
    BY <1>1, <1>3, <2>1, <2>2, <2>3, <2>a, <2>5, <2>6, <2>7, <2>8, Zenon
<1>4. QED
  BY <1>2, <1>3

-----------------------------------------------------------------------------
(* The invariants about what was said and what is exported. *)

(* A callee was told "sampled" only if the trace still is. *)
PromiseInv == promised /\ ~optOut /\ request[openKey] => IsSampled(openKey)

(* A span that has not ended is the first one, or a call's in progress. *)
UnendedInv ==
    ~bailed => \A s \in live : span[s].key = openKey /\ ~span[s].ended /\ s # firstSpan[openKey] =>
                   \E i \in DOMAIN frames : frames[i].span = s /\ frames[i].gen = traces

HistoryInv == WireIsOneTrace /\ ExceptionHasItsTrace /\ PromiseInv /\ UnendedInv

LEMMA HistoryInit == Init => HistoryInv
BY DEF Init, HistoryInv, WireIsOneTrace, ExceptionHasItsTrace, PromiseInv, UnendedInv

LEMMA InsideHistory ==
  ASSUME TracerInv, TracerInv', HistoryInv, Inside
  PROVE  HistoryInv'
<1>1. WireIsOneTrace'
  BY Zenon DEF HistoryInv, WireIsOneTrace, Inside, Keeping
<1>2. ExceptionHasItsTrace'
  <2> SUFFICES ASSUME NEW k \in Keys, redisException'[k]
               PROVE  request'[k] /\ \E s \in live' : span'[s].key = k /\ span'[s].status = "error"
    BY DEF ExceptionHasItsTrace
  <2>1. CASE redisException[k]
    <3>1. request[k] /\ \E s \in live : span[s].key = k /\ span[s].status = "error"
      BY <2>1, Zenon DEF HistoryInv, ExceptionHasItsTrace
    <3>2. QED
      BY <3>1, Zenon DEF Inside, Keeping, KeepsMarks
  <2>2. CASE ~redisException[k]
    BY <2>2, Zenon DEF Inside, Keeping, ExceptionsShown
  <2>3. QED
    BY <2>1, <2>2
<1>3. PromiseInv'
  <2> SUFFICES ASSUME promised', ~optOut', request'[openKey'], ~sampled'[openKey']
               PROVE  span'[firstSpan'[openKey']].old
    BY DEF PromiseInv, IsSampled
  <2>1. openKey' = openKey /\ request[openKey] /\ firstSpan'[openKey] = firstSpan[openKey]
    BY Zenon DEF Inside, Keeping
  <2>2. ~optOut /\ ~sampled[openKey] /\ (promised \/ IsSampled(openKey))
    BY <2>1, Zenon DEF Inside, SamplingMoves
  <2>3. IsSampled(openKey)
    BY <2>1, <2>2, Zenon DEF HistoryInv, PromiseInv
  <2>4. firstSpan[openKey] \in live /\ span[firstSpan[openKey]].old
    BY <2>1, <2>2, <2>3, KeysAreNat DEF IsSampled, TracerInv, SlotInv, TypeOK
  <2>5. QED
    BY <2>1, <2>4, Zenon DEF Inside, Keeping, KeepsMarks
<1>4. UnendedInv'
  <2> SUFFICES ASSUME ~bailed', NEW s \in live', span'[s].key = openKey', ~span'[s].ended,
                      s # firstSpan'[openKey']
               PROVE  \E i \in DOMAIN frames' : frames'[i].span = s /\ frames'[i].gen = traces'
    BY Zenon DEF UnendedInv
  <2>1. openKey' = openKey /\ traces' = traces /\ firstSpan' = firstSpan /\ ~bailed
    BY Zenon DEF Inside, Keeping, CallsHold
  <2>2. CASE s \in live
    <3>1. span[s].key = openKey /\ ~span[s].ended
      BY <2>1, <2>2, Zenon DEF Inside, Keeping, KeepsMarks
    <3>2. PICK i \in DOMAIN frames : frames[i].span = s /\ frames[i].gen = traces
      BY <2>1, <2>2, <3>1, Zenon DEF HistoryInv, UnendedInv
    <3>3. provider
      <4>1. openKey # NoKey
        BY KeysAreNat DEF TracerInv, TypeOK
      <4>2. QED
        BY <2>2, <3>1, <4>1, NoProviderNoTrace
    <3>4. QED
      BY <2>1, <2>2, <3>2, <3>3, Zenon DEF Inside, CallsHold
  <2>3. CASE s \notin live
    BY <2>1, <2>3, Zenon DEF Inside, CallsHold
  <2>4. QED
    BY <2>2, <2>3
<1>5. QED
  BY <1>1, <1>2, <1>3, <1>4 DEF HistoryInv

LEMMA OpensHistory ==
  ASSUME TracerInv, HistoryInv, NEW header \in Headers, NEW item \in BOOLEAN,
         StartTracer(header, item)
  PROVE  HistoryInv'
<1>1. WireIsOneTrace' /\ PromiseInv'
  BY OpenFacts, Zenon DEF WireIsOneTrace, PromiseInv
<1>2. ExceptionHasItsTrace'
  <2> SUFFICES ASSUME NEW k \in Keys, redisException'[k]
               PROVE  request'[k] /\ \E s \in live' : span'[s].key = k /\ span'[s].status = "error"
    BY DEF ExceptionHasItsTrace
  <2>1. k # ppid /\ redisException[k]
    BY OpenFacts, Zenon
  <2>2. request[k] /\ \E s \in live : span[s].key = k /\ span[s].status = "error"
    BY <2>1, Zenon DEF HistoryInv, ExceptionHasItsTrace
  <2>3. QED
    BY <2>1, <2>2, OpenFacts, Zenon
<1>3. UnendedInv'
  BY OpenFacts, Zenon DEF UnendedInv
<1>4. QED
  BY <1>1, <1>2, <1>3 DEF HistoryInv

(* The request that is serialised is one tree: its root is the first span.   *)
LEMMA ExportedTree ==
  ASSUME TracerInv, NEW k \in Keys, request[k], WireIsOneTrace,
         Export(k, [span EXCEPT ![firstSpan[k]] = OkEnd(@)])
  PROVE  WireIsOneTrace'
<1> DEFINE first == firstSpan[k]
           closed == [span EXCEPT ![first] = OkEnd(@)]
<1>1. CASE wire' = wire
  BY <1>1, Zenon DEF WireIsOneTrace
<1>2. CASE wire' = {closed[s] : s \in SpansOf(k)}
  <2>1. /\ live \subseteq Spans /\ span \in [Spans -> SpanRecord]
        /\ first \in live /\ span[first].key = k
    BY DEF TracerInv, TypeOK, SlotInv
  <2>2. /\ closed[first] = OkEnd(span[first])
        /\ \A s \in live : s # first => closed[s] = span[s]
    BY <2>1
  <2>3. closed[first].parent = span[first].parent /\ closed[first].tid = span[first].tid
    BY <2>1, <2>2, OkEndType
  <2>4. /\ span[first].parent # "first"
        /\ span[first].parent = "remote" <=> span[first].tid = RemoteTrace
        /\ \A s \in live : span[s].key = k /\ s # first =>
               span[s].parent = "first" /\ span[s].tid = span[first].tid
    BY DEF TracerInv, TreeInv
  <2>5. first \in SpansOf(k)
    BY <2>1 DEF SpansOf
  <2> HIDE DEF closed, first
  <2>6. closed[first] \in wire'
    BY <1>2, <2>5
  <2>7. \A r \in wire' \ {closed[first]} : r.parent = "first" /\ r.tid = closed[first].tid
    <3> SUFFICES ASSUME NEW r \in wire', r # closed[first]
                 PROVE  r.parent = "first" /\ r.tid = closed[first].tid
      OBVIOUS
    <3>1. PICK s \in SpansOf(k) : r = closed[s]
      BY <1>2
    <3>2. s # first /\ s \in live /\ span[s].key = k
      BY <3>1 DEF SpansOf
    <3>3. QED
      BY <2>2, <2>3, <2>4, <3>1, <3>2
  <2>8. QED
    BY <2>3, <2>4, <2>6, <2>7 DEF WireIsOneTrace
<1>3. QED
  BY <1>1, <1>2 DEF Export

LEMMA ClosesHistory ==
  ASSUME TracerInv, HistoryInv, ShutdownTracer
  PROVE  HistoryInv'
<1>1. /\ ppid \in Keys /\ UNCHANGED <<frames, traces, openKey, promised, optOut, bailed>>
  BY CloseFacts, KeysAreNat DEF TracerInv, TypeOK
<1>2. CASE firstSpan[ppid] = NoSpan
  <2>1. UNCHANGED <<request, firstSpan, sampled, redisException, live, span, wire>>
    BY <1>2, CloseFacts, Zenon
  <2>2. QED
    BY <1>1, <2>1, Zenon DEF HistoryInv, WireIsOneTrace, ExceptionHasItsTrace, PromiseInv, UnendedInv,
       IsSampled
<1>3. CASE firstSpan[ppid] # NoSpan
  <2>1. /\ request[ppid] /\ ~request'[openKey] /\ openKey # NoKey /\ (~Cli => ppid = openKey)
        /\ Export(ppid, [span EXCEPT ![firstSpan[ppid]] = OkEnd(@)])
    BY <1>3, CloseFacts, Zenon
  <2>2. WireIsOneTrace'
    BY <1>1, <2>1, ExportedTree DEF HistoryInv
  <2>3. PromiseInv'
    BY <1>1, <2>1, Zenon DEF PromiseInv
  <2>4. ExceptionHasItsTrace'
    <3> SUFFICES ASSUME NEW k \in Keys, redisException'[k]
                 PROVE  request'[k] /\ \E s \in live' : span'[s].key = k /\ span'[s].status = "error"
      BY DEF ExceptionHasItsTrace
    <3>1. redisException[k] /\ k # ppid /\ ~Cli
      BY <1>3, CloseFacts, Zenon
    <3>2. request[k] /\ \E s \in live : span[s].key = k /\ span[s].status = "error"
      BY <3>1, Zenon DEF HistoryInv, ExceptionHasItsTrace
    <3>3. QED
      BY <1>3, <3>1, <3>2, CloseFacts, Zenon
  <2>5. UnendedInv'
    <3>1. \A x \in live' : span'[x].key # openKey'
      BY <1>1, <1>3, <2>1, CloseFacts, Zenon
    <3>2. QED
      BY <3>1, Zenon DEF UnendedInv
  <2>6. QED
    BY <2>2, <2>3, <2>4, <2>5 DEF HistoryInv
<1>4. QED
  BY <1>2, <1>3

LEMMA HistoryStep ==
  ASSUME TracerInv, TracerInv', HistoryInv, [Next]_vars
  PROVE  HistoryInv'
BY StepKinds, InsideHistory, OpensHistory, ClosesHistory DEF Opens

LEMMA HistoryInvHolds == Spec => []HistoryInv
<1>1. TracerInv /\ TracerInv' /\ HistoryInv /\ [Next]_vars => HistoryInv'
  BY HistoryStep
<1>2. QED
  BY <1>1, HistoryInit, TracerInvHolds, PTL DEF Spec

(* What is serialised is one tree of one trace, whatever calls, errors and   *)
(* parent pids there were (core.cc:254, provider.cc createSpan).             *)
THEOREM ExportIsOneTrace == Spec => []WireIsOneTrace
<1>1. HistoryInv => WireIsOneTrace
  BY DEF HistoryInv
<1>2. QED
  BY <1>1, HistoryInvHolds, PTL

(* A noted RedisException has an ERROR span in a request that is still there *)
(* (provider.cc clean, zend_hook_exception.cc).                              *)
THEOREM ExceptionsStayInTheirTrace == Spec => []ExceptionHasItsTrace
<1>1. HistoryInv => ExceptionHasItsTrace
  BY DEF HistoryInv
<1>2. QED
  BY <1>1, HistoryInvHolds, PTL

-----------------------------------------------------------------------------
(* What holds of the step that closes a trace.                               *)

(* Only shutdown_tracer closes a trace.                                      *)
LEMMA ClosingStep ==
  ASSUME TracerInv, [Next]_vars, Closes
  PROVE  /\ request[ppid] /\ ppid \in Keys
         /\ firstSpan[ppid] \in SpansOf(ppid)
         /\ Export(ppid, [span EXCEPT ![firstSpan[ppid]] = OkEnd(@)])
         /\ UNCHANGED <<promised, optOut, bailed, frames>>
<1>1. ppid \in Keys
  BY KeysAreNat DEF TracerInv, TypeOK
<1>2. CASE Inside
  BY <1>2, Zenon DEF Inside, Keeping, Closes
<1>3. CASE Opens
  BY <1>3, OpenFacts, Zenon DEF Opens, Closes
<1>4. CASE ShutdownTracer
  BY <1>1, <1>4, CloseFacts, Zenon DEF Closes
<1>5. QED
  BY <1>2, <1>3, <1>4, StepKinds

(* What is serialised: every span of the trace, the first one with okEnd.    *)
LEMMA Serialised ==
  ASSUME TracerInv, [Next]_vars, Closes, delivery' # "withheld"
  PROVE  /\ \A s \in SpansOf(ppid) : s # firstSpan[ppid] => span[s] \in wire'
         /\ OkEnd(span[firstSpan[ppid]]) \in wire'
         /\ \A r \in wire' : \/ r = OkEnd(span[firstSpan[ppid]])
                            \/ \E s \in SpansOf(ppid) : s # firstSpan[ppid] /\ r = span[s]
<1> DEFINE first == firstSpan[ppid]
           closed == [span EXCEPT ![first] = OkEnd(@)]
<1>1. first \in SpansOf(ppid) /\ Export(ppid, closed)
  BY ClosingStep
<1>2. SpansOf(ppid) \subseteq Spans /\ span \in [Spans -> SpanRecord]
  BY DEF TracerInv, TypeOK, SpansOf
<1>3. closed[first] = OkEnd(span[first]) /\ \A s \in SpansOf(ppid) : s # first => closed[s] = span[s]
  BY <1>1, <1>2
<1>4. wire' = {closed[s] : s \in SpansOf(ppid)}
  BY <1>1 DEF Export
<1> HIDE DEF first, closed
<1>5. /\ \A s \in SpansOf(ppid) : s # first => span[s] \in wire'
      /\ OkEnd(span[first]) \in wire'
  BY <1>1, <1>3, <1>4
<1>6. ASSUME NEW r \in wire'
      PROVE  r = OkEnd(span[first]) \/ \E s \in SpansOf(ppid) : s # first /\ r = span[s]
  <2>1. PICK s \in SpansOf(ppid) : r = closed[s]
    BY <1>4
  <2>2. QED
    BY <1>3, <2>1
<1>7. QED
  BY <1>5, <1>6 DEF first

(* Only shutdown_tracer ends one. *)
LEMMA EndingStep ==
  ASSUME TracerInv, [Next]_vars, Ends
  PROVE  ShutdownTracer
<1>1. ~UNCHANGED <<phase, started>>
  BY DEF Ends, Open
<1>2. ASSUME NEW cause PROVE ~Dies(cause)
  BY <1>1, Zenon DEF Dies, sapiVars
<1>3. ~CrashOnNullSpan /\ ~CrashOnUnchecked
  BY <1>2, Zenon DEF CrashOnNullSpan, CrashOnUnchecked
<1>4. ASSUME NEW header \in Headers, NEW item \in BOOLEAN PROVE ~RequestInit(header, item)
  BY <1>2 DEF RequestInit, Ends, Open
<1>5. ASSUME NEW header \in Headers, NEW item \in BOOLEAN PROVE ~StartCliTracer(header, item)
  BY <1>2 DEF StartCliTracer, Ends, Open
<1>6. ~ModuleShutdown
  BY DEF ModuleShutdown, Ends, Open
<1>7. \A kind \in Kinds : ~CallBegin(kind) /\ ~CallBeginUntraced(kind)
  BY <1>1, <1>3, Zenon DEF CallBegin, CallBeginUntraced, sapiVars
<1>8. ~CallEnd
  BY <1>1, <1>2, CallEndCases, Zenon DEF CallReturns, sapiVars
<1>9. ~Bailout /\ ~GetTraceparent /\ ~AddAttribute /\ ~Elapse /\ ~Reparent
  BY <1>1, <1>3, Zenon DEF Bailout, GetTraceparent, AddAttribute, Elapse, Reparent, sapiVars
<1>10. \A reported, nocode \in BOOLEAN : ~ErrorCallback(reported, nocode)
  BY <1>1, <1>3, Zenon DEF ErrorCallback, sapiVars
<1>11. \A isRedis, native \in BOOLEAN : ~ThrowException(isRedis, native)
  BY <1>1, <1>3, ThrowExceptionCases, Zenon DEF NotRecorded, Recorded, sapiVars
<1>12. \A status \in {"ok", "error"} : ~AddSpan(status)
  BY <1>1, <1>3, Zenon DEF AddSpan, sapiVars
<1>13. ASSUME NEW ratio \in {"zero", "one", "other"}, NEW fromCaller \in BOOLEAN
       PROVE  ~SetSampleRatio(ratio, fromCaller)
  <2>1. TypeOK
    BY DEF TracerInv
  <2>2. QED
    BY <1>1, <1>2, <1>3, <2>1, SetSampleRatioCases, Zenon DEF RatioSet, sapiVars
<1>14. \A item \in BOOLEAN : ~AddToResource(item)
  BY <1>1, <1>3, Zenon DEF AddToResource, sapiVars
<1>15. ~UNCHANGED vars
  BY <1>1, Zenon DEF vars, sapiVars
<1>16. RequestShutdown \/ ShutdownCliTracer
  BY <1>4, <1>5, <1>6, <1>7, <1>8, <1>9, <1>10, <1>11, <1>12, <1>13, <1>14, <1>15, Zenon DEF Next
<1>17. QED
  BY <1>16 DEF RequestShutdown, ShutdownCliTracer

LEMMA PromiseStep ==
  ASSUME TracerInv, HistoryInv, [Next]_vars, Ends, promised, ~optOut, EnableCollect, ppid = openKey
  PROVE  Closes /\ delivery' \in {"queued", "dropped"}
<1>1. ShutdownTracer
  BY EndingStep
<1>2. request[ppid] /\ ppid \in Keys /\ firstSpan[ppid] # NoSpan
  <2>1. Open
    BY DEF Ends
  <2>2. request[ppid]
    BY <2>1 DEF Open, TracerInv, ProviderInv
  <2>3. QED
    BY <2>2, KeysAreNat DEF TracerInv, TypeOK, SlotInv
<1>3. Export(ppid, [span EXCEPT ![firstSpan[ppid]] = OkEnd(@)]) /\ Closes
  BY <1>1, <1>2, CloseFacts, Zenon DEF Closes
<1>4. IsSampled(ppid)
  BY <1>2, Zenon DEF HistoryInv, PromiseInv
<1>5. delivery' \in IF queue = "open" THEN {"queued", "dropped"} ELSE {"dropped"}
  BY <1>3, <1>4, Zenon DEF Export
<1>6. QED
  BY <1>3, <1>5

(* A callee that was told the trace is sampled gets the caller's spans: the  *)
(* step that ends the trace, under the parent pid it was opened with, closes *)
(* it and hands the request to the queue, unless the script opted out or      *)
(* collection is off (formatTraceParentHeader, shutdown_tracer).              *)
THEOREM PromisesAreKept == Spec => PromiseKept
<1>1. TracerInv /\ HistoryInv /\ [Next]_vars
        => [Ends /\ promised /\ ~optOut /\ EnableCollect /\ ppid = openKey
              => Closes /\ delivery' \in {"queued", "dropped"}]_vars
  BY PromiseStep
<1>2. QED
  BY <1>1, TracerInvHolds, HistoryInvHolds, PTL DEF Spec, PromiseKept

LEMMA EndedStep ==
  ASSUME TracerInv, HistoryInv, [Next]_vars, Closes, ppid = openKey, delivery' # "withheld",
         ~bailed, frames = <<>>
  PROVE  \A r \in wire' : r.ended
<1>1. /\ ppid = openKey /\ firstSpan[ppid] \in SpansOf(ppid)
      /\ SpansOf(ppid) \subseteq live /\ \A s \in SpansOf(ppid) : span[s].key = ppid
  BY ClosingStep DEF SpansOf
<1>2. OkEnd(span[firstSpan[ppid]]).ended
  <2>1. span[firstSpan[ppid]] \in SpanRecord
    BY <1>1 DEF TracerInv, TypeOK
  <2>2. QED
    BY <2>1, OkEndType
<1>3. ASSUME NEW s \in SpansOf(ppid), s # firstSpan[ppid] PROVE span[s].ended
  <2>1. ~ \E i \in DOMAIN frames : frames[i].span = s
    OBVIOUS
  <2>2. QED
    BY <1>1, <1>3, <2>1, Zenon DEF HistoryInv, UnendedInv
<1>4. QED
  BY <1>2, <1>3, Serialised, Zenon

(* Every span that is serialised has ended, unless a call was cut short by   *)
(* exit() or is still in progress (the second halves of the handlers), when  *)
(* the trace closed is the one opened last.                                  *)
THEOREM SpansEndBeforeExport == Spec => ExportedSpansEnded
<1>1. TracerInv /\ HistoryInv /\ [Next]_vars
        => [Closes /\ ppid = openKey /\ delivery' # "withheld" /\ ~bailed /\ frames = <<>>
              => \A r \in wire' : r.ended]_vars
  BY EndedStep
<1>2. QED
  BY <1>1, TracerInvHolds, HistoryInvHolds, PTL DEF Spec, ExportedSpansEnded

LEMMA ErrorStep ==
  ASSUME TracerInv, [Next]_vars, NEW s \in live, span[s].status = "error"
  PROVE  /\ s \in live' /\ traces' = traces => span'[s].status = "error"
         /\ Closes /\ span[s].key = ppid /\ delivery' # "withheld" =>
              \E r \in wire' : r.parent = span[s].parent /\ r.status = "error"
<1>1. s \in live' /\ traces' = traces => span'[s].status = "error"
  <2>1. CASE Inside
    BY <2>1, Zenon DEF Inside, Keeping, KeepsMarks
  <2>2. CASE Opens
    BY <2>2, OpenFacts, Zenon DEF Opens
  <2>3. CASE ShutdownTracer
    <3>1. s \in live' => span'[s].status = span[s].status
      BY <2>3, CloseFacts, Zenon
    <3>2. QED
      BY <3>1
  <2>4. QED
    BY <2>1, <2>2, <2>3, StepKinds
<1>2. ASSUME Closes, span[s].key = ppid, delivery' # "withheld"
      PROVE  \E r \in wire' : r.parent = span[s].parent /\ r.status = "error"
  <2>1. s \in SpansOf(ppid)
    BY <1>2 DEF SpansOf
  <2>2. CASE s # firstSpan[ppid]
    BY <1>2, <2>1, <2>2, Serialised
  <2>3. CASE s = firstSpan[ppid]
    <3>1. span[s] \in SpanRecord
      BY DEF TracerInv, TypeOK
    <3>2. OkEnd(span[s]).parent = span[s].parent /\ OkEnd(span[s]).status = "error"
      BY <3>1, OkEndType
    <3>3. OkEnd(span[s]) \in wire'
      BY <1>2, <2>3, Serialised
    <3>4. QED
      BY <3>2, <3>3
  <2>4. QED
    BY <2>2, <2>3
<1>3. QED
  BY <1>1, <1>2

(* An ERROR never becomes OK, neither while its trace is under way nor when  *)
(* it is serialised: okEnd, which shutdown_tracer calls on the first span in *)
(* any case, sets only a status that is unset (provider.cc okEnd).           *)
THEOREM ErrorsStick == Spec => ErrorSticks
<1>1. TracerInv /\ [Next]_vars =>
        [\A s \in live : span[s].status = "error" =>
           /\ s \in live' /\ traces' = traces => span'[s].status = "error"
           /\ Closes /\ span[s].key = ppid /\ delivery' # "withheld" =>
                \E r \in wire' : r.parent = span[s].parent /\ r.status = "error"]_vars
  BY ErrorStep
<1>2. QED
  BY <1>1, TracerInvHolds, PTL DEF Spec, ErrorSticks
=============================================================================
