---------------------------- MODULE TracerProofs ----------------------------
(***************************************************************************)
(* Theorems about Tracer, for every value of its constants: its variables   *)
(* keep their types, and TracerInv is inductive, from which its safety      *)
(* invariants follow.  The parts of TracerInv are proved for classes of     *)
(* steps: those that add children of the first span or end spans (Grows),   *)
(* those that open a trace and those that close one.                        *)
(***************************************************************************)
EXTENDS Tracer, SequenceTheorems, TLAPS

USE SwitchesAssumption, SampleAssumption, SpansAssumption, PpidsAssumption,
    HeadersAssumption, KindsAssumption, BoundsAssumption

-----------------------------------------------------------------------------
(* What the methods of Provider return. *)

LEMMA KeysAreNat == Keys \subseteq Nat /\ NoKey \in Keys /\ Ppids \subseteq Keys /\ NoKey \notin Ppids
BY DEF Keys, NoKey

LEMMA BlankType == Blank \in SpanRecord
BY DEF Blank, SpanRecord, Keys, NoKey

LEMMA UnkeyedType ==
  ASSUME NEW r \in SpanRecord
  PROVE  /\ [r EXCEPT !.key = NoKey] \in SpanRecord
         /\ [r EXCEPT !.key = NoKey].key = NoKey
         /\ [r EXCEPT !.key = NoKey].status = r.status
         /\ [r EXCEPT !.key = NoKey].ended = r.ended
BY DEF SpanRecord, Keys

LEMMA OkEndType ==
  ASSUME NEW r \in SpanRecord
  PROVE  /\ OkEnd(r) \in SpanRecord
         /\ OkEnd(r).key = r.key /\ OkEnd(r).tid = r.tid /\ OkEnd(r).parent = r.parent
         /\ OkEnd(r).ended
         /\ r.status = "error" => OkEnd(r).status = "error"
         /\ OkEnd(r).status = "error" => r.status = "error"
BY DEF OkEnd, SpanRecord

LEMMA ErrorEndType ==
  ASSUME NEW r \in SpanRecord
  PROVE  /\ ErrorEnd(r) \in SpanRecord
         /\ ErrorEnd(r).key = r.key /\ ErrorEnd(r).tid = r.tid /\ ErrorEnd(r).parent = r.parent
         /\ ErrorEnd(r).ended
         /\ ErrorEnd(r).status = "error"
BY DEF ErrorEnd, SpanRecord

LEMMA EndedAsType ==
  ASSUME NEW r \in SpanRecord, NEW status \in {"ok", "error"}
  PROVE  /\ EndedAs(r, status) \in SpanRecord
         /\ EndedAs(r, status).key = r.key /\ EndedAs(r, status).tid = r.tid
         /\ EndedAs(r, status).parent = r.parent
         /\ EndedAs(r, status).ended
         /\ r.status = "error" \/ status = "error" => EndedAs(r, status).status = "error"
         /\ EndedAs(r, status).status = "error" => r.status = "error" \/ status = "error"
BY OkEndType, ErrorEndType DEF EndedAs

LEMMA FinishedAsType ==
  ASSUME NEW kind, NEW r \in SpanRecord, NEW status \in {"ok", "error"}
  PROVE  /\ FinishedAs(kind, r, status) \in SpanRecord
         /\ FinishedAs(kind, r, status).key = r.key /\ FinishedAs(kind, r, status).tid = r.tid
         /\ FinishedAs(kind, r, status).parent = r.parent
         /\ FinishedAs(kind, r, status).ended
         /\ r.status = "error" \/ status = "error" => FinishedAs(kind, r, status).status = "error"
         /\ FinishedAs(kind, r, status).status = "error" => r.status = "error" \/ status = "error"
<1> DEFINE e == EndedAs(r, status)
<1>1. e \in SpanRecord /\ e.key = r.key /\ e.tid = r.tid /\ e.parent = r.parent /\ e.ended
      /\ (r.status = "error" \/ status = "error" => e.status = "error")
      /\ (e.status = "error" => r.status = "error" \/ status = "error")
  BY EndedAsType
<1> HIDE DEF e
<1>2. FinishedAs(kind, r, status) = IF Handler[kind].okLast THEN OkEnd(e) ELSE e
  BY DEF FinishedAs, e
<1>3. QED
  BY <1>1, <1>2, OkEndType

(* A child of the first span of the current key. *)
LEMMA ChildType ==
  ASSUME TypeOK, HasFirstSpan
  PROVE  /\ Child \in SpanRecord
         /\ Child.key = ppid /\ Child.parent = "first" /\ Child.tid = span[firstSpan[ppid]].tid
         /\ Child.status = "unset" /\ ~Child.ended /\ ~Child.old
BY KeysAreNat DEF Child, NewSpan, TypeOK, HasFirstSpan, SpanRecord

-----------------------------------------------------------------------------
(* Type correctness. *)

LEMMA InitType == Init => TypeOK
<1> SUFFICES ASSUME Init PROVE TypeOK
  OBVIOUS
<1>1. phase \in {"idle", "script", "exited"} /\ fault \in Faults /\ queue \in {"absent", "open"}
  BY DEF Init, Faults
<1>2. is_init_consumers \in BOOLEAN
  BY Zenon DEF Init
<1>3. /\ request \in [Keys -> BOOLEAN] /\ firstSpan \in [Keys -> Spans \cup {NoSpan}]
      /\ sampled \in [Keys -> BOOLEAN] /\ redisException \in [Keys -> BOOLEAN]
      /\ baggage \in [Keys -> BOOLEAN]
  BY DEF Init
<1>4. span \in [Spans -> SpanRecord] /\ live \subseteq Spans /\ wire \subseteq SpanRecord
  BY BlankType DEF Init
<1>5. frames \in Seq(Frame)
  BY DEF Init
<1>6. /\ moved \in BOOLEAN /\ provider \in BOOLEAN /\ started \in BOOLEAN /\ promised \in BOOLEAN
      /\ optOut \in BOOLEAN /\ bailed \in BOOLEAN /\ late \in BOOLEAN
      /\ ppid \in Ppids /\ openKey \in Ppids
      /\ counter \in Nat /\ traces \in Nat /\ unsampledRun \in Nat
      /\ delivery \in {"none", "queued", "dropped", "withheld"}
  BY DEF Init
<1>7. QED
  BY <1>1, <1>2, <1>3, <1>4, <1>5, <1>6 DEF TypeOK

LEMMA StartTracerType ==
  ASSUME TypeOK, NEW header \in Headers, NEW item \in BOOLEAN, StartTracer(header, item),
         phase' \in {"idle", "script", "exited"}, started' \in BOOLEAN
  PROVE  TypeOK'
<1> USE DEF TypeOK, StartTracer
<1>1. PICK s \in Spans \ (live \ FreedBy(ppid)) :
         /\ firstSpan' = [firstSpan EXCEPT ![ppid] = s]
         /\ live' = (live \ FreedBy(ppid)) \cup {s}
         /\ span' = [x \in Spans |->
                       IF x = s
                         THEN IF header \in {"sampled", "unsampled"}
                                THEN [NewSpan(ppid, FirstAfterClean(ppid), traces + 1, "none")
                                        EXCEPT !.tid = RemoteTrace, !.parent = "remote"]
                                ELSE NewSpan(ppid, FirstAfterClean(ppid), traces + 1, "none")
                         ELSE IF x \in FreedBy(ppid) THEN Blank ELSE span[x]]
  OBVIOUS
<1>2. FirstAfterClean(ppid) \in Spans \cup {NoSpan}
  BY KeysAreNat DEF FirstAfterClean
<1>3. NewSpan(ppid, FirstAfterClean(ppid), traces + 1, "none") \in SpanRecord
  <2> DEFINE first == FirstAfterClean(ppid)
             tid == IF first = NoSpan THEN traces + 1 ELSE span[first].tid
  <2>1. first # NoSpan => span[first].tid \in Nat
    BY <1>2 DEF SpanRecord
  <2>2. tid \in Nat /\ ppid \in Keys
    BY <2>1, KeysAreNat
  <2> HIDE DEF tid
  <2>3. [key |-> ppid, tid |-> tid, parent |-> "none", status |-> "unset",
         ended |-> FALSE, old |-> FALSE] \in SpanRecord
    BY <2>2 DEF SpanRecord
  <2>4. NewSpan(ppid, first, traces + 1, "none")
          = [key |-> ppid, tid |-> tid, parent |-> "none", status |-> "unset",
             ended |-> FALSE, old |-> FALSE]
    BY Zenon DEF NewSpan, tid
  <2>5. QED
    BY <2>3, <2>4, Zenon
<1>4. [NewSpan(ppid, FirstAfterClean(ppid), traces + 1, "none")
         EXCEPT !.tid = RemoteTrace, !.parent = "remote"] \in SpanRecord
  BY <1>3 DEF SpanRecord, RemoteTrace
<1>5. span' \in [Spans -> SpanRecord] /\ live' \subseteq Spans
      /\ firstSpan' \in [Keys -> Spans \cup {NoSpan}]
  BY <1>1, <1>3, <1>4, BlankType
<1>6. /\ sampled' \in [Keys -> BOOLEAN] /\ redisException' \in [Keys -> BOOLEAN]
      /\ baggage' \in [Keys -> BOOLEAN] /\ request' \in [Keys -> BOOLEAN]
  <2>1. \E d : sampled' = [SampledAfterClean(ppid) EXCEPT ![ppid] = d] /\ d \in BOOLEAN
    <3>1. \A old \in BOOLEAN : \A n : Decision(header, n, old) \in BOOLEAN
      BY DEF Decision, ByRatio
    <3>2. SampledAfterClean(ppid)[ppid] \in BOOLEAN
      BY KeysAreNat DEF SampledAfterClean
    <3>3. QED
      BY <3>1, <3>2, KeysAreNat DEF SampledAfterClean
  <2>2. SampledAfterClean(ppid) \in [Keys -> BOOLEAN]
    BY KeysAreNat DEF SampledAfterClean
  <2>3. /\ redisException' = ExceptionAfterClean(ppid)
        /\ baggage' = [BaggageAfterClean(ppid) EXCEPT ![ppid] = @ \/ item]
        /\ request' = [request EXCEPT ![ppid] = TRUE]
    OBVIOUS
  <2>4. TypeOK
    OBVIOUS
  <2> HIDE DEF StartTracer, TypeOK
  <2>5. redisException' \in [Keys -> BOOLEAN] /\ baggage' \in [Keys -> BOOLEAN]
        /\ request' \in [Keys -> BOOLEAN]
    BY <2>3, <2>4 DEF TypeOK, ExceptionAfterClean, BaggageAfterClean
  <2>6. QED
    BY <2>1, <2>2, <2>5
<1>7. counter' \in Nat
  <2>1. counter' = Increased(IF provider THEN counter ELSE 0) /\ counter \in Nat
    OBVIOUS
  <2> HIDE DEF StartTracer, TypeOK
  <2>2. QED
    BY <2>1 DEF Increased
<1>8. is_init_consumers' \in BOOLEAN /\ queue' \in {"absent", "open"}
  <2>1. InitConsumers
    OBVIOUS
  <2>2. QED
    BY <2>1 DEF InitConsumers, queueVars
<1>9. unsampledRun' \in Nat
  <2>1. unsampledRun' \in {unsampledRun, 0, unsampledRun + 1}
    BY Zenon
  <2>2. QED
    BY <2>1
<1>10. fault' \in Faults /\ wire' \subseteq SpanRecord /\ delivery' = "none"
       /\ ppid' \in Ppids /\ frames' \in Seq(Frame) /\ traces' \in Nat /\ openKey' \in Ppids
       /\ provider' \in BOOLEAN /\ promised' \in BOOLEAN /\ optOut' \in BOOLEAN
       /\ bailed' \in BOOLEAN /\ late' \in BOOLEAN /\ moved' \in BOOLEAN
  <2>1. fault' = FaultOf(header) /\ wire' = {} /\ delivery' = "none" /\ ppid' = ppid
        /\ frames' = frames /\ traces' = traces + 1 /\ openKey' = ppid /\ provider' = TRUE
        /\ promised' = FALSE /\ optOut' = FALSE /\ bailed' = FALSE /\ late' = FALSE
        /\ moved' = FALSE
    OBVIOUS
  <2>2. TypeOK
    OBVIOUS
  <2> HIDE DEF StartTracer, TypeOK
  <2>3. provider' \in BOOLEAN /\ promised' \in BOOLEAN /\ optOut' \in BOOLEAN
        /\ bailed' \in BOOLEAN /\ late' \in BOOLEAN /\ moved' \in BOOLEAN
    BY <2>1, Zenon
  <2>4. ppid' \in Ppids /\ frames' \in Seq(Frame) /\ traces' \in Nat /\ openKey' \in Ppids
    BY <2>1, <2>2 DEF TypeOK
  <2>5. QED
    BY <2>1, <2>3, <2>4 DEF Faults, FaultOf
<1> HIDE DEF StartTracer
<1>11. QED
  BY <1>5, <1>6, <1>7, <1>8, <1>9, <1>10

LEMMA ExportType ==
  ASSUME TypeOK, NEW k \in Keys, NEW closed \in [Spans -> SpanRecord], Export(k, closed)
  PROVE  wire' \subseteq SpanRecord /\ delivery' \in {"none", "queued", "dropped", "withheld"}
BY DEF Export, TypeOK, SpansOf

LEMMA ShutdownTracerType ==
  ASSUME TypeOK, ShutdownTracer, phase' \in {"idle", "script", "exited"}
  PROVE  TypeOK'
<1> USE DEF TypeOK, ShutdownTracer
<1>1. CASE firstSpan[ppid] = NoSpan
  <2>1. /\ started' = FALSE
        /\ UNCHANGED <<provider, counter, slotVars, heapVars, exportVars>>
        /\ UNCHANGED <<ppid, fault, queueVars, frames, historyVars>>
    BY <1>1
  <2>2. TypeOK
    OBVIOUS
  <2> HIDE DEF ShutdownTracer, TypeOK
  <2>3. QED
    BY <2>1, <2>2 DEF TypeOK, slotVars, heapVars, exportVars, queueVars, historyVars
<1>2. CASE firstSpan[ppid] # NoSpan
  <2> DEFINE closed == [span EXCEPT ![firstSpan[ppid]] = OkEnd(@)]
  <2>1. closed \in [Spans -> SpanRecord]
    BY OkEndType
  <2>2. Export(ppid, closed)
    BY <1>2
  <2>3. wire' \subseteq SpanRecord /\ delivery' \in {"none", "queued", "dropped", "withheld"}
    BY <2>1, <2>2, ExportType, KeysAreNat
  <2> DEFINE gone(v, cleaned) == IF Cli THEN [x \in Keys |-> v] ELSE cleaned
  <2>4. /\ request' = gone(FALSE, [request EXCEPT ![ppid] = FALSE])
        /\ firstSpan' = gone(NoSpan, [firstSpan EXCEPT ![ppid] = FirstAfterClean(ppid)])
        /\ sampled' = gone(FALSE, SampledAfterClean(ppid))
        /\ redisException' = gone(FALSE, ExceptionAfterClean(ppid))
        /\ baggage' = gone(FALSE, BaggageAfterClean(ppid))
        /\ live' = live \ FreedBy(ppid)
        /\ span' = [x \in Spans |->
                      IF x \in FreedBy(ppid) THEN Blank
                      ELSE IF Cli THEN [span[x] EXCEPT !.key = NoKey] ELSE span[x]]
        /\ provider' = ~Cli
        /\ counter' = IF Cli THEN 0 ELSE counter
    BY <1>2
  <2>5. /\ SampledAfterClean(ppid) \in [Keys -> BOOLEAN]
        /\ ExceptionAfterClean(ppid) \in [Keys -> BOOLEAN]
        /\ BaggageAfterClean(ppid) \in [Keys -> BOOLEAN]
        /\ FirstAfterClean(ppid) \in Spans \cup {NoSpan}
    BY KeysAreNat DEF SampledAfterClean, ExceptionAfterClean, BaggageAfterClean, FirstAfterClean
  <2>6. /\ request' \in [Keys -> BOOLEAN] /\ sampled' \in [Keys -> BOOLEAN]
        /\ redisException' \in [Keys -> BOOLEAN] /\ baggage' \in [Keys -> BOOLEAN]
        /\ firstSpan' \in [Keys -> Spans \cup {NoSpan}]
    <3> USE <2>4, <2>5
    <3> HIDE DEF ShutdownTracer
    <3>1. CASE Cli
      BY <3>1
    <3>2. CASE ~Cli
      BY <3>2
    <3>3. QED
      BY <3>1, <3>2
  <2>7. span' \in [Spans -> SpanRecord] /\ live' \subseteq Spans
    BY <2>4, UnkeyedType, BlankType
  <2>8. provider' \in BOOLEAN /\ counter' \in Nat
    BY <2>4, Zenon
  <2>9. started' = FALSE /\ UNCHANGED <<ppid, fault, queueVars, frames, historyVars>>
    OBVIOUS
  <2>10. QED
    BY <2>3, <2>6, <2>7, <2>8, <2>9 DEF queueVars, historyVars
<1>3. QED
  BY <1>1, <1>2

LEMMA DiesType ==
  ASSUME TypeOK, NEW cause \in Faults, Dies(cause)
  PROVE  TypeOK'
BY DEF Dies, TypeOK, sapiVars, queueVars, slotVars, heapVars, exportVars, historyVars

LEMMA CrashType ==
  ASSUME TypeOK, CrashOnNullSpan \/ CrashOnUnchecked
  PROVE  TypeOK'
BY DiesType DEF CrashOnNullSpan, CrashOnUnchecked, Faults

LEMMA CallBeginType ==
  ASSUME TypeOK, NEW kind \in Kinds, CallBegin(kind)
  PROVE  TypeOK'
<1>1. CASE CrashOnNullSpan \/ CrashOnUnchecked
  BY <1>1, CrashType
<1>2. CASE ~CrashOnNullSpan /\ ~CrashOnUnchecked
  <2>1. /\ HasFirstSpan
        /\ promised' = (promised \/ (Handler[kind].sends /\ Promises))
        /\ UNCHANGED <<sapiVars, fault, queueVars, slotVars, exportVars,
                       traces, openKey, moved, optOut, bailed, late, unsampledRun>>
    BY <1>2 DEF CallBegin
  <2>2. PICK s \in Spans \ live : AddChild(s, Child) /\ Push(kind, s)
    BY <1>2 DEF CallBegin
  <2>3. live' \subseteq Spans /\ span' \in [Spans -> SpanRecord]
    BY <2>1, <2>2, ChildType DEF AddChild, TypeOK
  <2>4. frames' \in Seq(Frame)
    BY <2>2 DEF Push, Frame, TypeOK
  <2>5. promised' \in BOOLEAN
    BY <2>1, Zenon
  <2>6. QED
    BY <2>1, <2>3, <2>4, <2>5 DEF TypeOK, sapiVars, queueVars, slotVars, exportVars
<1>3. QED
  BY <1>1, <1>2

LEMMA CallBeginUntracedType ==
  ASSUME TypeOK, NEW kind \in Kinds, CallBeginUntraced(kind)
  PROVE  TypeOK'
<1>1. frames' \in Seq(Frame)
  BY DEF CallBeginUntraced, Push, Frame, TypeOK
<1>2. fault' \in Faults
  BY DEF CallBeginUntraced, Faults
<1>3. UNCHANGED <<sapiVars, queueVars, slotVars, heapVars, exportVars, historyVars>>
  BY DEF CallBeginUntraced
<1>4. QED
  BY <1>1, <1>2, <1>3 DEF TypeOK, sapiVars, queueVars, slotVars, heapVars, exportVars, historyVars

LEMMA PopType ==
  ASSUME TypeOK, frames # <<>>
  PROVE  /\ SubSeq(frames, 1, Len(frames) - 1) \in Seq(Frame)
         /\ Len(SubSeq(frames, 1, Len(frames) - 1)) = Len(frames) - 1
         /\ \A i \in 1 .. Len(frames) - 1 : SubSeq(frames, 1, Len(frames) - 1)[i] = frames[i]
         /\ Len(frames) \in Nat \ {0} /\ DOMAIN frames = 1 .. Len(frames) /\ Top \in Frame
<1>1. frames \in Seq(Frame) /\ Len(frames) \in Nat \ {0} /\ DOMAIN frames = 1 .. Len(frames)
      /\ \A i \in 1 .. Len(frames) : frames[i] \in Frame
  BY EmptySeq, LenProperties, ElementOfSeq DEF TypeOK
<1>2. QED
  BY <1>1, SubSeqProperties DEF Top

LEMMA SampledAfterType ==
  ASSUME TypeOK, NEW status
  PROVE  /\ SampledAfter(status) \in [Keys -> BOOLEAN]
         /\ OptOutAfter(status) \in BOOLEAN
         /\ \A k \in Keys : sampled[k] => SampledAfter(status)[k]
         /\ status = "error" => SampledAfter(status)[ppid]
BY KeysAreNat DEF SampledAfter, OptOutAfter, TypeOK

LEMMA EndStatusType ==
  ASSUME NEW kind \in Kinds, NEW status \in EndStatus(kind)
  PROVE  status \in {"ok", "error"}
BY DEF EndStatus

(* What a call that ends does while the process lives. *)
CallReturns ==
    /\ UNCHANGED <<sapiVars, queueVars, live, exportVars,
                   traces, openKey, moved, promised, bailed, late, unsampledRun>>
    /\ \/ /\ ~provider /\ Pop
          /\ UNCHANGED <<fault, slotVars, span, optOut>>
       \/ \E status \in EndStatus(Top.kind) :
             /\ span' = IF Top.span \in live
                          THEN [span EXCEPT ![Top.span] = FinishedAs(Top.kind, @, status)]
                          ELSE span
             /\ fault' \in IF ~provider /\ status = "error" THEN {"dangling"}
                          ELSE IF Top.span \in live THEN {"none"} ELSE {"none", "dangling"}
             /\ sampled' = IF provider THEN SampledAfter(status) ELSE sampled
             /\ redisException' = ClearedException(Top.kind)
             /\ optOut' = OptOutAfter(status)
             /\ IF fault' = "none" THEN Pop ELSE frames' = frames
             /\ UNCHANGED <<request, firstSpan, baggage>>

LEMMA CallEndCases ==
  ASSUME CallEnd
  PROVE  /\ Running /\ frames # <<>>
         /\ CallReturns \/ (Handler[Top.kind].trusts = "result" /\ Dies("unchecked"))
BY Zenon DEF CallEnd, CallReturns

LEMMA CallEndType ==
  ASSUME TypeOK, CallEnd
  PROVE  TypeOK'
<1>1. CASE Dies("unchecked")
  BY <1>1, DiesType DEF Faults
<1>2. CASE CallReturns
  <2>1. frames # <<>>
    BY CallEndCases
  <2>2. Top \in Frame /\ Top.kind \in Kinds /\ Top.span \in Spans \cup {NoSpan}
    BY <2>1, PopType DEF Frame
  <2>3. /\ frames' \in Seq(Frame) /\ fault' \in Faults
        /\ request' \in [Keys -> BOOLEAN] /\ firstSpan' \in [Keys -> Spans \cup {NoSpan}]
        /\ sampled' \in [Keys -> BOOLEAN] /\ redisException' \in [Keys -> BOOLEAN]
        /\ baggage' \in [Keys -> BOOLEAN] /\ span' \in [Spans -> SpanRecord]
        /\ optOut' \in BOOLEAN
    <3>1. CASE Pop /\ UNCHANGED <<fault, slotVars, span, optOut>>
      BY <2>1, <3>1, PopType DEF Pop, TypeOK, slotVars
    <3>2. CASE ~(Pop /\ UNCHANGED <<fault, slotVars, span, optOut>>)
      <4>1. PICK status \in EndStatus(Top.kind) :
              /\ span' = IF Top.span \in live
                           THEN [span EXCEPT ![Top.span] = FinishedAs(Top.kind, @, status)]
                           ELSE span
              /\ fault' \in {"none", "dangling"}
              /\ sampled' = IF provider THEN SampledAfter(status) ELSE sampled
              /\ redisException' = ClearedException(Top.kind)
              /\ optOut' = OptOutAfter(status)
              /\ IF fault' = "none" THEN Pop ELSE frames' = frames
              /\ UNCHANGED <<request, firstSpan, baggage>>
        BY <1>2, <3>2 DEF CallReturns
      <4>2. status \in {"ok", "error"}
        BY <2>2, <4>1, EndStatusType
      <4>3. span' \in [Spans -> SpanRecord]
        BY <4>1, <4>2, FinishedAsType DEF TypeOK
      <4>4. frames' \in Seq(Frame)
        BY <2>1, <4>1, PopType DEF Pop, TypeOK
      <4>5. redisException' \in [Keys -> BOOLEAN]
        BY <4>1 DEF ClearedException, TypeOK
      <4>6. sampled' \in [Keys -> BOOLEAN] /\ optOut' \in BOOLEAN
        BY <4>1, SampledAfterType DEF TypeOK
      <4>7. QED
        BY <4>1, <4>3, <4>4, <4>5, <4>6 DEF TypeOK, Faults
    <3>3. QED
      BY <3>1, <3>2
  <2>4. UNCHANGED <<sapiVars, queueVars, live, exportVars,
                    traces, openKey, moved, promised, bailed, late, unsampledRun>>
    BY <1>2 DEF CallReturns
  <2>5. QED
    BY <2>3, <2>4 DEF TypeOK, sapiVars, queueVars, exportVars
<1>3. QED
  BY <1>1, <1>2, CallEndCases

LEMMA ErrorCallbackType ==
  ASSUME TypeOK, NEW reported \in BOOLEAN, NEW nocode \in BOOLEAN, ErrorCallback(reported, nocode)
  PROVE  TypeOK'
<1> DEFINE status == IF reported THEN "error" ELSE "ok"
<1>1. CASE CrashOnNullSpan
  BY <1>1, CrashType
<1>2. CASE ~CrashOnNullSpan
  <2>1. /\ HasFirstSpan
        /\ sampled' = SampledAfter(status) /\ optOut' = OptOutAfter(status)
        /\ UNCHANGED <<sapiVars, fault, queueVars, request, firstSpan, redisException,
                       baggage, frames, exportVars, traces, openKey, moved, promised, bailed, late,
                       unsampledRun>>
    BY <1>2 DEF ErrorCallback
  <2>2. PICK s \in Spans \ live :
           /\ live' = live \cup {s}
           /\ span' = [x \in Spans |->
                         IF x = s THEN EndedAs(Child, status)
                         ELSE IF x = firstSpan[ppid] /\ reported /\ nocode THEN ErrorEnd(span[x])
                         ELSE span[x]]
    BY <1>2 DEF ErrorCallback
  <2>3. EndedAs(Child, status) \in SpanRecord
    BY <2>1, ChildType, EndedAsType
  <2> HIDE DEF status
  <2>4. live' \subseteq Spans /\ span' \in [Spans -> SpanRecord]
    BY <2>2, <2>3, ErrorEndType DEF TypeOK
  <2>5. QED
    BY <2>1, <2>4, SampledAfterType DEF TypeOK, sapiVars, queueVars, exportVars
<1>3. QED
  BY <1>1, <1>2

(* What an exception that is thrown does while the process lives. *)
Thrown(isRedis, native) ==
    IF native THEN [frames EXCEPT ![Len(frames)].threw = IF isRedis THEN "redis" ELSE "other"]
              ELSE frames

NotRecorded(isRedis, native) ==
    /\ frames' = Thrown(isRedis, native)
    /\ UNCHANGED <<fault, slotVars, heapVars, optOut>>
    /\ UNCHANGED <<sapiVars, queueVars, exportVars,
                   traces, openKey, moved, promised, bailed, late, unsampledRun>>

Recorded(isRedis, native) ==
    /\ HasFirstSpan
    /\ \E s \in Spans \ live : AddChild(s, ErrorEnd(Child))
    /\ sampled' = SampledAfter("error")
    /\ optOut' = OptOutAfter("error")
    /\ redisException' = [redisException EXCEPT ![ppid] = @ \/ isRedis]
    /\ frames' = Thrown(isRedis, native)
    /\ UNCHANGED <<sapiVars, fault, queueVars, request, firstSpan, baggage, exportVars,
                   traces, openKey, moved, promised, bailed, late, unsampledRun>>

LEMMA ThrowExceptionCases ==
  ASSUME NEW isRedis, NEW native, ThrowException(isRedis, native)
  PROVE  /\ Running /\ provider /\ UserCode
         /\ native => frames # <<>> /\ (isRedis => Handler[Top.kind].fails = "exception")
         /\ \/ CrashOnNullSpan
            \/ CrashOnUnchecked
            \/ Php8 /\ NotRecorded(isRedis, native)
            \/ ~Php8 /\ Recorded(isRedis, native)
BY Zenon DEF ThrowException, NotRecorded, Recorded, Thrown

(* The exception marks the innermost call and changes nothing else of it. *)
LEMMA ThrownCalls ==
  ASSUME TypeOK, NEW isRedis, NEW native, native => frames # <<>>,
         frames' = Thrown(isRedis, native)
  PROVE  /\ frames' \in Seq(Frame) /\ Len(frames') = Len(frames)
         /\ DOMAIN frames' = DOMAIN frames /\ (frames' = <<>> <=> frames = <<>>)
         /\ \A i \in DOMAIN frames : /\ frames'[i].kind = frames[i].kind
                                     /\ frames'[i].span = frames[i].span
                                     /\ frames'[i].gen = frames[i].gen
                                     /\ i # Len(frames) => frames'[i] = frames[i]
         /\ native => Top'.threw = IF isRedis THEN "redis" ELSE "other"
         /\ ~native => frames' = frames
<1>1. CASE native
  <2> DEFINE noted == IF isRedis THEN "redis" ELSE "other"
             e == [Top EXCEPT !.threw = noted]
  <2>1. frames # <<>> /\ frames' = [frames EXCEPT ![Len(frames)].threw = noted]
    BY <1>1 DEF Thrown
  <2>2. /\ Len(frames) \in Nat \ {0} /\ DOMAIN frames = 1 .. Len(frames) /\ Top \in Frame
        /\ frames \in Seq(Frame) /\ Top = frames[Len(frames)]
    BY <2>1, PopType DEF Top, TypeOK
  <2>3. /\ e \in Frame /\ e.kind = Top.kind /\ e.span = Top.span /\ e.gen = Top.gen
        /\ e.threw = noted
    BY <2>2 DEF Frame
  <2>4. frames' = [frames EXCEPT ![Len(frames)] = e]
    BY <2>1, <2>2
  <2> HIDE DEF e, noted
  <2>5. frames' \in Seq(Frame) /\ Len(frames') = Len(frames) /\ Len(frames) \in 1 .. Len(frames)
    BY <2>2, <2>3, <2>4, ExceptSeq
  <2>6. DOMAIN frames' = DOMAIN frames /\ frames' # <<>>
        /\ \A i \in DOMAIN frames : frames'[i] = IF i = Len(frames) THEN e ELSE frames[i]
    BY <2>2, <2>4, <2>5
  <2>7. Top' = e
    BY <2>2, <2>5, <2>6 DEF Top
  <2>8. QED
    BY <1>1, <2>1, <2>2, <2>3, <2>5, <2>6, <2>7 DEF noted
<1>2. CASE ~native
  BY <1>2 DEF Thrown, TypeOK
<1>3. QED
  BY <1>1, <1>2

LEMMA ThrowExceptionType ==
  ASSUME TypeOK, NEW isRedis \in BOOLEAN, NEW native \in BOOLEAN, ThrowException(isRedis, native)
  PROVE  TypeOK'
<1>1. CASE CrashOnNullSpan \/ CrashOnUnchecked
  BY <1>1, CrashType
<1>2. CASE NotRecorded(isRedis, native)
  <2>1. frames' \in Seq(Frame)
    BY <1>2, ThrowExceptionCases, ThrownCalls DEF NotRecorded
  <2>2. QED
    BY <1>2, <2>1
    DEF NotRecorded, TypeOK, sapiVars, queueVars, exportVars, slotVars, heapVars
<1>3. CASE Recorded(isRedis, native)
  <2>1. frames' \in Seq(Frame)
    BY <1>3, ThrowExceptionCases, ThrownCalls DEF Recorded
  <2>2. live' \subseteq Spans /\ span' \in [Spans -> SpanRecord]
    BY <1>3, ChildType, ErrorEndType DEF Recorded, AddChild, TypeOK
  <2>3. redisException' \in [Keys -> BOOLEAN]
    BY <1>3, KeysAreNat DEF Recorded, TypeOK
  <2>4. QED
    BY <1>3, <2>1, <2>2, <2>3, SampledAfterType
    DEF Recorded, TypeOK, sapiVars, queueVars, exportVars
<1>4. QED
  BY <1>1, <1>2, <1>3, ThrowExceptionCases

LEMMA AddSpanType ==
  ASSUME TypeOK, NEW status \in {"ok", "error"}, AddSpan(status)
  PROVE  TypeOK'
<1>1. CASE CrashOnNullSpan \/ CrashOnUnchecked
  BY <1>1, CrashType
<1>2. CASE ~CrashOnNullSpan /\ ~CrashOnUnchecked
  <2>1. /\ HasFirstSpan
        /\ \E s \in Spans \ live : AddChild(s, EndedAs(Child, status))
        /\ sampled' = SampledAfter(status) /\ optOut' = OptOutAfter(status)
        /\ UNCHANGED <<sapiVars, fault, queueVars, request, firstSpan, redisException,
                       baggage, frames, exportVars, traces, openKey, moved, promised, bailed, late,
                       unsampledRun>>
    BY <1>2 DEF AddSpan
  <2>2. live' \subseteq Spans /\ span' \in [Spans -> SpanRecord]
    BY <2>1, ChildType, EndedAsType DEF AddChild, TypeOK
  <2>3. QED
    BY <2>1, <2>2, SampledAfterType DEF TypeOK, sapiVars, queueVars, exportVars
<1>3. QED
  BY <1>1, <1>2

(* What setting the ratio does while the process lives. *)
RatioSet(ratio, fromCaller) ==
    /\ \E decision \in BOOLEAN :
          /\ sampled' = [sampled EXCEPT ![ppid] = decision]
          /\ ratio = "one" => decision
          /\ ratio = "other" /\ sampled[ppid] => decision
          /\ ratio = "zero" => ~decision
          /\ optOut' = IF ppid # openKey THEN optOut
                       ELSE (ratio = "zero" \/ (optOut /\ ~decision))
    /\ late' = (late \/ ~request[ppid])
    /\ UNCHANGED <<sapiVars, fault, queueVars, request, firstSpan, redisException,
                   baggage, heapVars, frames, exportVars,
                   traces, openKey, moved, promised, bailed, unsampledRun>>

LEMMA SetSampleRatioCases ==
  ASSUME TypeOK, NEW ratio \in {"zero", "one", "other"}, NEW fromCaller \in BOOLEAN,
         SetSampleRatio(ratio, fromCaller)
  PROVE  /\ Running /\ provider
         /\ \/ CrashOnUnchecked
            \/ Dies("div_zero") /\ SampleRatio = 0
            \/ RatioSet(ratio, fromCaller)
<1> DEFINE asksIni == ratio = "other" /\ ~fromCaller
           decision == CASE ratio = "zero" -> FALSE
                         [] ratio = "one"  -> TRUE
                         [] OTHER -> sampled[ppid] \/ (asksIni /\ counter % SampleRatio = 0)
<1>1. /\ decision \in BOOLEAN
      /\ ratio = "one" => decision
      /\ ratio = "other" /\ sampled[ppid] => decision
      /\ ratio = "zero" => ~decision
  BY KeysAreNat DEF TypeOK
<1> HIDE DEF decision
<1>2. \/ CrashOnUnchecked
      \/ Dies("div_zero") /\ SampleRatio = 0
      \/ /\ sampled' = [sampled EXCEPT ![ppid] = decision]
         /\ optOut' = IF ppid # openKey THEN optOut
                      ELSE (ratio = "zero" \/ (optOut /\ ~decision))
         /\ late' = (late \/ ~request[ppid])
         /\ UNCHANGED <<sapiVars, fault, queueVars, request, firstSpan, redisException,
                        baggage, heapVars, frames, exportVars,
                        traces, openKey, moved, promised, bailed, unsampledRun>>
  BY Zenon DEF SetSampleRatio, decision
<1>3. Running /\ provider
  BY DEF SetSampleRatio
<1>4. QED
  BY <1>1, <1>2, <1>3, Zenon DEF RatioSet

LEMMA SetSampleRatioType ==
  ASSUME TypeOK, NEW ratio \in {"zero", "one", "other"}, NEW fromCaller \in BOOLEAN,
         SetSampleRatio(ratio, fromCaller)
  PROVE  TypeOK'
<1>1. CASE CrashOnUnchecked
  BY <1>1, CrashType
<1>2. CASE Dies("div_zero")
  BY <1>2, DiesType DEF Faults
<1>3. CASE RatioSet(ratio, fromCaller)
  <2>1. sampled' \in [Keys -> BOOLEAN]
    BY <1>3, KeysAreNat DEF RatioSet, TypeOK
  <2>2. late' \in BOOLEAN
    BY <1>3, Zenon DEF RatioSet
  <2>3. optOut' \in BOOLEAN
    BY <1>3, Zenon DEF RatioSet, TypeOK
  <2>4. QED
    BY <1>3, <2>1, <2>2, <2>3 DEF RatioSet, TypeOK, sapiVars, queueVars, heapVars, exportVars
<1>4. QED
  BY <1>1, <1>2, <1>3, SetSampleRatioCases

LEMMA GetTraceparentType ==
  ASSUME TypeOK, GetTraceparent
  PROVE  TypeOK'
<1>1. CASE CrashOnNullSpan
  BY <1>1, CrashType
<1>2. CASE ~CrashOnNullSpan
  <2>1. /\ HasFirstSpan
        /\ promised' = (promised \/ Promises)
        /\ UNCHANGED <<sapiVars, fault, queueVars, slotVars, heapVars, frames, exportVars,
                       traces, openKey, moved, optOut, bailed, late, unsampledRun>>
    BY <1>2 DEF GetTraceparent
  <2>2. promised' \in BOOLEAN
    BY <2>1, Zenon
  <2>3. QED
    BY <2>1, <2>2 DEF TypeOK, sapiVars, queueVars, slotVars, heapVars, exportVars
<1>3. QED
  BY <1>1, <1>2

LEMMA AddToResourceType ==
  ASSUME TypeOK, NEW item \in BOOLEAN, AddToResource(item)
  PROVE  TypeOK'
<1>1. CASE CrashOnUnchecked
  BY <1>1, CrashType
<1>2. CASE ~CrashOnUnchecked
  <2>1. fault' \in Faults
    BY <1>2 DEF AddToResource, Faults
  <2>2. baggage' \in [Keys -> BOOLEAN] /\ late' \in BOOLEAN
    BY <1>2, KeysAreNat DEF AddToResource, TypeOK
  <2>3. UNCHANGED <<sapiVars, queueVars, request, firstSpan, sampled, redisException,
                    heapVars, frames, exportVars,
                    traces, openKey, moved, promised, optOut, bailed, unsampledRun>>
    BY <1>2 DEF AddToResource
  <2>4. QED
    BY <2>1, <2>2, <2>3 DEF TypeOK, sapiVars, queueVars, heapVars, exportVars
<1>3. QED
  BY <1>1, <1>2

LEMMA AgedType ==
  ASSUME TypeOK, HasFirstSpan
  PROVE  /\ [span[firstSpan[ppid]] EXCEPT !.old = TRUE] \in SpanRecord
         /\ [span EXCEPT ![firstSpan[ppid]].old = TRUE]
              = [span EXCEPT ![firstSpan[ppid]] = [span[firstSpan[ppid]] EXCEPT !.old = TRUE]]
         /\ \A f \in {"key", "tid", "parent", "status", "ended"} :
               [span[firstSpan[ppid]] EXCEPT !.old = TRUE][f] = span[firstSpan[ppid]][f]
<1> DEFINE r == span[firstSpan[ppid]]
<1>1. r \in SpanRecord /\ firstSpan[ppid] \in Spans /\ span \in [Spans -> SpanRecord]
  BY KeysAreNat DEF TypeOK, HasFirstSpan
<1>2. [span EXCEPT ![firstSpan[ppid]].old = TRUE]
        = [span EXCEPT ![firstSpan[ppid]] = [r EXCEPT !.old = TRUE]]
  BY <1>1
<1> HIDE DEF r
<1>3. /\ [r EXCEPT !.old = TRUE] \in SpanRecord
      /\ \A f \in {"key", "tid", "parent", "status", "ended"} : [r EXCEPT !.old = TRUE][f] = r[f]
  BY <1>1 DEF SpanRecord
<1>4. QED
  BY <1>2, <1>3 DEF r

LEMMA EnvironmentType ==
  ASSUME TypeOK, Elapse \/ Reparent \/ ModuleShutdown \/ Bailout \/ AddAttribute
  PROVE  TypeOK'
<1>1. CASE Elapse
  <2>1. span' \in [Spans -> SpanRecord]
    BY <1>1, AgedType, KeysAreNat DEF Elapse, TypeOK, HasFirstSpan
  <2>2. QED
    BY <1>1, <2>1 DEF Elapse, TypeOK, sapiVars, queueVars, slotVars, exportVars, historyVars
<1>2. CASE Reparent
  BY <1>2 DEF Reparent, TypeOK, queueVars, slotVars, heapVars, exportVars, historyVars
<1>3. CASE ModuleShutdown
  BY <1>3 DEF ModuleShutdown, TypeOK, slotVars, heapVars, exportVars, historyVars
<1>4. CASE Bailout
  <2>1. frames' \in Seq(Frame)
    BY <1>4, EmptySeq DEF Bailout
  <2>2. QED
    BY <1>4, <2>1 DEF Bailout, TypeOK, sapiVars, queueVars, slotVars, heapVars, exportVars
<1>5. CASE AddAttribute
  BY <1>5, CrashType DEF AddAttribute
<1>6. QED
  BY <1>1, <1>2, <1>3, <1>4, <1>5

LEMMA StutterType ==
  ASSUME TypeOK, UNCHANGED vars
  PROVE  TypeOK'
BY DEF TypeOK, vars, sapiVars, queueVars, slotVars, heapVars, exportVars, historyVars

LEMMA NextType == TypeOK /\ [Next]_vars => TypeOK'
<1> SUFFICES ASSUME TypeOK, [Next]_vars PROVE TypeOK'
  OBVIOUS
<1>1. ASSUME NEW header \in Headers, NEW item \in BOOLEAN, RequestInit(header, item) PROVE TypeOK'
  <2>1. CASE Dies("server")
    BY <2>1, DiesType DEF Faults
  <2>2. CASE phase' = "script" /\ started' = started /\ StartTracer(header, item)
    BY <2>2, StartTracerType DEF TypeOK
  <2>3. QED
    BY <1>1, <2>1, <2>2 DEF RequestInit
<1>2. ASSUME NEW header \in Headers, NEW item \in BOOLEAN, StartCliTracer(header, item) PROVE TypeOK'
  <2>1. CASE Dies("server")
    BY <2>1, DiesType DEF Faults
  <2>2. CASE phase' = phase /\ started' = TRUE /\ StartTracer(header, item)
    BY <2>2, StartTracerType DEF TypeOK
  <2>3. QED
    BY <1>2, <2>1, <2>2 DEF StartCliTracer
<1>3. CASE RequestShutdown \/ ShutdownCliTracer
  BY <1>3, ShutdownTracerType DEF RequestShutdown, ShutdownCliTracer, TypeOK
<1>4. ASSUME NEW kind \in Kinds, CallBegin(kind) PROVE TypeOK'
  BY <1>4, CallBeginType
<1>5. ASSUME NEW kind \in Kinds, CallBeginUntraced(kind) PROVE TypeOK'
  BY <1>5, CallBeginUntracedType
<1>6. CASE CallEnd
  BY <1>6, CallEndType
<1>7. ASSUME NEW reported \in BOOLEAN, NEW nocode \in BOOLEAN, ErrorCallback(reported, nocode)
      PROVE TypeOK'
  BY <1>7, ErrorCallbackType
<1>8. ASSUME NEW isRedis \in BOOLEAN, NEW native \in BOOLEAN, ThrowException(isRedis, native)
      PROVE TypeOK'
  BY <1>8, ThrowExceptionType
<1>9. ASSUME NEW status \in {"ok", "error"}, AddSpan(status) PROVE TypeOK'
  BY <1>9, AddSpanType
<1>10. ASSUME NEW ratio \in {"zero", "one", "other"}, NEW fromCaller \in BOOLEAN,
              SetSampleRatio(ratio, fromCaller)
       PROVE  TypeOK'
  BY <1>10, SetSampleRatioType
<1>11. CASE GetTraceparent
  BY <1>11, GetTraceparentType
<1>12. ASSUME NEW item \in BOOLEAN, AddToResource(item) PROVE TypeOK'
  BY <1>12, AddToResourceType
<1>13. CASE Elapse \/ Reparent \/ ModuleShutdown \/ Bailout \/ AddAttribute
  BY <1>13, EnvironmentType
<1>14. CASE UNCHANGED vars
  BY <1>14, StutterType
<1>15. QED
  BY <1>1, <1>2, <1>3, <1>4, <1>5, <1>6, <1>7, <1>8, <1>9, <1>10, <1>11, <1>12, <1>13, <1>14
  DEF Next

(* Every variable of the process keeps its type. *)
THEOREM TypeCorrect == Spec => []TypeOK
BY InitType, NextType, PTL DEF Spec

-----------------------------------------------------------------------------
(* The inductive invariant. *)

Keeps(s) == /\ span'[s].key = span[s].key
            /\ span'[s].tid = span[s].tid
            /\ span'[s].parent = span[s].parent

(* A step inside a trace: what it allocates are children of the first span.  *)
Grows ==
    /\ UNCHANGED <<phase, ppid, provider, started, request, firstSpan, traces, openKey, moved>>
    /\ live \subseteq live'
    /\ \A s \in live : Keeps(s)
    /\ \A s \in live' \ live : /\ HasFirstSpan
                               /\ span'[s].key = ppid
                               /\ span'[s].parent = "first"
                               /\ span'[s].tid = span[firstSpan[ppid]].tid
    /\ \A k \in Keys : redisException'[k] => request[k]

SameCalls ==
    /\ DOMAIN frames' = DOMAIN frames
    /\ \A i \in DOMAIN frames : /\ frames'[i].span = frames[i].span
                                /\ frames'[i].gen = frames[i].gen
    /\ frames' = <<>> <=> frames = <<>>

-----------------------------------------------------------------------------
(* Facts about a state of TracerInv. *)

LEMMA FrameFacts ==
  ASSUME TypeOK
  PROVE  /\ Len(frames) \in Nat /\ DOMAIN frames = 1 .. Len(frames)
         /\ \A i \in DOMAIN frames : /\ frames[i] \in Frame
                                     /\ frames[i].span \in Spans \cup {NoSpan}
                                     /\ frames[i].gen \in Nat
         /\ frames # <<>> <=> Len(frames) # 0
<1>1. frames \in Seq(Frame)
  BY DEF TypeOK
<1>2. /\ Len(frames) \in Nat /\ DOMAIN frames = 1 .. Len(frames)
      /\ \A i \in 1 .. Len(frames) : frames[i] \in Frame
      /\ frames # <<>> <=> Len(frames) # 0
  BY <1>1, EmptySeq, LenProperties, ElementOfSeq
<1>3. QED
  BY <1>2 DEF Frame

(* What the first span of the current key is.                                *)
LEMMA FirstIsOpen ==
  ASSUME TracerInv, HasFirstSpan
  PROVE  /\ ~moved => ppid = openKey
         /\ request[ppid] /\ ppid \in Keys /\ ppid # NoKey
         /\ firstSpan[ppid] \in live /\ span[firstSpan[ppid]].key = ppid
BY KeysAreNat DEF TracerInv, TypeOK, SlotInv, ProviderInv, HasFirstSpan

LEMMA NoProviderNoTrace ==
  ASSUME TracerInv, ~provider
  PROVE  /\ ~Open
         /\ \A s \in live : span[s].key = NoKey
         /\ \A k \in Keys : ~request[k]
<1>1. \A k \in Keys : ~request[k]
  BY DEF TracerInv, ProviderInv
<1>2. ~Open
  <2>1. CASE Cli
    BY <2>1 DEF TracerInv, ProviderInv, Open
  <2>2. CASE ~Cli
    BY <2>2 DEF TracerInv, ProviderInv, Open
  <2>3. QED
    BY <2>1, <2>2
<1>3. ASSUME NEW s \in live PROVE span[s].key = NoKey
  <2>1. span[s] \in SpanRecord
    BY DEF TracerInv, TypeOK
  <2>2. span[s].key \in Keys
    BY <2>1 DEF SpanRecord
  <2>3. QED
    BY <1>1, <2>2 DEF TracerInv, TreeInv
<1>4. QED
  BY <1>1, <1>2, <1>3

LEMMA NullFirstIsElsewhere ==
  ASSUME TracerInv, Running, provider, ~request[ppid]
  PROVE  IF Cli THEN ppid # openKey ELSE phase = "idle"
BY KeysAreNat DEF TracerInv, TypeOK, ProviderInv, Running

LEMMA NullFirstHasNoRequest ==
  ASSUME TracerInv, NullFirstSpan
  PROVE  provider /\ ~request[ppid]
BY KeysAreNat DEF TracerInv, TypeOK, SlotInv, NullFirstSpan

-----------------------------------------------------------------------------
(* What the classes of steps preserve. *)

LEMMA GrowsSlots ==
  ASSUME TracerInv, TypeOK', Grows
  PROVE  SlotInv' /\ ProviderInv'
<1>1. SlotInv'
  BY KeysAreNat DEF TracerInv, TypeOK, SlotInv, Grows, Keeps
<1>2. ProviderInv'
  BY DEF TracerInv, ProviderInv, Grows
<1>3. QED
  BY <1>1, <1>2

LEMMA GrowsTree ==
  ASSUME TracerInv, TypeOK', Grows
  PROVE  TreeInv'
<1>1. ASSUME NEW s \in live', span'[s].key # NoKey PROVE request'[span'[s].key]
  BY <1>1, FirstIsOpen DEF TracerInv, TreeInv, Grows, Keeps
<1>2. ASSUME NEW k \in Keys, request'[k]
      PROVE  /\ firstSpan'[k] = firstSpan[k] /\ firstSpan[k] \in live
             /\ span'[firstSpan'[k]].parent # "first"
             /\ span'[firstSpan'[k]].parent = "remote" <=> span'[firstSpan'[k]].tid = RemoteTrace
  BY <1>2 DEF TracerInv, TreeInv, SlotInv, Grows, Keeps
<1>3. ASSUME NEW k \in Keys, request'[k], NEW s \in live', span'[s].key = k, s # firstSpan'[k]
      PROVE  span'[s].parent = "first" /\ span'[s].tid = span'[firstSpan'[k]].tid
  <2>1. firstSpan'[k] = firstSpan[k] /\ firstSpan[k] \in live /\ request[k]
    BY <1>2, <1>3 DEF Grows
  <2>2. CASE s \in live
    BY <1>3, <2>1, <2>2 DEF TracerInv, TreeInv, Grows, Keeps
  <2>3. CASE s \notin live
    <3>1. HasFirstSpan /\ k = ppid /\ span'[s].parent = "first"
          /\ span'[s].tid = span[firstSpan[ppid]].tid
      BY <1>3, <2>3 DEF Grows
    <3>2. span'[firstSpan[k]].tid = span[firstSpan[k]].tid
      BY <2>1 DEF Grows, Keeps
    <3>3. QED
      BY <2>1, <3>1, <3>2
  <2>4. QED
    BY <2>2, <2>3
<1>4. QED
  BY <1>1, <1>2, <1>3 DEF TreeInv

LEMMA GrowsCalls ==
  ASSUME TracerInv, TypeOK', Grows, SameCalls,
         \A i \in DOMAIN frames : ~Stale(frames[i]) => ~span'[frames[i].span].ended
  PROVE  NestingInv' /\ OpenCallOwnsItsSpan'
<1>1. NestingInv'
  BY FrameFacts DEF TracerInv, NestingInv, Grows, SameCalls
<1>2. \A i \in DOMAIN frames : Stale(frames[i])' <=> Stale(frames[i])
  BY DEF Stale, SameCalls, Grows, Open
<1>3. ASSUME NEW i \in DOMAIN frames', ~Stale(frames[i])'
      PROVE  LET s == frames'[i].span
             IN /\ s \in live'
                /\ request'[span'[s].key] /\ s # firstSpan'[span'[s].key]
                /\ span'[s].key = openKey' \/ moved'
                /\ ~span'[s].ended
                /\ \A j \in DOMAIN frames' : frames'[j].span = s /\ ~Stale(frames[j])' => j = i
  <2>1. i \in DOMAIN frames /\ ~Stale(frames[i]) /\ frames'[i].span = frames[i].span
    BY <1>2, <1>3 DEF SameCalls
  <2> DEFINE s == frames[i].span
  <2>2. /\ s \in live /\ request[span[s].key] /\ s # firstSpan[span[s].key]
        /\ span[s].key = openKey \/ moved
        /\ \A j \in DOMAIN frames : frames[j].span = s /\ ~Stale(frames[j]) => j = i
    BY <2>1 DEF TracerInv, OpenCallOwnsItsSpan
  <2>3. \A j \in DOMAIN frames' : frames'[j].span = s /\ ~Stale(frames[j])' => j = i
    BY <1>2, <2>2 DEF SameCalls
  <2>4. /\ s \in live' /\ request'[span'[s].key] /\ s # firstSpan'[span'[s].key]
        /\ (span'[s].key = openKey' \/ moved') /\ ~span'[s].ended
    BY <2>1, <2>2 DEF Grows, Keeps
  <2>5. QED
    BY <2>1, <2>3, <2>4
<1>4. QED
  BY <1>1, <1>3 DEF OpenCallOwnsItsSpan

(* err: the step records an error in the trace of the current key. *)
LEMMA GrowsSampled ==
  ASSUME TracerInv, TypeOK', Grows, NEW err \in BOOLEAN,
         \A k \in Keys : sampled[k] => sampled'[k],
         err => sampled'[ppid],
         optOut => optOut' \/ (err /\ ppid = openKey),
         \A s \in live' : span'[s].status = "error" =>
             err \/ (s \in live /\ span[s].status = "error")
  PROVE  ErrorIsSampled'
<1> SUFFICES ASSUME NEW s \in live', span'[s].status = "error", span'[s].key = openKey',
                    ~optOut', ~moved'
             PROVE  sampled'[openKey']
  BY DEF ErrorIsSampled
<1>1. openKey' = openKey /\ ppid' = ppid /\ openKey \in Keys /\ ~moved /\ ppid = openKey
  BY KeysAreNat DEF Grows, TracerInv, TypeOK, ProviderInv
<1>2. CASE err
  BY <1>1, <1>2
<1>3. CASE ~err
  <2>1. s \in live /\ span[s].status = "error" /\ ~optOut
    BY <1>3
  <2>2. span[s].key = openKey
    BY <1>1, <2>1 DEF Grows, Keeps
  <2>3. sampled[openKey]
    BY <1>1, <2>1, <2>2 DEF TracerInv, ErrorIsSampled
  <2>4. QED
    BY <1>1, <2>3
<1>4. QED
  BY <1>2, <1>3

LEMMA NoFaultExplained ==
  ASSUME fault' = "none"
  PROVE  FaultExplained'
BY DEF FaultExplained

(* The steps of an open trace that neither begin nor end a call.             *)
LEMMA GrowsInv ==
  ASSUME TracerInv, TypeOK', Grows, SameCalls, FaultExplained', NEW err \in BOOLEAN,
         \A i \in DOMAIN frames : ~Stale(frames[i]) => ~span'[frames[i].span].ended,
         \A k \in Keys : sampled[k] => sampled'[k],
         err => sampled'[ppid],
         optOut => optOut' \/ (err /\ ppid = openKey),
         \A s \in live' : span'[s].status = "error" =>
             err \/ (s \in live /\ span[s].status = "error")
  PROVE  TracerInv'
BY GrowsSlots, GrowsTree, GrowsCalls, GrowsSampled DEF TracerInv

(* The steps that write neither to the heap nor to a slot TracerInv reads.   *)
Quiet == UNCHANGED <<phase, ppid, provider, started, request, firstSpan, redisException,
                     live, span, traces, openKey, moved>>

LEMMA QuietGrows ==
  ASSUME TracerInv, Quiet
  PROVE  /\ Grows
         /\ \A i \in DOMAIN frames : ~Stale(frames[i]) => ~span'[frames[i].span].ended
         /\ \A s \in live' : span'[s].status = "error" => s \in live /\ span[s].status = "error"
BY DEF Quiet, Grows, Keeps, TracerInv, SlotInv, OpenCallOwnsItsSpan

(* A cause of death that FaultExplained allows in this state. *)
Explained(cause) ==
    \/ cause = "null_span" /\ IF Cli THEN ppid # openKey ELSE phase = "idle"
    \/ cause = "server" /\ ~Open
    \/ cause = "div_zero" /\ SampleRatio = 0
    \/ cause = "unchecked" /\ (provider \/ (frames # <<>> /\ Handler[Top.kind].trusts = "result"))

LEMMA DiesInv ==
  ASSUME TracerInv, TypeOK', NEW cause, Dies(cause), Explained(cause)
  PROVE  TracerInv'
<1>1. /\ Quiet /\ sampled' = sampled /\ optOut' = optOut /\ frames' = frames /\ fault' = cause
      /\ Top' = Top
  BY DEF Dies, Quiet, sapiVars, slotVars, heapVars, historyVars, Top
<1>2. FaultExplained'
  BY <1>1 DEF FaultExplained, Explained, Quiet, Open
<1>3. QED
  BY <1>1, <1>2, QuietGrows, GrowsInv DEF SameCalls

LEMMA CrashInv ==
  ASSUME TracerInv, TypeOK', Running, CrashOnNullSpan \/ CrashOnUnchecked
  PROVE  TracerInv'
<1>1. CASE CrashOnNullSpan
  <2>1. Dies("null_span") /\ Explained("null_span")
    BY <1>1, NullFirstHasNoRequest, NullFirstIsElsewhere DEF CrashOnNullSpan, Explained
  <2>2. QED
    BY <2>1, DiesInv
<1>2. CASE CrashOnUnchecked
  BY <1>2, DiesInv DEF CrashOnUnchecked, Explained
<1>3. QED
  BY <1>1, <1>2

LEMMA GetTraceparentInv ==
  ASSUME TracerInv, TypeOK', GetTraceparent
  PROVE  TracerInv'
<1>1. CASE CrashOnNullSpan
  BY <1>1, CrashInv DEF GetTraceparent
<1>2. CASE ~CrashOnNullSpan
  <2>1. Quiet /\ sampled' = sampled /\ optOut' = optOut /\ frames' = frames /\ fault' = fault
        /\ fault = "none"
    BY <1>2 DEF GetTraceparent, Quiet, sapiVars, slotVars, heapVars, Running
  <2>2. QED
    BY <2>1, QuietGrows, GrowsInv, NoFaultExplained DEF SameCalls
<1>3. QED
  BY <1>1, <1>2

LEMMA AddToResourceInv ==
  ASSUME TracerInv, TypeOK', NEW item \in BOOLEAN, AddToResource(item)
  PROVE  TracerInv'
<1>1. CASE CrashOnUnchecked
  BY <1>1, CrashInv DEF AddToResource
<1>2. CASE ~CrashOnUnchecked
  <2>1. Quiet /\ sampled' = sampled /\ optOut' = optOut /\ frames' = frames
    BY <1>2 DEF AddToResource, Quiet, sapiVars, heapVars
  <2>2. FaultExplained'
    <3>1. CASE fault' = "none"
      BY <3>1, NoFaultExplained
    <3>2. CASE fault' # "none"
      <4>1. fault' = "resource" /\ ~request[ppid] /\ provider /\ Running
        BY <1>2, <3>2 DEF AddToResource
      <4>2. QED
        BY <2>1, <4>1, NullFirstIsElsewhere DEF FaultExplained, Quiet
    <3>3. QED
      BY <3>1, <3>2
  <2>3. QED
    BY <2>1, <2>2, QuietGrows, GrowsInv DEF SameCalls
<1>3. QED
  BY <1>1, <1>2

LEMMA SetSampleRatioInv ==
  ASSUME TracerInv, TypeOK', NEW ratio \in {"zero", "one", "other"}, NEW fromCaller \in BOOLEAN,
         SetSampleRatio(ratio, fromCaller)
  PROVE  TracerInv'
<1>a. /\ Running /\ provider
      /\ \/ CrashOnUnchecked
         \/ Dies("div_zero") /\ SampleRatio = 0
         \/ RatioSet(ratio, fromCaller)
  BY SetSampleRatioCases DEF TracerInv
<1>1. CASE CrashOnUnchecked
  BY <1>1, <1>a, CrashInv
<1>2. CASE SampleRatio = 0 /\ Dies("div_zero")
  BY <1>2, DiesInv DEF Explained
<1>3. CASE RatioSet(ratio, fromCaller)
  <2>1. Quiet /\ frames' = frames /\ fault' = "none"
    BY <1>3, <1>a DEF RatioSet, Quiet, sapiVars, heapVars, Running
  <2>2. Grows /\ SameCalls
    BY <2>1, QuietGrows DEF SameCalls
  <2>3. SlotInv' /\ ProviderInv' /\ TreeInv' /\ NestingInv' /\ OpenCallOwnsItsSpan'
    BY <2>1, <2>2, QuietGrows, GrowsSlots, GrowsTree, GrowsCalls
  <2>4. ErrorIsSampled'
    <3> SUFFICES ASSUME NEW s \in live', span'[s].status = "error", span'[s].key = openKey',
                        ~optOut', ~moved'
                 PROVE  sampled'[openKey']
      BY DEF ErrorIsSampled
    <3>1. PICK decision \in BOOLEAN :
             /\ sampled' = [sampled EXCEPT ![ppid] = decision]
             /\ ratio = "one" => decision
             /\ ratio = "other" /\ sampled[ppid] => decision
             /\ optOut' = IF ppid # openKey THEN optOut
                          ELSE (ratio = "zero" \/ (optOut /\ ~decision))
      BY <1>3 DEF RatioSet
    <3>2. ppid = openKey /\ openKey' = openKey /\ s \in live /\ span[s].status = "error"
          /\ span[s].key = openKey /\ ~moved
      BY <2>1 DEF Quiet, TracerInv, ProviderInv
    <3>3. ratio # "zero" /\ (optOut => decision)
      BY <3>1, <3>2, Zenon
    <3>4. ~optOut => sampled[ppid]
      BY <3>2 DEF TracerInv, ErrorIsSampled
    <3>5. decision
      BY <3>1, <3>3, <3>4
    <3>6. QED
      BY <3>1, <3>2, <3>5, KeysAreNat DEF TracerInv, TypeOK
  <2>5. QED
    BY <2>1, <2>3, <2>4, NoFaultExplained DEF TracerInv
<1>4. QED
  BY <1>a, <1>1, <1>2, <1>3

LEMMA ElapseInv ==
  ASSUME TracerInv, TypeOK', Elapse
  PROVE  TracerInv'
<1> DEFINE first == firstSpan[ppid]
           aged == [span[first] EXCEPT !.old = TRUE]
<1>1. UNCHANGED <<sapiVars, fault, queueVars, slotVars, live, frames, exportVars, historyVars>>
      /\ HasFirstSpan /\ fault = "none"
  BY DEF Elapse, Running
<1>2. /\ span' = [span EXCEPT ![first] = aged]
      /\ aged.key = span[first].key /\ aged.tid = span[first].tid
      /\ aged.parent = span[first].parent /\ aged.status = span[first].status
      /\ aged.ended = span[first].ended
  BY <1>1, AgedType DEF Elapse, TracerInv
<1> HIDE DEF aged
<1>3. \A s \in Spans : /\ Keeps(s)
                      /\ span'[s].status = span[s].status
                      /\ span'[s].ended = span[s].ended
  BY <1>2 DEF Keeps, TracerInv, TypeOK
<1>4. live \subseteq Spans
  BY DEF TracerInv, TypeOK
<1>5. Grows /\ SameCalls
  BY <1>1, <1>3, <1>4 DEF Grows, SameCalls, sapiVars, slotVars, historyVars, TracerInv, SlotInv
<1>6. \A i \in DOMAIN frames : ~Stale(frames[i]) => ~span'[frames[i].span].ended
  BY <1>3, <1>4 DEF TracerInv, OpenCallOwnsItsSpan
<1>7. QED
  BY <1>1, <1>3, <1>4, <1>5, <1>6, GrowsInv, NoFaultExplained DEF slotVars, historyVars

-----------------------------------------------------------------------------
(* The steps that allocate a child of the first span. *)

LEMMA AddChildGrows ==
  ASSUME TracerInv, HasFirstSpan, NEW s \in Spans \ live, NEW r \in SpanRecord, AddChild(s, r),
         r.key = ppid, r.parent = "first", r.tid = span[firstSpan[ppid]].tid,
         UNCHANGED <<phase, ppid, provider, started, request, firstSpan, traces, openKey, moved>>,
         \A k \in Keys : redisException'[k] => request[k]
  PROVE  /\ Grows
         /\ live' = live \cup {s} /\ span'[s] = r
         /\ \A x \in live : x # s /\ span'[x] = span[x]
         /\ \A i \in DOMAIN frames : ~Stale(frames[i]) => ~span'[frames[i].span].ended
<1>1. live \subseteq Spans /\ span \in [Spans -> SpanRecord]
  BY DEF TracerInv, TypeOK
<1>2. live' = live \cup {s} /\ span'[s] = r /\ \A x \in live : x # s /\ span'[x] = span[x]
  BY <1>1 DEF AddChild
<1>3. Grows
  BY <1>2 DEF Grows, Keeps
<1>4. \A i \in DOMAIN frames : ~Stale(frames[i]) => ~span'[frames[i].span].ended
  BY <1>2 DEF TracerInv, OpenCallOwnsItsSpan
<1>5. QED
  BY <1>2, <1>3, <1>4

LEMMA AddSpanInv ==
  ASSUME TracerInv, TypeOK', NEW status \in {"ok", "error"}, AddSpan(status)
  PROVE  TracerInv'
<1>1. CASE CrashOnNullSpan \/ CrashOnUnchecked
  BY <1>1, CrashInv DEF AddSpan
<1>2. CASE ~CrashOnNullSpan /\ ~CrashOnUnchecked
  <2>1. /\ HasFirstSpan /\ fault = "none"
        /\ sampled' = SampledAfter(status) /\ optOut' = OptOutAfter(status)
        /\ UNCHANGED <<sapiVars, fault, queueVars, request, firstSpan, redisException,
                       baggage, frames, exportVars, traces, openKey, moved, promised, bailed, late,
                       unsampledRun>>
    BY <1>2 DEF AddSpan, Running
  <2>2. PICK s \in Spans \ live : AddChild(s, EndedAs(Child, status))
    BY <1>2 DEF AddSpan
  <2> DEFINE r == EndedAs(Child, status)
  <2>3. /\ r \in SpanRecord /\ r.key = ppid /\ r.parent = "first"
        /\ r.tid = span[firstSpan[ppid]].tid
        /\ r.status = "error" => status = "error"
    BY <2>1, ChildType, EndedAsType DEF TracerInv
  <2>4. UNCHANGED <<phase, ppid, provider, started, request, firstSpan, traces, openKey, moved>>
        /\ SameCalls /\ \A k \in Keys : redisException'[k] => request[k]
    BY <2>1 DEF sapiVars, SameCalls, TracerInv, SlotInv
  <2>5. AddChild(s, r)
    BY <2>2
  <2> HIDE DEF r
  <2>6. /\ Grows
        /\ live' = live \cup {s} /\ span'[s] = r
        /\ \A x \in live : x # s /\ span'[x] = span[x]
        /\ \A i \in DOMAIN frames : ~Stale(frames[i]) => ~span'[frames[i].span].ended
    BY <2>1, <2>3, <2>4, <2>5, AddChildGrows
  <2>7. /\ \A k \in Keys : sampled[k] => sampled'[k]
        /\ status = "error" => sampled'[ppid]
        /\ optOut => optOut' \/ (status = "error" /\ ppid = openKey)
    BY <2>1, SampledAfterType DEF OptOutAfter, TracerInv
  <2>8. \A x \in live' : span'[x].status = "error" =>
           status = "error" \/ (x \in live /\ span[x].status = "error")
    BY <2>3, <2>6
  <2>9. QED
    BY <2>1, <2>4, <2>6, <2>7, <2>8, GrowsInv, NoFaultExplained
<1>3. QED
  BY <1>1, <1>2

LEMMA ThrowExceptionInv ==
  ASSUME TracerInv, TypeOK', NEW isRedis \in BOOLEAN, NEW native \in BOOLEAN,
         ThrowException(isRedis, native)
  PROVE  TracerInv'
<1>1. Running /\ fault = "none"
  BY ThrowExceptionCases DEF Running
<1>2. ASSUME frames' = Thrown(isRedis, native) PROVE SameCalls
  <2>1. native => frames # <<>>
    BY ThrowExceptionCases
  <2>2. QED
    BY <1>2, <2>1, ThrownCalls DEF SameCalls, TracerInv
<1>3. CASE CrashOnNullSpan \/ CrashOnUnchecked
  BY <1>1, <1>3, CrashInv
<1>4. CASE NotRecorded(isRedis, native)
  <2>1. Quiet /\ sampled' = sampled /\ optOut' = optOut /\ fault' = fault
    BY <1>4 DEF NotRecorded, Quiet, sapiVars, slotVars, heapVars
  <2>2. SameCalls
    BY <1>2, <1>4 DEF NotRecorded
  <2>3. QED
    BY <1>1, <2>1, <2>2, QuietGrows, GrowsInv, NoFaultExplained
<1>5. CASE Recorded(isRedis, native)
  <2>1. /\ HasFirstSpan /\ SameCalls /\ fault' = fault
        /\ sampled' = SampledAfter("error")
        /\ optOut' = OptOutAfter("error")
        /\ redisException' = [redisException EXCEPT ![ppid] = @ \/ isRedis]
        /\ UNCHANGED <<phase, ppid, provider, started, request, firstSpan, traces, openKey, moved>>
    BY <1>2, <1>5 DEF Recorded, sapiVars
  <2>2. PICK s \in Spans \ live : AddChild(s, ErrorEnd(Child))
    BY <1>5 DEF Recorded
  <2> DEFINE r == ErrorEnd(Child)
  <2>3. r \in SpanRecord /\ r.key = ppid /\ r.parent = "first" /\ r.tid = span[firstSpan[ppid]].tid
    BY <2>1, ChildType, ErrorEndType DEF TracerInv
  <2>4. \A k \in Keys : redisException'[k] => request[k]
    BY <2>1, FirstIsOpen DEF TracerInv, SlotInv, TypeOK
  <2>5. AddChild(s, r)
    BY <2>2
  <2> HIDE DEF r
  <2>6. /\ Grows
        /\ \A i \in DOMAIN frames : ~Stale(frames[i]) => ~span'[frames[i].span].ended
    BY <2>1, <2>3, <2>4, <2>5, AddChildGrows
  <2>7. /\ \A k \in Keys : sampled[k] => sampled'[k]
        /\ sampled'[ppid]
        /\ optOut => optOut' \/ ppid = openKey
    BY <2>1, SampledAfterType DEF OptOutAfter, TracerInv
  <2>8. QED
    BY <1>1, <2>1, <2>6, <2>7, GrowsInv, NoFaultExplained
<1>6. QED
  BY <1>3, <1>4, <1>5, ThrowExceptionCases

LEMMA ErrorCallbackInv ==
  ASSUME TracerInv, TypeOK', NEW reported \in BOOLEAN, NEW nocode \in BOOLEAN,
         ErrorCallback(reported, nocode)
  PROVE  TracerInv'
<1> DEFINE status == IF reported THEN "error" ELSE "ok"
           first == firstSpan[ppid]
           r == EndedAs(Child, status)
<1>1. CASE CrashOnNullSpan
  BY <1>1, CrashInv DEF ErrorCallback
<1>2. CASE ~CrashOnNullSpan
  <2>1. /\ HasFirstSpan /\ fault = "none"
        /\ sampled' = SampledAfter(status) /\ optOut' = OptOutAfter(status)
        /\ UNCHANGED <<sapiVars, fault, queueVars, request, firstSpan, redisException,
                       baggage, frames, exportVars, traces, openKey, moved, promised, bailed, late,
                       unsampledRun>>
    BY <1>2 DEF ErrorCallback, Running
  <2>2. PICK s \in Spans \ live :
           /\ live' = live \cup {s}
           /\ span' = [x \in Spans |->
                         IF x = s THEN r
                         ELSE IF x = first /\ reported /\ nocode THEN ErrorEnd(span[x])
                         ELSE span[x]]
    BY <1>2 DEF ErrorCallback
  <2>3. /\ r \in SpanRecord /\ r.key = ppid /\ r.parent = "first" /\ r.tid = span[first].tid
        /\ r.status = "error" => reported
    BY <2>1, ChildType, EndedAsType DEF TracerInv
  <2>4. status \in {"ok", "error"} /\ (status = "error" <=> reported)
    OBVIOUS
  <2> HIDE DEF r, status
  <2>5. live \subseteq Spans /\ span \in [Spans -> SpanRecord]
    BY DEF TracerInv, TypeOK
  <2>6. \A x \in live : /\ x # s
                        /\ Keeps(x)
                        /\ span'[x].status = "error" => reported \/ span[x].status = "error"
                        /\ x # first => span'[x] = span[x]
    BY <2>2, <2>5, ErrorEndType DEF Keeps
  <2>7. Grows /\ SameCalls
    <3>1. span'[s] = r
      BY <2>2
    <3>2. UNCHANGED <<phase, ppid, provider, started, request, firstSpan, traces, openKey, moved>>
          /\ SameCalls /\ \A k \in Keys : redisException'[k] => request[k]
      BY <2>1 DEF sapiVars, SameCalls, TracerInv, SlotInv
    <3>3. QED
      BY <2>1, <2>2, <2>3, <2>6, <3>1, <3>2 DEF Grows
  <2>8. \A i \in DOMAIN frames : ~Stale(frames[i]) => ~span'[frames[i].span].ended
    <3> SUFFICES ASSUME NEW i \in DOMAIN frames, ~Stale(frames[i])
                 PROVE  ~span'[frames[i].span].ended
      OBVIOUS
    <3> DEFINE x == frames[i].span
    <3>1. x \in live /\ ~span[x].ended /\ x # firstSpan[span[x].key]
      BY DEF TracerInv, OpenCallOwnsItsSpan
    <3>2. x # first
      BY <2>1, <3>1, FirstIsOpen
    <3>3. QED
      BY <2>6, <3>1, <3>2
  <2>9. /\ \A k \in Keys : sampled[k] => sampled'[k]
        /\ reported => sampled'[ppid]
        /\ optOut => optOut' \/ (reported /\ ppid = openKey)
    BY <2>1, <2>4, SampledAfterType DEF OptOutAfter, TracerInv
  <2>10. \A x \in live' : span'[x].status = "error" =>
           reported \/ (x \in live /\ span[x].status = "error")
    BY <2>2, <2>3, <2>6
  <2>11. QED
    BY <2>1, <2>7, <2>8, <2>9, <2>10, GrowsInv, NoFaultExplained
<1>3. QED
  BY <1>1, <1>2

-----------------------------------------------------------------------------
(* The steps that begin or end a call. *)

LEMMA PushFacts ==
  ASSUME TracerInv, NEW kind, NEW s, Push(kind, s), traces' = traces,
         Open' <=> Open
  PROVE  /\ DOMAIN frames' = 1 .. Len(frames) + 1
         /\ \A i \in DOMAIN frames : /\ frames'[i] = frames[i]
                                     /\ Stale(frames[i])' <=> Stale(frames[i])
         /\ LET i == Len(frames) + 1
            IN /\ frames'[i].span = s /\ frames'[i].gen = traces
         /\ \A i \in DOMAIN frames' : i \in DOMAIN frames \/ i = Len(frames) + 1
         /\ frames' # <<>> /\ Top' = frames'[Len(frames) + 1]
<1> DEFINE f == [kind |-> kind, span |-> s, gen |-> traces, threw |-> "no"]
<1>1. f.span = s /\ f.gen = traces
  OBVIOUS
<1>2. frames' = Append(frames, f)
  BY DEF Push
<1> HIDE DEF f
<1>3. frames \in Seq(Frame) /\ Len(frames) \in Nat /\ DOMAIN frames = 1 .. Len(frames)
  BY FrameFacts DEF TracerInv, TypeOK
<1>4. /\ Len(frames') = Len(frames) + 1 /\ DOMAIN frames' = 1 .. Len(frames) + 1
      /\ \A i \in 1 .. Len(frames) : frames'[i] = frames[i]
      /\ frames'[Len(frames) + 1] = f
  BY <1>2, <1>3
<1>5. frames' # <<>>
  BY <1>3, <1>4
<1>6. \A i \in DOMAIN frames : Stale(frames[i])' <=> Stale(frames[i])
  BY <1>3, <1>4 DEF Stale
<1>7. QED
  BY <1>1, <1>3, <1>4, <1>5, <1>6 DEF Top

LEMMA CallBeginInv ==
  ASSUME TracerInv, TypeOK', NEW kind \in Kinds, CallBegin(kind)
  PROVE  TracerInv'
<1>1. CASE CrashOnNullSpan \/ CrashOnUnchecked
  BY <1>1, CrashInv DEF CallBegin
<1>2. CASE ~CrashOnNullSpan /\ ~CrashOnUnchecked
  <2>1. /\ HasFirstSpan /\ fault = "none"
        /\ UNCHANGED <<sapiVars, fault, queueVars, slotVars, exportVars,
                       traces, openKey, moved, optOut, bailed, late, unsampledRun>>
    BY <1>2 DEF CallBegin, Running
  <2>2. PICK s \in Spans \ live : AddChild(s, Child) /\ Push(kind, s)
    BY <1>2 DEF CallBegin
  <2> DEFINE r == Child
  <2>3. /\ r \in SpanRecord /\ r.key = ppid /\ r.parent = "first"
        /\ r.tid = span[firstSpan[ppid]].tid /\ r.status = "unset" /\ ~r.ended
    BY <2>1, ChildType DEF TracerInv
  <2>4. AddChild(s, r)
    BY <2>2
  <2> HIDE DEF r
  <2>5. UNCHANGED <<phase, ppid, provider, started, request, firstSpan, traces, openKey, moved>>
        /\ sampled' = sampled /\ optOut' = optOut /\ redisException' = redisException
    BY <2>1 DEF sapiVars, slotVars
  <2>6. /\ Grows
        /\ live' = live \cup {s} /\ span'[s] = r
        /\ \A x \in live : x # s /\ span'[x] = span[x]
    BY <2>1, <2>3, <2>4, <2>5, AddChildGrows DEF TracerInv, SlotInv
  <2>7. SlotInv' /\ ProviderInv' /\ TreeInv'
    BY <2>6, GrowsSlots, GrowsTree
  <2>8. ErrorIsSampled'
    BY <2>3, <2>5, <2>6, GrowsSampled
  <2>9. FaultExplained'
    BY <2>1, NoFaultExplained
  <2>10. /\ DOMAIN frames' = 1 .. Len(frames) + 1
         /\ \A i \in DOMAIN frames : frames'[i] = frames[i] /\ (Stale(frames[i])' <=> Stale(frames[i]))
         /\ frames'[Len(frames) + 1].span = s /\ frames'[Len(frames) + 1].gen = traces
         /\ \A i \in DOMAIN frames' : i \in DOMAIN frames \/ i = Len(frames) + 1
    BY <2>2, <2>5, PushFacts DEF Open
  <2>11. NestingInv'
    <3>1. phase # "exited"
      BY DEF CallBegin, Running
    <3>2. \A i \in DOMAIN frames : frames[i].gen <= traces /\ frames[i].gen \in Nat /\ i \in Nat /\ i <= Len(frames)
      BY FrameFacts DEF TracerInv, NestingInv
    <3>3. traces \in Nat /\ Len(frames) \in Nat
      BY FrameFacts DEF TracerInv, TypeOK
    <3>4. \A i \in DOMAIN frames' : frames'[i].gen <= traces'
      BY <2>5, <2>10, <3>2, <3>3
    <3>5. \A i, j \in DOMAIN frames' : i <= j => frames'[i].gen <= frames'[j].gen
      BY <2>10, <3>2, <3>3 DEF TracerInv, NestingInv
    <3>6. QED
      BY <2>5, <3>1, <3>4, <3>5 DEF NestingInv
  <2>12. OpenCallOwnsItsSpan'
    <3> SUFFICES ASSUME NEW i \in DOMAIN frames', ~Stale(frames[i])'
                 PROVE  /\ frames'[i].span \in live'
                        /\ request'[span'[frames'[i].span].key]
                        /\ frames'[i].span # firstSpan'[span'[frames'[i].span].key]
                        /\ span'[frames'[i].span].key = openKey' \/ moved'
                        /\ ~span'[frames'[i].span].ended
                        /\ \A j \in DOMAIN frames' :
                              frames'[j].span = frames'[i].span /\ ~Stale(frames[j])' => j = i
      BY DEF OpenCallOwnsItsSpan
    <3>1. \A j \in DOMAIN frames : ~Stale(frames[j]) =>
             /\ frames[j].span \in live /\ frames[j].span # s
             /\ request[span[frames[j].span].key]
             /\ frames[j].span # firstSpan[span[frames[j].span].key]
             /\ span[frames[j].span].key = openKey \/ moved
             /\ ~span[frames[j].span].ended
      BY DEF TracerInv, OpenCallOwnsItsSpan
    <3>2. CASE i \in DOMAIN frames
      <4>1. \A j \in DOMAIN frames : frames[j].span = frames[i].span /\ ~Stale(frames[j]) => j = i
        BY <2>10, <3>2 DEF TracerInv, OpenCallOwnsItsSpan
      <4>2. QED
        BY <2>5, <2>6, <2>10, <3>1, <3>2, <4>1
    <3>3. CASE i = Len(frames) + 1
      <4>1. \A j \in DOMAIN frames' : frames'[j].span = s /\ ~Stale(frames[j])' => j = i
        BY <2>10, <3>1, <3>3
      <4>2. (~moved => ppid = openKey) /\ request[ppid] /\ firstSpan[ppid] \in live
        BY <2>1, FirstIsOpen
      <4>3. QED
        BY <2>3, <2>5, <2>6, <2>10, <3>3, <4>1, <4>2
    <3>4. QED
      BY <2>10, <3>2, <3>3
  <2>13. QED
    BY <2>7, <2>8, <2>9, <2>11, <2>12 DEF TracerInv
<1>3. QED
  BY <1>1, <1>2

LEMMA CallBeginUntracedInv ==
  ASSUME TracerInv, TypeOK', NEW kind \in Kinds, CallBeginUntraced(kind)
  PROVE  TracerInv'
<1>1. /\ Quiet /\ sampled' = sampled /\ optOut' = optOut /\ ~provider
      /\ Push(kind, NoSpan) /\ phase # "exited"
  BY DEF CallBeginUntraced, Quiet, sapiVars, slotVars, heapVars, historyVars, Running
<1>2. Grows
  BY <1>1, QuietGrows
<1>3. SlotInv' /\ ProviderInv' /\ TreeInv'
  BY <1>2, GrowsSlots, GrowsTree
<1>4. ErrorIsSampled'
  BY <1>1 DEF Quiet, TracerInv, ErrorIsSampled
<1>5. ~Open /\ ~Open'
  BY <1>1, NoProviderNoTrace DEF Open, Quiet
<1>6. /\ DOMAIN frames' = 1 .. Len(frames) + 1
      /\ \A i \in DOMAIN frames : frames'[i] = frames[i]
      /\ frames'[Len(frames) + 1].span = NoSpan /\ frames'[Len(frames) + 1].gen = traces
      /\ \A i \in DOMAIN frames' : i \in DOMAIN frames \/ i = Len(frames) + 1
      /\ frames' # <<>> /\ Top' = frames'[Len(frames) + 1]
  BY <1>1, <1>5, PushFacts DEF Quiet
<1>7. OpenCallOwnsItsSpan'
  BY <1>5 DEF OpenCallOwnsItsSpan, Stale
<1>8. FaultExplained'
  BY <1>5, <1>6 DEF CallBeginUntraced, FaultExplained, Stale
<1>9. NestingInv'
  <2>1. \A i \in DOMAIN frames : frames[i].gen <= traces /\ frames[i].gen \in Nat /\ i \in Nat /\ i <= Len(frames)
    BY FrameFacts DEF TracerInv, NestingInv
  <2>2. traces \in Nat /\ Len(frames) \in Nat /\ traces' = traces /\ phase' = phase
    BY <1>1, FrameFacts DEF TracerInv, TypeOK, Quiet
  <2>3. \A i \in DOMAIN frames' : frames'[i].gen <= traces'
    BY <1>6, <2>1, <2>2
  <2>4. \A i, j \in DOMAIN frames' : i <= j => frames'[i].gen <= frames'[j].gen
    BY <1>6, <2>1, <2>2 DEF TracerInv, NestingInv
  <2>5. QED
    BY <1>1, <2>2, <2>3, <2>4 DEF NestingInv
<1>10. QED
  BY <1>3, <1>4, <1>7, <1>8, <1>9 DEF TracerInv

LEMMA BailoutInv ==
  ASSUME TracerInv, TypeOK', Bailout
  PROVE  TracerInv'
<1>1. Quiet /\ sampled' = sampled /\ optOut' = optOut /\ frames' = <<>> /\ fault' = fault
      /\ fault = "none" /\ phase # "exited"
  BY DEF Bailout, Quiet, sapiVars, slotVars, heapVars, Running
<1>2. SlotInv' /\ ProviderInv' /\ TreeInv'
  BY <1>1, QuietGrows, GrowsSlots, GrowsTree
<1>3. ErrorIsSampled'
  BY <1>1 DEF Quiet, TracerInv, ErrorIsSampled
<1>4. NestingInv' /\ OpenCallOwnsItsSpan'
  BY <1>1 DEF Quiet, NestingInv, OpenCallOwnsItsSpan
<1>5. QED
  BY <1>1, <1>2, <1>3, <1>4, NoFaultExplained DEF TracerInv

(* The innermost call ends: the other calls keep their spans.                *)
LEMMA PopCalls ==
  ASSUME TracerInv, TypeOK', Grows, frames # <<>>, Pop,
         \A x \in live : x = Top.span \/ span'[x] = span[x]
  PROVE  NestingInv' /\ OpenCallOwnsItsSpan'
<1> DEFINE n == Len(frames)
<1>1. /\ n \in Nat \ {0} /\ DOMAIN frames = 1 .. n /\ DOMAIN frames' = 1 .. n - 1
      /\ \A i \in DOMAIN frames' : i \in DOMAIN frames /\ frames'[i] = frames[i] /\ i < n
      /\ n \in DOMAIN frames /\ Top = frames[n]
  <2>1. frames' = SubSeq(frames, 1, n - 1)
    BY DEF Pop
  <2>2. frames' \in Seq(Frame)
    BY DEF TypeOK
  <2>3. DOMAIN frames' = 1 .. Len(frames')
    BY <2>2, LenProperties
  <2>4. QED
    BY <2>1, <2>3, PopType DEF TracerInv, Top
<1> HIDE DEF n
<1>2. NestingInv'
  <2>1. phase # "exited" \/ Cli
    BY DEF TracerInv, NestingInv
  <2>2. \A i \in DOMAIN frames' : frames'[i].gen <= traces'
    BY <1>1 DEF TracerInv, NestingInv, Grows
  <2>3. \A i, j \in DOMAIN frames' : i <= j => frames'[i].gen <= frames'[j].gen
    BY <1>1 DEF TracerInv, NestingInv
  <2>4. QED
    BY <2>1, <2>2, <2>3 DEF NestingInv, Grows
<1>3. \A i \in DOMAIN frames' : Stale(frames[i])' <=> Stale(frames[i])
  BY <1>1 DEF Stale, Grows, Open
<1>4. ASSUME NEW i \in DOMAIN frames', ~Stale(frames[i]) PROVE frames[i].span # Top.span
  <2>1. frames[i].gen = traces /\ Open /\ frames[i].span # NoSpan
    BY <1>4 DEF Stale
  <2>2. i \in DOMAIN frames /\ i <= n /\ i # n
    BY <1>1
  <2>3. Top.gen = traces
    <3>1. frames[i].gen <= Top.gen /\ Top.gen <= traces
      BY <1>1, <2>2 DEF TracerInv, NestingInv
    <3>2. traces \in Nat /\ Top.gen \in Nat
      BY <1>1, FrameFacts DEF TracerInv, TypeOK
    <3>3. QED
      BY <2>1, <3>1, <3>2
  <2>4. CASE frames[i].span = Top.span
    <3>1. ~Stale(frames[n])
      BY <1>1, <2>1, <2>3, <2>4 DEF Stale
    <3>2. n = i
      BY <1>1, <1>4, <2>2, <2>4, <3>1 DEF TracerInv, OpenCallOwnsItsSpan
    <3>3. QED
      BY <2>2, <3>2
  <2>5. QED
    BY <2>4
<1>5. OpenCallOwnsItsSpan'
  <2> SUFFICES ASSUME NEW i \in DOMAIN frames', ~Stale(frames[i])'
               PROVE  /\ frames'[i].span \in live'
                      /\ request'[span'[frames'[i].span].key]
                      /\ frames'[i].span # firstSpan'[span'[frames'[i].span].key]
                      /\ span'[frames'[i].span].key = openKey' \/ moved'
                      /\ ~span'[frames'[i].span].ended
                      /\ \A j \in DOMAIN frames' :
                            frames'[j].span = frames'[i].span /\ ~Stale(frames[j])' => j = i
    BY DEF OpenCallOwnsItsSpan
  <2>1. i \in DOMAIN frames /\ ~Stale(frames[i]) /\ frames'[i] = frames[i]
    BY <1>1, <1>3
  <2>2. /\ frames[i].span \in live /\ request[span[frames[i].span].key]
        /\ frames[i].span # firstSpan[span[frames[i].span].key]
        /\ span[frames[i].span].key = openKey \/ moved
        /\ ~span[frames[i].span].ended
        /\ \A j \in DOMAIN frames : frames[j].span = frames[i].span /\ ~Stale(frames[j]) => j = i
    BY <2>1 DEF TracerInv, OpenCallOwnsItsSpan
  <2>3. span'[frames[i].span] = span[frames[i].span]
    BY <1>4, <2>1, <2>2
  <2>4. \A j \in DOMAIN frames' : frames'[j].span = frames'[i].span /\ ~Stale(frames[j])' => j = i
    BY <1>1, <1>3, <2>1, <2>2
  <2>5. QED
    BY <2>1, <2>2, <2>3, <2>4 DEF Grows
<1>6. QED
  BY <1>2, <1>5

(* The call returns while the process lives. *)
LEMMA CallReturnsInv ==
  ASSUME TracerInv, TypeOK', Running, frames # <<>>, CallReturns
  PROVE  TracerInv'
<1>1. frames # <<>> /\ fault = "none"
      /\ UNCHANGED <<sapiVars, queueVars, live, exportVars,
                     traces, openKey, moved, promised, bailed, late, unsampledRun>>
  BY DEF CallReturns, Running
<1>2. Top \in Frame /\ Top.kind \in Kinds /\ Top.span \in Spans \cup {NoSpan}
      /\ Len(frames) \in DOMAIN frames
  BY <1>1, PopType DEF Frame, TracerInv
<1>3. live \subseteq Spans /\ span \in [Spans -> SpanRecord] /\ ppid \in Keys
  BY KeysAreNat DEF TracerInv, TypeOK
<1>4. CASE Pop /\ UNCHANGED <<fault, slotVars, span, optOut>>
  <2>1. Pop /\ UNCHANGED <<fault, slotVars, span, optOut>>
    BY <1>4
  <2>2. Quiet /\ sampled' = sampled /\ fault' = "none"
    BY <1>1, <2>1 DEF Quiet, sapiVars, slotVars
  <2>3. NestingInv' /\ OpenCallOwnsItsSpan'
    BY <1>1, <2>1, <2>2, QuietGrows, PopCalls DEF Quiet
  <2>4. SlotInv' /\ ProviderInv' /\ TreeInv'
    BY <2>2, QuietGrows, GrowsSlots, GrowsTree
  <2>5. ErrorIsSampled'
    BY <2>1, <2>2 DEF Quiet, TracerInv, ErrorIsSampled
  <2>6. QED
    BY <2>2, <2>3, <2>4, <2>5, NoFaultExplained DEF TracerInv
<1>5. CASE ~(Pop /\ UNCHANGED <<fault, slotVars, span, optOut>>)
  <2>1. PICK status \in EndStatus(Top.kind) :
          /\ span' = IF Top.span \in live
                       THEN [span EXCEPT ![Top.span] = FinishedAs(Top.kind, @, status)]
                       ELSE span
          /\ fault' \in IF ~provider /\ status = "error" THEN {"dangling"}
                       ELSE IF Top.span \in live THEN {"none"} ELSE {"none", "dangling"}
          /\ sampled' = IF provider THEN SampledAfter(status) ELSE sampled
          /\ redisException' = ClearedException(Top.kind)
          /\ optOut' = OptOutAfter(status)
          /\ IF fault' = "none" THEN Pop ELSE frames' = frames
          /\ UNCHANGED <<request, firstSpan, baggage>>
    BY <1>5 DEF CallReturns
  <2>2. status \in {"ok", "error"}
    BY <1>2, <2>1, EndStatusType
  <2>3. \A x \in live : /\ Keeps(x)
                        /\ span'[x].status = "error" => status = "error" \/ span[x].status = "error"
                        /\ x = Top.span \/ span'[x] = span[x]
    <3>1. CASE Top.span \in live
      <4> DEFINE t == Top.span
                 r == FinishedAs(Top.kind, span[t], status)
      <4>1. span' = [span EXCEPT ![t] = r] /\ t \in Spans /\ span[t] \in SpanRecord
        BY <1>3, <2>1, <3>1
      <4>2. /\ r.key = span[t].key /\ r.tid = span[t].tid /\ r.parent = span[t].parent
            /\ r.status = "error" => span[t].status = "error" \/ status = "error"
        BY <2>2, <4>1, FinishedAsType
      <4> HIDE DEF r, t
      <4>3. span'[t] = r /\ \A x \in Spans : x # t => span'[x] = span[x]
        BY <1>3, <4>1
      <4>4. t = Top.span
        BY DEF t
      <4>5. QED
        BY <1>3, <4>2, <4>3, <4>4 DEF Keeps
    <3>2. CASE Top.span \notin live
      BY <2>1, <3>2 DEF Keeps
    <3>3. QED
      BY <3>1, <3>2
  <2>4. UNCHANGED <<phase, ppid, provider, started, request, firstSpan, traces, openKey, moved, live>>
    BY <1>1, <2>1 DEF sapiVars
  <2>5. \A k \in Keys : redisException'[k] => request[k]
    BY <2>1 DEF ClearedException, TracerInv, SlotInv, TypeOK
  <2>6. Grows
    BY <2>3, <2>4, <2>5 DEF Grows
  <2>7. SlotInv' /\ ProviderInv' /\ TreeInv'
    BY <2>6, GrowsSlots, GrowsTree
  <2>8. ErrorIsSampled'
    <3>1. CASE provider
      <4>1. /\ \A k \in Keys : sampled[k] => sampled'[k]
            /\ status = "error" => sampled'[ppid]
            /\ optOut => optOut' \/ (status = "error" /\ ppid = openKey)
        BY <2>1, <3>1, SampledAfterType DEF OptOutAfter, TracerInv
      <4>2. QED
        BY <2>3, <2>4, <2>6, <4>1, GrowsSampled
    <3>2. CASE ~provider
      <4>1. \A x \in live' : span'[x].key = NoKey
        BY <2>3, <2>4, <3>2, NoProviderNoTrace DEF Keeps
      <4>2. openKey' # NoKey
        BY KeysAreNat DEF TypeOK
      <4>3. QED
        BY <4>1, <4>2 DEF ErrorIsSampled
    <3>3. QED
      BY <3>1, <3>2
  <2>9. CASE fault' = "none"
    <3>1. NestingInv' /\ OpenCallOwnsItsSpan'
      BY <1>1, <2>1, <2>3, <2>6, <2>9, PopCalls
    <3>2. QED
      BY <2>7, <2>8, <2>9, <3>1, NoFaultExplained DEF TracerInv
  <2>10. CASE fault' # "none"
    <3>1. fault' = "dangling" /\ frames' = frames /\ (~provider \/ Top.span \notin live)
      BY <2>1, <2>10
    <3>2. Stale(Top)
      <4>1. CASE ~provider
        BY <4>1, NoProviderNoTrace DEF Stale
      <4>2. CASE Top.span \notin live
        BY <1>2, <4>2 DEF TracerInv, OpenCallOwnsItsSpan, Top
      <4>3. QED
        BY <3>1, <4>1, <4>2
    <3>3. SameCalls
      BY <3>1 DEF SameCalls
    <3>4. Stale(Top)' /\ frames' # <<>>
      BY <1>1, <2>4, <3>1, <3>2 DEF Stale, Open, Top
    <3>5. FaultExplained'
      BY <3>1, <3>4 DEF FaultExplained
    <3>6. \A i \in DOMAIN frames : ~Stale(frames[i]) => ~span'[frames[i].span].ended
      <4> SUFFICES ASSUME NEW i \in DOMAIN frames, ~Stale(frames[i])
                   PROVE  ~span'[frames[i].span].ended
        OBVIOUS
      <4>1. frames[i].span \in live /\ ~span[frames[i].span].ended
        BY DEF TracerInv, OpenCallOwnsItsSpan
      <4>2. CASE ~provider
        BY <4>2, NoProviderNoTrace DEF Stale
      <4>3. CASE Top.span \notin live
        BY <2>1, <4>1, <4>3
      <4>4. QED
        BY <3>1, <4>2, <4>3
    <3>7. NestingInv' /\ OpenCallOwnsItsSpan'
      BY <2>6, <3>3, <3>6, GrowsCalls
    <3>8. QED
      BY <2>7, <2>8, <3>5, <3>7 DEF TracerInv
  <2>11. QED
    BY <2>9, <2>10
<1>6. QED
  BY <1>4, <1>5

LEMMA CallEndInv ==
  ASSUME TracerInv, TypeOK', CallEnd
  PROVE  TracerInv'
<1>1. CASE CallReturns
  BY <1>1, CallEndCases, CallReturnsInv
<1>2. CASE Handler[Top.kind].trusts = "result" /\ Dies("unchecked")
  BY <1>2, CallEndCases, DiesInv DEF Explained
<1>3. QED
  BY <1>1, <1>2, CallEndCases

-----------------------------------------------------------------------------
(* The environment. *)

LEMMA ModuleShutdownInv ==
  ASSUME TracerInv, TypeOK', ModuleShutdown
  PROVE  TracerInv'
<1>1. /\ phase' = "exited" /\ fault' = "none" /\ frames' = <<>> /\ (Cli \/ phase = "idle")
      /\ UNCHANGED <<ppid, provider, started, request, firstSpan, sampled, redisException, live,
                     span, traces, openKey, moved, optOut>>
  BY DEF ModuleShutdown, Running, slotVars, heapVars, historyVars
<1>2. SlotInv' /\ TreeInv' /\ ErrorIsSampled'
  BY <1>1 DEF TracerInv, SlotInv, TreeInv, ErrorIsSampled
<1>3. ProviderInv'
  BY <1>1 DEF TracerInv, ProviderInv
<1>4. NestingInv' /\ OpenCallOwnsItsSpan'
  BY <1>1 DEF NestingInv, OpenCallOwnsItsSpan
<1>5. QED
  BY <1>1, <1>2, <1>3, <1>4, NoFaultExplained DEF TracerInv

LEMMA ReparentInv ==
  ASSUME TracerInv, TypeOK', Reparent
  PROVE  TracerInv'
<1>1. /\ moved' /\ fault' = "none" /\ frames' = frames /\ Cli
      /\ UNCHANGED <<phase, provider, started, request, firstSpan, sampled, redisException, live,
                     span, traces, openKey, optOut>>
  BY DEF Reparent, Running, slotVars, heapVars
<1>2. SlotInv' /\ TreeInv' /\ NestingInv'
  BY <1>1 DEF TracerInv, SlotInv, TreeInv, NestingInv
<1>3. OpenCallOwnsItsSpan'
  BY <1>1 DEF TracerInv, OpenCallOwnsItsSpan, Stale, Open
<1>4. ProviderInv'
  BY <1>1 DEF TracerInv, ProviderInv
<1>5. ErrorIsSampled'
  BY <1>1 DEF ErrorIsSampled
<1>6. QED
  BY <1>1, <1>2, <1>3, <1>4, <1>5, NoFaultExplained DEF TracerInv

-----------------------------------------------------------------------------
(* The steps that open a trace. *)

LEMMA FirstSpanOfTrace ==
  ASSUME TracerInv, NEW header
  PROVE  LET new == NewSpan(ppid, FirstAfterClean(ppid), traces + 1, "none")
             r == IF header \in {"sampled", "unsampled"}
                    THEN [new EXCEPT !.tid = RemoteTrace, !.parent = "remote"] ELSE new
         IN /\ r.key = ppid /\ r.parent # "first" /\ r.status = "unset"
            /\ r.parent = "remote" <=> r.tid = RemoteTrace
<1>1. FirstAfterClean(ppid) = NoSpan /\ traces \in Nat
  BY KeysAreNat DEF FirstAfterClean, TracerInv, TypeOK, SlotInv
<1>2. QED
  BY <1>1 DEF NewSpan, RemoteTrace

LEMMA StartTracerInv ==
  ASSUME TracerInv, TypeOK', NEW header \in Headers, NEW item \in BOOLEAN,
         StartTracer(header, item),
         \/ Cli /\ phase' = phase /\ started'
         \/ ~Cli /\ phase' = "script" /\ started' = started
  PROVE  TracerInv'
<1> DEFINE new == NewSpan(ppid, FirstAfterClean(ppid), traces + 1, "none")
           r == IF header \in {"sampled", "unsampled"}
                  THEN [new EXCEPT !.tid = RemoteTrace, !.parent = "remote"] ELSE new
<1> DEFINE freed == FreedBy(ppid)
<1>a. PICK s \in Spans \ (live \ freed) :
         /\ firstSpan' = [firstSpan EXCEPT ![ppid] = s]
         /\ live' = (live \ freed) \cup {s}
         /\ span' = [x \in Spans |-> IF x = s THEN r ELSE IF x \in freed THEN Blank ELSE span[x]]
  BY DEF StartTracer
<1>b. PICK k \in Keys : k = ppid
  BY KeysAreNat DEF TracerInv, TypeOK
<1>1. /\ firstSpan' = [firstSpan EXCEPT ![k] = s]
      /\ live' = (live \ FreedBy(k)) \cup {s}
      /\ span' = [x \in Spans |-> IF x = s THEN r ELSE IF x \in FreedBy(k) THEN Blank ELSE span[x]]
  <2> HIDE DEF r
  <2>1. QED
    BY <1>a, <1>b
<1>2. /\ provider' = TRUE /\ request' = [request EXCEPT ![k] = TRUE]
      /\ redisException' = ExceptionAfterClean(k)
      /\ traces' = traces + 1 /\ openKey' = k /\ ppid' = ppid /\ frames' = frames
      /\ moved' = FALSE /\ fault' = FaultOf(header)
  BY <1>b DEF StartTracer
<1>3. /\ r.key = k /\ r.parent # "first" /\ r.status = "unset"
      /\ r.parent = "remote" <=> r.tid = RemoteTrace
  BY <1>b, FirstSpanOfTrace
<1> HIDE DEF r
<1>4. k \in Keys /\ k # NoKey /\ traces \in Nat
      /\ live \subseteq Spans /\ span \in [Spans -> SpanRecord]
      /\ request \in [Keys -> BOOLEAN] /\ firstSpan \in [Keys -> Spans \cup {NoSpan}]
      /\ redisException \in [Keys -> BOOLEAN]
  BY <1>b, KeysAreNat DEF TracerInv, TypeOK, ProviderInv
<1>5. \A x \in live \ FreedBy(k) : span[x].key # k
  BY <1>4 DEF FreedBy, SpansOf, TracerInv, TreeInv
<1>6. \A x \in live : span[x].key # k => x \notin FreedBy(k)
  BY DEF FreedBy, SpansOf
<1>7. /\ span'[s] = r /\ s \in live' /\ s \in Spans
      /\ \A x \in live \ FreedBy(k) : x # s /\ x \in live' /\ span'[x] = span[x]
      /\ \A x \in live' : x = s \/ x \in live \ FreedBy(k)
  BY <1>b, <1>1, <1>4
<1>8. firstSpan'[k] = s /\ request'[k]
      /\ \A j \in Keys : j # k =>
            /\ firstSpan'[j] = firstSpan[j]
            /\ request'[j] <=> request[j]
            /\ redisException'[j] => redisException[j]
  BY <1>1, <1>2, <1>4 DEF ExceptionAfterClean
<1>9. \A j \in Keys : j # k /\ request'[j] =>
         /\ request[j] /\ firstSpan[j] \in live \ FreedBy(k) /\ span[firstSpan[j]].key = j
  BY <1>6, <1>8 DEF TracerInv, SlotInv
<1>10. SlotInv'
  <2> SUFFICES ASSUME NEW j \in Keys
               PROVE  /\ request'[j] <=> firstSpan'[j] # NoSpan
                      /\ request'[j] => firstSpan'[j] \in live' /\ span'[firstSpan'[j]].key = j
                      /\ redisException'[j] => request'[j]
    BY <1>4, <1>8, KeysAreNat DEF SlotInv, TracerInv
  <2>1. CASE j = k
    BY <1>3, <1>7, <1>8, <2>1
  <2>2. CASE j # k
    BY <1>7, <1>8, <1>9, <2>2 DEF TracerInv, SlotInv
  <2>3. QED
    BY <2>1, <2>2
<1>11. ProviderInv'
  <2>1. ~moved' /\ ppid' = openKey' /\ request'[openKey']
    BY <1>b, <1>2, <1>8
  <2>2. CASE Cli
    BY <1>2, <2>1, <2>2 DEF TracerInv, ProviderInv
  <2>3. CASE ~Cli
    BY <1>2, <2>1, <2>3 DEF TracerInv, ProviderInv
  <2>4. QED
    BY <2>2, <2>3
<1>12. TreeInv'
  <2>1. ASSUME NEW x \in live', span'[x].key # NoKey PROVE request'[span'[x].key]
    <3>1. CASE x = s
      BY <1>3, <1>7, <1>8, <3>1
    <3>2. CASE x \in live \ FreedBy(k)
      <4>1. span[x] \in SpanRecord /\ span'[x] = span[x]
        BY <1>4, <1>7, <3>2
      <4>2. span[x].key \in Keys /\ span[x].key # k
        BY <1>5, <3>2, <4>1 DEF SpanRecord
      <4>3. request[span[x].key]
        BY <2>1, <3>2, <4>1 DEF TracerInv, TreeInv
      <4>4. QED
        BY <1>8, <4>1, <4>2, <4>3
    <3>3. QED
      BY <1>7, <3>1, <3>2
  <2>2. ASSUME NEW j \in Keys, request'[j]
        PROVE  /\ span'[firstSpan'[j]].parent # "first"
               /\ span'[firstSpan'[j]].parent = "remote" <=> span'[firstSpan'[j]].tid = RemoteTrace
               /\ \A x \in live' : span'[x].key = j /\ x # firstSpan'[j] =>
                     span'[x].parent = "first" /\ span'[x].tid = span'[firstSpan'[j]].tid
    <3>1. CASE j = k
      <4>1. firstSpan'[j] = s /\ span'[s] = r
        BY <1>7, <1>8, <3>1
      <4>2. \A x \in live' : x # s => span'[x].key # k
        BY <1>5, <1>7
      <4>3. QED
        BY <1>3, <3>1, <4>1, <4>2
    <3>2. CASE j # k
      <4>1. /\ request[j] /\ firstSpan'[j] = firstSpan[j] /\ firstSpan[j] \in live
            /\ span'[firstSpan[j]] = span[firstSpan[j]]
        BY <1>7, <1>8, <1>9, <2>2, <3>2
      <4>2. \A x \in live' : span'[x].key = j => x \in live /\ span'[x] = span[x]
        BY <1>3, <1>7, <3>2
      <4>3. QED
        BY <4>1, <4>2 DEF TracerInv, TreeInv
    <3>3. QED
      BY <3>1, <3>2
  <2>3. QED
    BY <2>1, <2>2 DEF TreeInv
<1>13. \A i \in DOMAIN frames : frames[i].gen \in Nat /\ frames[i].gen <= traces
  BY FrameFacts DEF TracerInv, NestingInv
<1>14. NestingInv'
  <2>1. \A i \in DOMAIN frames' : frames'[i].gen <= traces'
    BY <1>2, <1>4, <1>13
  <2>2. \A i, j \in DOMAIN frames' : i <= j => frames'[i].gen <= frames'[j].gen
    BY <1>2 DEF TracerInv, NestingInv
  <2>3. ~Cli => phase' # "exited"
    OBVIOUS
  <2>4. QED
    BY <2>1, <2>2, <2>3 DEF NestingInv
<1>15. OpenCallOwnsItsSpan'
  <2>1. \A i \in DOMAIN frames' : frames'[i].gen # traces'
    BY <1>2, <1>4, <1>13
  <2>2. QED
    BY <2>1 DEF OpenCallOwnsItsSpan, Stale
<1>16. FaultExplained'
  <2>1. SpansOf(ppid)' = {firstSpan[ppid]}' /\ (ppid = openKey)'
    <3>1. \A x \in live' : span'[x].key = k <=> x = s
      BY <1>3, <1>5, <1>7
    <3>2. QED
      BY <1>b, <1>2, <1>7, <1>8, <3>1 DEF SpansOf
  <2>2. /\ fault' \in {"none", "div_zero", "bad_id"}
        /\ fault' = "div_zero" => SampleRatio = 0
        /\ fault' = "bad_id" => header = "undecodable"
    BY <1>2 DEF FaultOf
  <2>3. QED
    BY <2>1, <2>2 DEF FaultExplained
<1>17. ErrorIsSampled'
  BY <1>2, <1>3, <1>5, <1>7 DEF ErrorIsSampled
<1>18. QED
  BY <1>10, <1>11, <1>12, <1>14, <1>15, <1>16, <1>17 DEF TracerInv

-----------------------------------------------------------------------------
(* The steps that close a trace. *)

LEMMA ShutdownTracerInv ==
  ASSUME TracerInv, TypeOK', Running, ShutdownTracer,
         \/ Cli /\ phase' = phase
         \/ ~Cli /\ phase = "script" /\ phase' = "idle"
  PROVE  TracerInv'
<1>1. /\ ~started' /\ ppid' = ppid /\ fault' = "none" /\ frames' = frames /\ traces' = traces
      /\ openKey' = openKey /\ moved' = moved /\ optOut' = optOut
  BY DEF ShutdownTracer, historyVars, Running
<1>2. ~Open'
  BY <1>1 DEF Open
<1>3. OpenCallOwnsItsSpan'
  BY <1>2 DEF OpenCallOwnsItsSpan, Stale
<1>4. NestingInv'
  BY <1>1 DEF TracerInv, NestingInv
<1>5. PICK k \in Keys : k = ppid /\ k # NoKey
  BY KeysAreNat DEF TracerInv, TypeOK
<1>6. CASE firstSpan[k] = NoSpan
  <2>1. /\ UNCHANGED <<provider, request, firstSpan, sampled, redisException, live, span>>
    BY <1>5, <1>6 DEF ShutdownTracer, slotVars, heapVars
  <2>2. Cli
    BY <1>5, <1>6 DEF TracerInv, SlotInv, ProviderInv
  <2>3. SlotInv' /\ TreeInv' /\ ErrorIsSampled'
    BY <1>1, <2>1 DEF TracerInv, SlotInv, TreeInv, ErrorIsSampled
  <2>4. ProviderInv'
    BY <1>1, <2>1, <2>2 DEF TracerInv, ProviderInv
  <2>5. QED
    BY <1>1, <1>3, <1>4, <2>3, <2>4, NoFaultExplained DEF TracerInv
<1>7. CASE firstSpan[k] # NoSpan
  <2>1. request[k] /\ provider /\ (~Cli => k = openKey)
    BY <1>5, <1>7 DEF TracerInv, SlotInv, ProviderInv
  <2>2. live \subseteq Spans /\ span \in [Spans -> SpanRecord]
    BY DEF TracerInv, TypeOK
  <2>3. /\ provider' = ~Cli
        /\ Cli => /\ request' = [x \in Keys |-> FALSE] /\ firstSpan' = [x \in Keys |-> NoSpan]
                  /\ redisException' = [x \in Keys |-> FALSE]
        /\ ~Cli => /\ request' = [request EXCEPT ![k] = FALSE]
                   /\ firstSpan' = [firstSpan EXCEPT ![k] = NoSpan]
                   /\ redisException' = ExceptionAfterClean(k)
        /\ live' = live \ SpansOf(k)
        /\ span' = [x \in Spans |->
                      IF x \in SpansOf(k) THEN Blank
                      ELSE IF Cli THEN [span[x] EXCEPT !.key = NoKey] ELSE span[x]]
    <3>1. FreedBy(k) = SpansOf(k) /\ FirstAfterClean(k) = NoSpan
      BY <2>1 DEF FreedBy, FirstAfterClean
    <3>2. QED
      BY <1>5, <1>7, <3>1 DEF ShutdownTracer
  <2>4. \A x \in live' : x \in live /\ span[x].key # k /\ x \in Spans
    BY <2>2, <2>3 DEF SpansOf
  <2>5. CASE Cli
    <3>1. \A x \in live' : span'[x].key = NoKey
      <4> SUFFICES ASSUME NEW x \in live' PROVE span'[x].key = NoKey
        OBVIOUS
      <4>1. x \in Spans /\ span[x] \in SpanRecord /\ x \notin SpansOf(k)
        BY <2>2, <2>3, <2>4
      <4>2. span'[x] = [span[x] EXCEPT !.key = NoKey]
        BY <2>3, <2>5, <4>1
      <4>3. QED
        BY <4>1, <4>2, UnkeyedType
    <3>2. \A j \in Keys : ~request'[j] /\ firstSpan'[j] = NoSpan /\ ~redisException'[j]
      BY <2>3, <2>5
    <3>3. ~provider'
      BY <2>3, <2>5
    <3>4. SlotInv' /\ TreeInv'
      BY <3>1, <3>2, KeysAreNat DEF SlotInv, TreeInv
    <3>5. ProviderInv'
      BY <1>1, <2>5, <3>2, <3>3 DEF TracerInv, ProviderInv
    <3>6. ErrorIsSampled'
      BY <3>1, KeysAreNat DEF ErrorIsSampled, TypeOK
    <3>7. QED
      BY <1>1, <1>3, <1>4, <3>4, <3>5, <3>6, NoFaultExplained DEF TracerInv
  <2>6. CASE ~Cli
    <3>1. \A x \in live' : span'[x] = span[x]
      BY <2>2, <2>3, <2>4, <2>6
    <3>2. \A j \in Keys : j # k =>
            /\ firstSpan'[j] = firstSpan[j]
            /\ request'[j] <=> request[j]
            /\ redisException'[j] => redisException[j]
      BY <2>3, <2>6 DEF TracerInv, TypeOK, ExceptionAfterClean
    <3>3. ~request'[k] /\ firstSpan'[k] = NoSpan /\ ~redisException'[k]
      BY <2>1, <2>3, <2>6 DEF TracerInv, TypeOK, ExceptionAfterClean
    <3>4. \A j \in Keys : request'[j] => /\ j # k /\ request[j] /\ firstSpan'[j] = firstSpan[j]
                                        /\ firstSpan[j] \in live' /\ span[firstSpan[j]].key = j
      BY <2>3, <3>2, <3>3 DEF TracerInv, SlotInv, SpansOf
    <3>5. SlotInv'
      <4>1. ~request'[NoKey]
        BY <3>4, KeysAreNat DEF TracerInv, SlotInv
      <4>2. ASSUME NEW j \in Keys, j # k
            PROVE  /\ request'[j] <=> firstSpan'[j] # NoSpan
                   /\ request'[j] => firstSpan'[j] \in live' /\ span'[firstSpan'[j]].key = j
                   /\ redisException'[j] => request'[j]
        BY <3>1, <3>2, <3>4, <4>2 DEF TracerInv, SlotInv
      <4>3. QED
        BY <3>3, <4>1, <4>2 DEF SlotInv
    <3>6. TreeInv'
      <4>1. \A x \in live' : span'[x].key # NoKey => request'[span'[x].key]
        <5> SUFFICES ASSUME NEW x \in live', span[x].key # NoKey PROVE request'[span[x].key]
          BY <3>1
        <5>1. span[x] \in SpanRecord /\ x \in live /\ span[x].key # k
          BY <2>2, <2>4
        <5>2. span[x].key \in Keys /\ request[span[x].key]
          BY <5>1 DEF SpanRecord, TracerInv, TreeInv
        <5>3. QED
          BY <3>2, <5>1, <5>2
      <4>2. ASSUME NEW j \in Keys, request'[j]
            PROVE  /\ span'[firstSpan'[j]].parent # "first"
                   /\ span'[firstSpan'[j]].parent = "remote" <=> span'[firstSpan'[j]].tid = RemoteTrace
                   /\ \A x \in live' : span'[x].key = j /\ x # firstSpan'[j] =>
                         span'[x].parent = "first" /\ span'[x].tid = span'[firstSpan'[j]].tid
        <5>1. request[j] /\ firstSpan'[j] = firstSpan[j] /\ span'[firstSpan[j]] = span[firstSpan[j]]
          BY <3>1, <3>4, <4>2
        <5>2. QED
          BY <2>4, <3>1, <5>1 DEF TracerInv, TreeInv
      <4>3. QED
        BY <4>1, <4>2 DEF TreeInv
    <3>7. ProviderInv'
      <4>1. provider'
        BY <2>3, <2>6
      <4>2. ~request'[openKey']
        BY <1>1, <2>1, <2>6, <3>3
      <4>3. phase' # "script"
        BY <2>6
      <4>4. QED
        BY <1>1, <2>6, <4>1, <4>2, <4>3 DEF TracerInv, ProviderInv
    <3>8. ErrorIsSampled'
      BY <1>1, <2>1, <2>4, <2>6, <3>1 DEF ErrorIsSampled
    <3>9. QED
      BY <1>1, <1>3, <1>4, <3>5, <3>6, <3>7, <3>8, NoFaultExplained DEF TracerInv
  <2>7. QED
    BY <2>5, <2>6
<1>8. QED
  BY <1>6, <1>7

-----------------------------------------------------------------------------
(* The theorems. *)

LEMMA InitInv == Init => TracerInv
<1> SUFFICES ASSUME Init PROVE TracerInv
  OBVIOUS
<1>1. /\ \A k \in Keys : ~request[k] /\ firstSpan[k] = NoSpan /\ ~redisException[k]
      /\ live = {} /\ frames = <<>> /\ fault = "none" /\ openKey = ppid /\ ~moved /\ ~provider /\ ~started
      /\ phase = IF Cli THEN "script" ELSE "idle"
  BY DEF Init
<1>2. ppid \in Nat /\ ppid \in Keys
  BY KeysAreNat DEF Init
<1>3. SlotInv /\ TreeInv
  BY <1>1, KeysAreNat DEF SlotInv, TreeInv
<1>4. ProviderInv
  BY <1>1, <1>2 DEF ProviderInv
<1>5. NestingInv /\ OpenCallOwnsItsSpan /\ FaultExplained /\ ErrorIsSampled
  BY <1>1 DEF NestingInv, OpenCallOwnsItsSpan, FaultExplained, ErrorIsSampled
<1>6. QED
  BY <1>3, <1>4, <1>5, InitType DEF TracerInv

LEMMA StutterInv ==
  ASSUME TracerInv, UNCHANGED vars
  PROVE  TracerInv'
<1>1. /\ Quiet /\ sampled' = sampled /\ optOut' = optOut /\ frames' = frames /\ fault' = fault
      /\ SameCalls /\ live' = live /\ span' = span /\ openKey' = openKey /\ Top' = Top
  BY DEF vars, sapiVars, slotVars, heapVars, historyVars, Quiet, SameCalls, Top
<1>2. TypeOK'
  BY NextType DEF TracerInv
<1>3. FaultExplained'
  BY <1>1 DEF TracerInv, FaultExplained, Quiet, Open, Stale, SpansOf
<1>4. QED
  BY <1>1, <1>2, <1>3, QuietGrows, GrowsInv

LEMMA NextInv == TracerInv /\ [Next]_vars => TracerInv'
<1> SUFFICES ASSUME TracerInv, [Next]_vars PROVE TracerInv'
  OBVIOUS
<1>1. TypeOK'
  BY NextType DEF TracerInv
<1>2. ASSUME NEW header \in Headers, NEW item \in BOOLEAN, RequestInit(header, item)
      PROVE  TracerInv'
  <2>1. CASE Dies("server")
    BY <1>1, <1>2, <2>1, DiesInv DEF RequestInit, Explained, Open
  <2>2. CASE ~Dies("server")
    BY <1>1, <1>2, <2>2, StartTracerInv DEF RequestInit
  <2>3. QED
    BY <2>1, <2>2
<1>3. ASSUME NEW header \in Headers, NEW item \in BOOLEAN, StartCliTracer(header, item)
      PROVE  TracerInv'
  <2>1. CASE Dies("server")
    BY <1>1, <1>3, <2>1, DiesInv DEF StartCliTracer, Explained, Open
  <2>2. CASE ~Dies("server")
    BY <1>1, <1>3, <2>2, StartTracerInv DEF StartCliTracer
  <2>3. QED
    BY <2>1, <2>2
<1>4. CASE RequestShutdown
  BY <1>1, <1>4, ShutdownTracerInv DEF RequestShutdown
<1>5. CASE ShutdownCliTracer
  BY <1>1, <1>5, ShutdownTracerInv DEF ShutdownCliTracer
<1>6. CASE ModuleShutdown
  BY <1>1, <1>6, ModuleShutdownInv
<1>7. ASSUME NEW kind \in Kinds, CallBegin(kind) PROVE TracerInv'
  BY <1>1, <1>7, CallBeginInv
<1>8. ASSUME NEW kind \in Kinds, CallBeginUntraced(kind) PROVE TracerInv'
  BY <1>1, <1>8, CallBeginUntracedInv
<1>9. CASE CallEnd
  BY <1>1, <1>9, CallEndInv
<1>10. CASE Bailout
  BY <1>1, <1>10, BailoutInv
<1>11. ASSUME NEW reported \in BOOLEAN, NEW nocode \in BOOLEAN, ErrorCallback(reported, nocode)
       PROVE  TracerInv'
  BY <1>1, <1>11, ErrorCallbackInv
<1>12. ASSUME NEW isRedis \in BOOLEAN, NEW native \in BOOLEAN, ThrowException(isRedis, native)
       PROVE  TracerInv'
  BY <1>1, <1>12, ThrowExceptionInv
<1>13. ASSUME NEW status \in {"ok", "error"}, AddSpan(status) PROVE TracerInv'
  BY <1>1, <1>13, AddSpanInv
<1>14. ASSUME NEW ratio \in {"zero", "one", "other"}, NEW fromCaller \in BOOLEAN,
              SetSampleRatio(ratio, fromCaller)
       PROVE  TracerInv'
  BY <1>1, <1>14, SetSampleRatioInv
<1>15. CASE GetTraceparent
  BY <1>1, <1>15, GetTraceparentInv
<1>16. CASE AddAttribute
  BY <1>1, <1>16, CrashInv DEF AddAttribute
<1>17. ASSUME NEW item \in BOOLEAN, AddToResource(item) PROVE TracerInv'
  BY <1>1, <1>17, AddToResourceInv
<1>18. CASE Elapse
  BY <1>1, <1>18, ElapseInv
<1>19. CASE Reparent
  BY <1>1, <1>19, ReparentInv
<1>20. CASE UNCHANGED vars
  BY <1>20, StutterInv
<1>21. QED
  BY <1>2, <1>3, <1>4, <1>5, <1>6, <1>7, <1>8, <1>9, <1>10, <1>11, <1>12, <1>13, <1>14, <1>15,
     <1>16, <1>17, <1>18, <1>19, <1>20
  DEF Next

(* The Provider's slots, the spans of its requests and the calls in progress *)
(* agree in every reachable state (provider.cc, core.cc, the handlers).      *)
THEOREM TracerInvHolds == Spec => []TracerInv
BY InitInv, NextInv, PTL DEF Spec

(* What a process of the extension has died of tells the state it died in:   *)
(* no order of calls, callbacks, errors and exits kills a php-fpm worker      *)
(* between RINIT and RSHUTDOWN; only a value that is used unchecked does, the *)
(* ratio of zero, an id that decodes to nothing, or one Handler, the API and   *)
(* the throw hook name.                                                       *)
THEOREM FaultsExplained == Spec => []FaultExplained
<1>1. TracerInv => FaultExplained
  BY DEF TracerInv
<1>2. QED
  BY <1>1, TracerInvHolds, PTL

(* While a trace is under way every call in progress owns the span its       *)
(* handler made and will end (the span local of the handlers), also when the *)
(* parent changes and returns to a pid an older trace is filed under.        *)
THEOREM OpenCallsOwnTheirSpans == Spec => []OpenCallOwnsItsSpan
<1>1. TracerInv => OpenCallOwnsItsSpan
  BY DEF TracerInv
<1>2. QED
  BY <1>1, TracerInvHolds, PTL

(* A trace with an ERROR span is sampled unless the user opted out           *)
(* (Provider::errorEnd).                                                     *)
THEOREM ErrorsAreSampled == Spec => []ErrorIsSampled
<1>1. TracerInv => ErrorIsSampled
  BY DEF TracerInv
<1>2. QED
  BY <1>1, TracerInvHolds, PTL

=============================================================================
