------------------------------ MODULE CurlProofs ------------------------------
(***************************************************************************)
(* What every call of curl_exec sends, for any number of handles, lists,    *)
(* calls and traces: the properties OwnTraceparent and HeadersKept of       *)
(* CurlHeader, from what ties the table of the hooks to libcurl's lists; and *)
(* what its callee reads of it, CalleeReadsBack, from how many traceparents  *)
(* a call can carry and from what PropagationProofs says of the headers.     *)
(***************************************************************************)
EXTENDS CurlHeader, PropagationProofs

HeaderLists == [script : Lists \cup {Nothing}, added : Seq(Nat)]
Marks == {"collected", "called", "outside", "reset", "copied", "closed", "reused", "unlisted"}

CurlTypeOK ==
    /\ has_provider \in BOOLEAN
    /\ alive \subseteq used /\ used \subseteq Handles
    /\ DOMAIN curl_header \subseteq used
    /\ curl_header \in [DOMAIN curl_header -> HeaderLists]
    /\ native \in [Handles -> HeaderLists]
    /\ wanted \in [Handles -> Lists \cup {Nothing}]
    /\ past \in [Handles -> SUBSET Marks]
    /\ calls \in Nat

(* Nothing happened to the headers of a handle where the hooks do not look.  *)
Seen(id) == past[id] \cap {"outside", "reset", "copied", "closed", "reused"} = {}

(* What is stored under a handle's number, if anything, was collected from   *)
(* it or an earlier owner of the number.  Of a handle that is alive it holds *)
(* the headers the script wants, and no traceparent but of its own calls.    *)
HandleOK(id) ==
    /\ id \in DOMAIN curl_header =>
          IF curl_header[id] = NoArray THEN "unlisted" \in past[id]
          ELSE "collected" \in past[id] \/ "reused" \in past[id]
    /\ id \in alive =>
          /\ Seen(id) => /\ native[id].script = wanted[id]
                         /\ Option(id) # NoArray => Option(id).script = wanted[id]
          /\ native[id].added = <<>> \/ "called" \in past[id]
          /\ \/ Option(id) = NoArray
             \/ Option(id).added = <<>>
             \/ {"collected", "called"} \subseteq past[id]
             \/ "reused" \in past[id]

CurlInv ==
    /\ CurlTypeOK
    /\ ~has_provider => DOMAIN curl_header = {}
    /\ \A id \in Handles : HandleOK(id)
    /\ OwnTraceparent
    /\ HeadersKept

LEMMA ListFacts ==
  ASSUME NEW script \in Lists \cup {Nothing}
  PROVE  /\ List(script) \in HeaderLists /\ List(script) # NoArray
         /\ List(script).script = script /\ List(script).added = <<>>
<1>1. List(script) \in HeaderLists /\ List(script).script = script /\ List(script).added = <<>>
  BY DEF List, HeaderLists
<1>2. NoArray.added # <<>>
  BY DEF NoArray
<1>3. QED
  BY <1>1, <1>2

LEMMA HeadersFacts ==
  ASSUME NEW list \in HeaderLists, NEW call \in Nat
  PROVE  /\ WithHeaders(list, call) \in HeaderLists
         /\ WithHeaders(list, call).script = list.script
         /\ WithHeaders(list, call).added = Append(list.added, call)
         /\ Last(WithHeaders(list, call).added) = call
         /\ Len(WithHeaders(list, call).added) = Len(list.added) + 1
         /\ call # 0 => WithHeaders(list, call) # NoArray
<1>1. list.added \in Seq(Nat) /\ Append(list.added, call) \in Seq(Nat)
  BY DEF HeaderLists
<1>2. /\ WithHeaders(list, call) \in HeaderLists
      /\ WithHeaders(list, call).script = list.script
      /\ WithHeaders(list, call).added = Append(list.added, call)
  <2>1. /\ [list EXCEPT !.added = Append(list.added, call)] \in HeaderLists
        /\ [list EXCEPT !.added = Append(list.added, call)].script = list.script
        /\ [list EXCEPT !.added = Append(list.added, call)].added = Append(list.added, call)
    BY <1>1 DEF HeaderLists
  <2>2. QED
    BY <2>1 DEF WithHeaders
<1>3. /\ Len(Append(list.added, call)) = Len(list.added) + 1
      /\ Append(list.added, call)[Len(list.added) + 1] = call
  BY <1>1
<1>4. Last(WithHeaders(list, call).added) = call
  BY <1>2, <1>3 DEF Last
<1>5. call # 0 => WithHeaders(list, call) # NoArray
  <2>1. <<0>>[1] = 0 /\ Len(<<0>>) = 1 /\ NoArray.added = <<0>>
    BY DEF NoArray
  <2>2. Append(list.added, call) = <<0>> => call = 0
    <3>1. CASE Len(list.added) = 0
      BY <1>3, <2>1, <3>1
    <3>2. CASE Len(list.added) # 0
      BY <1>1, <1>3, <2>1, <3>2
    <3>3. QED
      BY <3>1, <3>2
  <2>3. QED
    BY <1>2, <2>1, <2>2, Zenon
<1>6. QED
  BY <1>2, <1>3, <1>4, <1>5

LEMMA OptionType ==
  ASSUME CurlTypeOK, NEW id \in Handles
  PROVE  Option(id) \in HeaderLists
BY ListFacts DEF CurlTypeOK, Option

(* A handle a step does not touch. *)
Untouched(id) ==
    /\ id \in DOMAIN curl_header' <=> id \in DOMAIN curl_header
    /\ id \in DOMAIN curl_header => curl_header'[id] = curl_header[id]
    /\ id \in alive' <=> id \in alive
    /\ native'[id] = native[id] /\ wanted'[id] = wanted[id] /\ past'[id] = past[id]

LEMMA UntouchedOK ==
  ASSUME NEW id \in Handles, HandleOK(id), Untouched(id)
  PROVE  HandleOK(id)'
<1>1. Option(id)' = Option(id)
  BY Zenon DEF Untouched, Option
<1>2. Seen(id)' <=> Seen(id)
  BY Zenon DEF Untouched, Seen
<1>3. QED
  BY <1>1, <1>2, Zenon DEF Untouched, HandleOK

LEMMA InitCurl == Init => CurlInv
<1> SUFFICES ASSUME Init PROVE CurlInv
  OBVIOUS
<1>1. CurlTypeOK
  BY ListFacts DEF Init, CurlTypeOK, NoTable
<1>2. DOMAIN curl_header = {} /\ alive = {}
  BY DEF Init, NoTable
<1>3. \A id \in Handles : HandleOK(id)
  BY <1>2, Zenon DEF HandleOK
<1>4. sent.call = 0
  BY DEF Init, NoCall
<1>5. OwnTraceparent /\ HeadersKept
  BY <1>4 DEF OwnTraceparent, HeadersKept
<1>6. QED
  BY <1>1, <1>2, <1>3, <1>5, Zenon DEF CurlInv

(* The two properties are about the call just made. *)
LEMMA NoCallMade == sent' = NoCall => OwnTraceparent' /\ HeadersKept'
<1> SUFFICES ASSUME sent' = NoCall PROVE OwnTraceparent' /\ HeadersKept'
  OBVIOUS
<1>1. sent'.call = 0
  BY DEF NoCall
<1>2. QED
  BY <1>1 DEF OwnTraceparent, HeadersKept

-----------------------------------------------------------------------------
(* Steps on one handle. *)

(* libcurl's list, the wanted list and the past of one handle are replaced.  *)
Becomes(id, list, script, marks) ==
    /\ native' = [native EXCEPT ![id] = list]
    /\ wanted' = [wanted EXCEPT ![id] = script]
    /\ past' = [past EXCEPT ![id] = marks]

(* What is stored under its number stays, goes, or is replaced. *)
StaysStored(id) == curl_header' = curl_header
NotStored(id) == curl_header' = Without(curl_header, id)
BecomesStored(id, list) == has_provider /\ curl_header' = With(curl_header, id, list)

LEMMA BecomesFacts ==
  ASSUME CurlTypeOK, NEW id \in Handles, NEW list \in HeaderLists,
         NEW script \in Lists \cup {Nothing}, NEW marks \in SUBSET Marks,
         Becomes(id, list, script, marks)
  PROVE  /\ native' \in [Handles -> HeaderLists]
         /\ wanted' \in [Handles -> Lists \cup {Nothing}]
         /\ past' \in [Handles -> SUBSET Marks]
         /\ native'[id] = list /\ wanted'[id] = script /\ past'[id] = marks
         /\ \A other \in Handles : other # id => /\ native'[other] = native[other]
                                                 /\ wanted'[other] = wanted[other]
                                                 /\ past'[other] = past[other]
BY DEF CurlTypeOK, Becomes

LEMMA SameBecomes ==
  ASSUME CurlTypeOK, NEW id \in Handles
  PROVE  /\ UNCHANGED native => native' = [native EXCEPT ![id] = native[id]]
         /\ UNCHANGED wanted => wanted' = [wanted EXCEPT ![id] = wanted[id]]
         /\ UNCHANGED past => past' = [past EXCEPT ![id] = past[id]]
BY DEF CurlTypeOK

LEMMA StoredFacts ==
  ASSUME CurlTypeOK, NEW id \in used,
         \/ StaysStored(id)
         \/ NotStored(id)
         \/ \E list \in HeaderLists : BecomesStored(id, list)
  PROVE  /\ DOMAIN curl_header' \subseteq used
         /\ curl_header' \in [DOMAIN curl_header' -> HeaderLists]
         /\ \A other \in Handles : other # id =>
               /\ other \in DOMAIN curl_header' <=> other \in DOMAIN curl_header
               /\ other \in DOMAIN curl_header => curl_header'[other] = curl_header[other]
<1>1. CASE StaysStored(id)
  BY <1>1, Zenon DEF StaysStored, CurlTypeOK
<1>2. CASE NotStored(id)
  <2>1. curl_header \in [DOMAIN curl_header -> HeaderLists]
    BY DEF CurlTypeOK
  <2>2. /\ Without(curl_header, id) \in [DOMAIN curl_header \ {id} -> HeaderLists]
        /\ \A other \in DOMAIN curl_header : other # id => Without(curl_header, id)[other] = curl_header[other]
    BY <2>1 DEF Without
  <2>3. QED
    BY <1>2, <2>2 DEF NotStored, CurlTypeOK
<1>3. ASSUME NEW list \in HeaderLists, BecomesStored(id, list)
      PROVE  /\ curl_header' \in [DOMAIN curl_header \cup {id} -> HeaderLists]
             /\ \A other \in DOMAIN curl_header : other # id => curl_header'[other] = curl_header[other]
  <2>1. curl_header \in [DOMAIN curl_header -> HeaderLists]
    BY DEF CurlTypeOK
  <2>2. /\ With(curl_header, id, list) \in [DOMAIN curl_header \cup {id} -> HeaderLists]
        /\ \A other \in DOMAIN curl_header :
              other # id => With(curl_header, id, list)[other] = curl_header[other]
    BY <2>1 DEF With
  <2>3. QED
    BY <1>3, <2>2, Zenon DEF BecomesStored
<1>4. CASE \E list \in HeaderLists : BecomesStored(id, list)
  BY <1>3, <1>4 DEF CurlTypeOK
<1>5. QED
  BY <1>1, <1>2, <1>4

LEMMA HandleStep ==
  ASSUME CurlInv, NEW id \in used', NEW list \in HeaderLists,
         NEW script \in Lists \cup {Nothing}, NEW marks \in SUBSET Marks,
         Becomes(id, list, script, marks),
         \/ StaysStored(id)
         \/ id \in used /\ NotStored(id)
         \/ id \in used /\ \E stored \in HeaderLists : BecomesStored(id, stored),
         used' \subseteq Handles, used \subseteq used', alive' \subseteq used',
         \A other \in Handles : other # id => (other \in alive' <=> other \in alive),
         has_provider' = has_provider, calls' \in Nat,
         HandleOK(id)', OwnTraceparent', HeadersKept'
  PROVE  CurlInv'
<1>1. CurlTypeOK /\ id \in Handles
  BY DEF CurlInv
<1>2. /\ DOMAIN curl_header' \subseteq used'
      /\ curl_header' \in [DOMAIN curl_header' -> HeaderLists]
      /\ \A other \in Handles : other # id =>
               /\ other \in DOMAIN curl_header' <=> other \in DOMAIN curl_header
               /\ other \in DOMAIN curl_header => curl_header'[other] = curl_header[other]
  <2>1. CASE StaysStored(id)
    BY <1>1, <2>1, Zenon DEF StaysStored, CurlTypeOK
  <2>2. CASE id \in used /\ (NotStored(id) \/ \E stored \in HeaderLists : BecomesStored(id, stored))
    BY <1>1, <2>2, StoredFacts, Zenon
  <2>3. QED
    BY <2>1, <2>2
<1>3. CurlTypeOK'
  BY <1>1, <1>2, BecomesFacts, Zenon DEF CurlTypeOK
<1>4. ASSUME NEW other \in Handles PROVE HandleOK(other)'
  <2>1. CASE other = id
    BY <2>1
  <2>2. CASE other # id
    <3>1. Untouched(other)
      BY <1>1, <1>2, <2>2, BecomesFacts, Zenon DEF Untouched
    <3>2. QED
      BY <3>1, UntouchedOK, Zenon DEF CurlInv
  <2>3. QED
    BY <2>1, <2>2
<1>5. ASSUME ~has_provider' PROVE DOMAIN curl_header' = {}
  <2>1. DOMAIN curl_header = {} /\ ~has_provider
    BY <1>5, Zenon DEF CurlInv
  <2>2. CASE StaysStored(id)
    BY <2>1, <2>2, Zenon DEF StaysStored
  <2>3. CASE NotStored(id)
    BY <2>1, <2>3, Zenon DEF NotStored, Without
  <2>4. QED
    BY <2>1, <2>2, <2>3, Zenon DEF BecomesStored
<1>6. QED
  BY <1>3, <1>4, <1>5, Zenon DEF CurlInv

(* A handle that is not alive has only the first part of HandleOK to keep.   *)
LEMMA CurlInitInv ==
  ASSUME CurlInv, NEW id \in Handles, CurlInit(id)
  PROVE  CurlInv'
<1>1. /\ alive' = alive \cup {id} /\ used' = used \cup {id}
      /\ Becomes(id, List(Nothing), Nothing, Inherited(id))
      /\ StaysStored(id) /\ UNCHANGED <<has_provider, calls>> /\ sent' = NoCall
  BY Zenon DEF CurlInit, Becomes, StaysStored
<1>2. List(Nothing) \in HeaderLists /\ Nothing \in Lists \cup {Nothing}
  BY ListFacts
<1>3. Inherited(id) \in SUBSET Marks
  BY DEF CurlInv, CurlTypeOK, Inherited, Marks
<1>4. native'[id] = List(Nothing) /\ wanted'[id] = Nothing /\ past'[id] = Inherited(id)
  <2>1. CurlTypeOK
    BY DEF CurlInv
  <2>2. QED
    BY <1>1, <1>2, <1>3, <2>1, BecomesFacts
<1>5. Option(id)' = Option(id)
  BY <1>1, Zenon DEF Option, StaysStored
<1>6. HandleOK(id)'
  <2>1. CASE id \in DOMAIN curl_header
    <3>1. past[id] # {}
      BY <2>1, Zenon DEF CurlInv, HandleOK
    <3>2. "reused" \in past'[id] /\ ("unlisted" \in past[id] => "unlisted" \in past'[id])
      BY <1>4, <3>1 DEF Inherited
    <3>3. ~Seen(id)'
      BY <3>2 DEF Seen
    <3>4. curl_header[id] = NoArray => "unlisted" \in past[id]
      BY <2>1, Zenon DEF CurlInv, HandleOK
    <3>5. native'[id].added = <<>>
      BY <1>4, ListFacts
    <3>6. QED
      BY <1>1, <3>2, <3>3, <3>4, <3>5, Zenon DEF HandleOK, StaysStored
  <2>2. CASE id \notin DOMAIN curl_header
    <3>1. Option(id)' = List(Nothing) /\ id \notin DOMAIN curl_header'
      BY <1>1, <1>5, <2>2, Zenon DEF Option, StaysStored
    <3>2. List(Nothing).script = Nothing /\ List(Nothing).added = <<>>
      BY ListFacts
    <3>3. QED
      BY <1>4, <3>1, <3>2, Zenon DEF HandleOK
  <2>3. QED
    BY <2>1, <2>2
<1>7. /\ id \in used' /\ used' \subseteq Handles /\ used \subseteq used' /\ alive' \subseteq used'
      /\ \A other \in Handles : other # id => (other \in alive' <=> other \in alive)
      /\ calls' \in Nat /\ has_provider' = has_provider
  BY <1>1 DEF CurlInv, CurlTypeOK
<1>8. QED
  BY <1>1, <1>2, <1>3, <1>6, <1>7, HandleStep, NoCallMade, Zenon

(* A copy has what libcurl's list of the original holds, calls and all. *)
LEMMA CurlCopyInv ==
  ASSUME CurlInv, NEW from \in Handles, NEW id \in Handles, CurlCopy(from, id)
  PROVE  CurlInv'
<1> DEFINE marks == Inherited(id) \cup (past[from] \cap {"called"}) \cup {"copied"}
<1>0. CurlTypeOK /\ HandleOK(id) /\ HandleOK(from)
  BY Zenon DEF CurlInv
<1>1. /\ alive' = alive \cup {id} /\ used' = used \cup {id} /\ from \in alive
      /\ Becomes(id, native[from], wanted[from], marks)
      /\ StaysStored(id) /\ UNCHANGED <<has_provider, calls>> /\ sent' = NoCall
  BY Zenon DEF CurlCopy, Becomes, StaysStored
<1>2. native[from] \in HeaderLists /\ wanted[from] \in Lists \cup {Nothing} /\ marks \in SUBSET Marks
  BY <1>0 DEF CurlTypeOK, Inherited, Marks
<1>3. native'[id] = native[from] /\ past'[id] = marks
  BY <1>0, <1>1, <1>2, BecomesFacts
<1>4. /\ native[from].added = <<>> \/ "called" \in marks
      /\ "copied" \in marks
      /\ id \in DOMAIN curl_header => "reused" \in marks
      /\ "unlisted" \in past[id] => "unlisted" \in marks
  <2>1. id \in DOMAIN curl_header => past[id] # {}
    BY <1>0, Zenon DEF HandleOK
  <2>2. native[from].added = <<>> \/ "called" \in past[from]
    BY <1>0, <1>1, Zenon DEF HandleOK
  <2>3. QED
    BY <2>1, <2>2 DEF Inherited
<1> HIDE DEF marks
<1>5. id \notin DOMAIN curl_header' => Option(id)'.added = <<>>
  BY ListFacts DEF Option
<1>6. HandleOK(id)'
  <2>1. ~Seen(id)'
    BY <1>3, <1>4 DEF Seen
  <2>2. DOMAIN curl_header' = DOMAIN curl_header /\ curl_header' = curl_header
    BY <1>1, Zenon DEF StaysStored
  <2>3. QED
    BY <1>0, <1>3, <1>4, <1>5, <2>1, <2>2, Zenon DEF HandleOK
<1>7. /\ id \in used' /\ used' \subseteq Handles /\ used \subseteq used' /\ alive' \subseteq used'
      /\ \A other \in Handles : other # id => (other \in alive' <=> other \in alive)
      /\ calls' \in Nat /\ has_provider' = has_provider
  BY <1>0, <1>1 DEF CurlTypeOK
<1>8. QED
  BY <1>1, <1>2, <1>6, <1>7, HandleStep, NoCallMade, Zenon

LEMMA CurlResetInv ==
  ASSUME CurlInv, NEW id \in Handles, CurlReset(id)
  PROVE  CurlInv'
<1> DEFINE marks == past[id] \cup {"reset"}
<1>0. CurlTypeOK /\ HandleOK(id)
  BY Zenon DEF CurlInv
<1>1. /\ UNCHANGED <<alive, used>> /\ id \in alive
      /\ Becomes(id, List(Nothing), Nothing, marks)
      /\ StaysStored(id) /\ UNCHANGED <<has_provider, calls>> /\ sent' = NoCall
  BY DEF CurlReset, Becomes, StaysStored
<1>2. List(Nothing) \in HeaderLists /\ List(Nothing).added = <<>> /\ marks \in SUBSET Marks
  BY <1>0, ListFacts DEF CurlTypeOK, Marks
<1>3. native'[id] = List(Nothing) /\ past'[id] = marks
  BY <1>0, <1>1, <1>2, BecomesFacts
<1>4. HandleOK(id)'
  <2>1. "reset" \in marks /\ past[id] \subseteq marks
    OBVIOUS
  <2>2. ~Seen(id)'
    BY <1>3, <2>1 DEF Seen
  <2>3. Option(id)' = Option(id) /\ curl_header' = curl_header
    BY <1>1, Zenon DEF Option, StaysStored
  <2> HIDE DEF marks
  <2>4. QED
    BY <1>0, <1>1, <1>2, <1>3, <2>1, <2>2, <2>3, Zenon DEF HandleOK
<1>5. /\ id \in used' /\ used' \subseteq Handles /\ used \subseteq used' /\ alive' \subseteq used'
      /\ \A other \in Handles : other # id => (other \in alive' <=> other \in alive)
      /\ calls' \in Nat /\ has_provider' = has_provider
  BY <1>0, <1>1 DEF CurlTypeOK
<1>6. QED
  BY <1>1, <1>2, <1>4, <1>5, HandleStep, NoCallMade, Zenon

LEMMA UnsetInv ==
  ASSUME CurlInv, NEW id \in Handles, Unset(id)
  PROVE  CurlInv'
<1> DEFINE marks == past[id] \cap {"collected", "unlisted", "reused"}
<1>0. CurlTypeOK /\ HandleOK(id)
  BY Zenon DEF CurlInv
<1>1. /\ alive' = alive \ {id} /\ used' = used /\ id \in alive
      /\ Becomes(id, List(Nothing), Nothing, marks)
      /\ StaysStored(id) /\ UNCHANGED <<has_provider, calls>> /\ sent' = NoCall
  BY DEF Unset, Becomes, StaysStored
<1>2. List(Nothing) \in HeaderLists /\ marks \in SUBSET Marks
  BY <1>0, ListFacts DEF CurlTypeOK, Marks
<1>3. past'[id] = marks
  BY <1>0, <1>1, <1>2, BecomesFacts
<1>4. HandleOK(id)'
  <2>1. \A mark \in {"collected", "unlisted", "reused"} : mark \in past[id] => mark \in marks
    OBVIOUS
  <2>2. curl_header' = curl_header /\ id \notin alive'
    BY <1>1 DEF StaysStored
  <2> HIDE DEF marks
  <2>3. QED
    BY <1>0, <1>3, <2>1, <2>2 DEF HandleOK
<1>5. /\ id \in used' /\ used' \subseteq Handles /\ used \subseteq used' /\ alive' \subseteq used'
      /\ \A other \in Handles : other # id => (other \in alive' <=> other \in alive)
      /\ calls' \in Nat /\ has_provider' = has_provider
  BY <1>0, <1>1 DEF CurlTypeOK
<1>6. QED
  BY <1>1, <1>2, <1>4, <1>5, HandleStep, NoCallMade, Zenon

(* A step that changes nothing of the handles. *)
LEMMA QuietCurl ==
  ASSUME CurlInv, UNCHANGED <<has_provider, curl_header, alive, used, native, wanted, past, calls>>,
         OwnTraceparent', HeadersKept'
  PROVE  CurlInv'
<1>1. CurlTypeOK'
  BY Zenon DEF CurlInv, CurlTypeOK
<1>2. ASSUME NEW id \in Handles PROVE HandleOK(id)'
  <2>1. Untouched(id)
    BY Zenon DEF Untouched
  <2>2. QED
    BY <2>1, UntouchedOK, Zenon DEF CurlInv
<1>3. QED
  BY <1>1, <1>2, Zenon DEF CurlInv

LEMMA CloseInv ==
  ASSUME CurlInv, NEW id \in Handles, Close(id)
  PROVE  CurlInv'
<1>0. CurlTypeOK /\ HandleOK(id) /\ id \in alive /\ id \in used
  <2>1. CurlTypeOK /\ HandleOK(id) /\ id \in alive
    BY Zenon DEF CurlInv, Close
  <2>2. QED
    BY <2>1 DEF CurlTypeOK
<1>1. UNCHANGED <<has_provider, used, calls>> /\ sent' = NoCall /\ (has_provider \/ StaysStored(id))
  BY Zenon DEF Close, Forget, StaysStored
<1>2. NotStored(id) \/ StaysStored(id)
  BY Zenon DEF Close, Forget, StaysStored, NotStored
<1>3. id \notin DOMAIN curl_header'
  <2>1. CASE has_provider
    <3>1. curl_header' = Without(curl_header, id)
      BY <2>1, Zenon DEF Close, Forget
    <3>2. QED
      BY <3>1 DEF Without
  <2>2. CASE ~has_provider
    BY <1>1, <2>2, Zenon DEF CurlInv, StaysStored
  <2>3. QED
    BY <2>1, <2>2
<1>4. Option(id)' = List(Nothing) /\ List(Nothing) \in HeaderLists /\ List(Nothing).added = <<>>
  BY <1>3, ListFacts DEF Option
<1>5. used' \subseteq Handles /\ used \subseteq used' /\ calls' \in Nat
  BY <1>0, <1>1 DEF CurlTypeOK
<1>6. CASE ~php8
  <2>1. Becomes(id, List(Nothing), Nothing, {}) /\ alive' = alive \ {id}
    BY <1>6, Zenon DEF Close, Becomes
  <2>2. HandleOK(id)'
    BY <1>3, <2>1 DEF HandleOK
  <2>3. alive' \subseteq used' /\ \A other \in Handles : other # id => (other \in alive' <=> other \in alive)
    BY <1>0, <1>1, <2>1 DEF CurlTypeOK
  <2>4. {} \in SUBSET Marks /\ Nothing \in Lists \cup {Nothing}
    OBVIOUS
  <2>5. QED
    BY <1>0, <1>1, <1>2, <1>4, <1>5, <2>1, <2>2, <2>3, <2>4, HandleStep, NoCallMade, Zenon
<1>7. CASE php8 /\ ~has_provider
  <2>1. past' = [past EXCEPT ![id] = @] /\ UNCHANGED <<alive, native, wanted>>
    BY <1>7, Zenon DEF Close
  <2>2. past' = past /\ curl_header' = curl_header
    BY <1>0, <1>1, <1>7, <2>1 DEF CurlTypeOK, StaysStored
  <2>3. QED
    BY <1>1, <2>1, <2>2, QuietCurl, NoCallMade, Zenon
<1>8. CASE php8 /\ has_provider
  <2> DEFINE marks == (past[id] \ {"collected", "unlisted", "reused"}) \cup {"closed"}
  <2>1. past' = [past EXCEPT ![id] = marks] /\ UNCHANGED <<alive, native, wanted>>
    BY <1>8, Zenon DEF Close
  <2>2. Becomes(id, native[id], wanted[id], marks)
    BY <1>0, <2>1, SameBecomes, Zenon DEF Becomes
  <2>3. native[id] \in HeaderLists /\ wanted[id] \in Lists \cup {Nothing} /\ marks \in SUBSET Marks
    BY <1>0 DEF CurlTypeOK, Marks
  <2>4. native'[id] = native[id] /\ past'[id] = marks
    BY <1>0, <2>2, <2>3, BecomesFacts
  <2>5. ("called" \in past[id] => "called" \in past'[id]) /\ ~Seen(id)'
    BY <2>4 DEF Seen
  <2>6. HandleOK(id)'
    BY <1>0, <1>3, <1>4, <2>4, <2>5, Zenon DEF HandleOK
  <2>7. alive' \subseteq used' /\ alive' = alive
    BY <1>0, <1>1, <2>1 DEF CurlTypeOK
  <2> HIDE DEF marks
  <2>8. QED
    BY <1>0, <1>1, <1>2, <1>5, <2>2, <2>3, <2>6, <2>7, HandleStep, NoCallMade, Zenon
<1>9. QED
  BY <1>6, <1>7, <1>8

-----------------------------------------------------------------------------
(* Headers are set. *)

SameHandles == UNCHANGED <<has_provider, alive, used, calls>> /\ sent' = NoCall

(* Collected: the table and libcurl have the same list. *)
LEMMA CollectedInv ==
  ASSUME CurlInv, NEW id \in alive, NEW script \in Lists, SameHandles,
         BecomesStored(id, List(script)), Becomes(id, List(script), script, {"collected"})
  PROVE  CurlInv'
<1>0. CurlTypeOK /\ id \in Handles /\ id \in used
  BY DEF CurlInv, CurlTypeOK
<1>1. /\ List(script) \in HeaderLists /\ List(script) # NoArray
      /\ List(script).script = script /\ List(script).added = <<>>
      /\ script \in Lists \cup {Nothing} /\ {"collected"} \in SUBSET Marks
  BY ListFacts DEF Marks
<1>2. native'[id] = List(script) /\ wanted'[id] = script /\ past'[id] = {"collected"}
  BY <1>0, <1>1, BecomesFacts
<1>3. curl_header'[id] = List(script) /\ id \in DOMAIN curl_header'
  BY DEF BecomesStored, With
<1>4. HandleOK(id)'
  BY <1>1, <1>2, <1>3, Zenon DEF HandleOK, Option
<1>5. /\ used' \subseteq Handles /\ used \subseteq used' /\ calls' \in Nat
      /\ alive' \subseteq used' /\ alive' = alive /\ id \in used' /\ has_provider' = has_provider
  BY <1>0 DEF CurlTypeOK, SameHandles
<1>6. QED
  BY <1>0, <1>1, <1>4, <1>5, HandleStep, NoCallMade, Zenon DEF SameHandles

(* Set while no trace is open. *)
LEMMA OutsideInv ==
  ASSUME CurlInv, NEW id \in alive, NEW script \in Lists, SameHandles, ~has_provider,
         StaysStored(id), Becomes(id, List(script), script, {"outside"})
  PROVE  CurlInv'
<1>0. CurlTypeOK /\ id \in Handles /\ id \in used
  BY DEF CurlInv, CurlTypeOK
<1>1. /\ List(script) \in HeaderLists /\ List(script).added = <<>> /\ List(Nothing).added = <<>>
      /\ script \in Lists \cup {Nothing} /\ {"outside"} \in SUBSET Marks
  BY ListFacts DEF Marks
<1>2. native'[id] = List(script) /\ past'[id] = {"outside"}
  BY <1>0, <1>1, BecomesFacts
<1>3. id \notin DOMAIN curl_header'
  BY Zenon DEF CurlInv, StaysStored
<1>4. ~Seen(id)'
  BY <1>2 DEF Seen
<1>5. HandleOK(id)'
  BY <1>1, <1>2, <1>3, <1>4, Zenon DEF HandleOK, Option
<1>6. /\ used' \subseteq Handles /\ used \subseteq used' /\ calls' \in Nat
      /\ alive' \subseteq used' /\ alive' = alive /\ id \in used' /\ has_provider' = has_provider
  BY <1>0 DEF CurlTypeOK, SameHandles
<1>7. QED
  BY <1>0, <1>1, <1>5, <1>6, HandleStep, NoCallMade, Zenon DEF SameHandles

(* What curl_setopt_array stores of a value that is no plain array.          *)
LEMMA UnlistedInv ==
  ASSUME CurlInv, NEW id \in alive, SameHandles,
         NEW list \in HeaderLists, NEW script \in Lists \cup {Nothing},
         \/ list = List(script)
         \/ list = native[id] /\ script = wanted[id],
         BecomesStored(id, NoArray), Becomes(id, list, script, past[id] \cup {"unlisted"})
  PROVE  CurlInv'
<1> DEFINE marks == past[id] \cup {"unlisted"}
<1>0. CurlTypeOK /\ id \in Handles /\ id \in used /\ HandleOK(id)
  BY DEF CurlInv, CurlTypeOK
<1>1. marks \in SUBSET Marks /\ NoArray \in HeaderLists
  BY <1>0 DEF CurlTypeOK, Marks, NoArray, HeaderLists
<1>2. native'[id] = list /\ wanted'[id] = script /\ past'[id] = marks
  BY <1>0, <1>1, BecomesFacts
<1>3. "unlisted" \in marks /\ past[id] \subseteq marks
  OBVIOUS
<1>4. curl_header'[id] = NoArray /\ id \in DOMAIN curl_header'
  BY DEF BecomesStored, With
<1>5. Seen(id)' => Seen(id)
  BY <1>2 DEF Seen
<1>6. /\ Seen(id)' => list.script = script
      /\ list.added = <<>> \/ "called" \in marks
  <2>1. CASE list = List(script)
    BY <2>1, ListFacts
  <2>2. CASE list = native[id] /\ script = wanted[id]
    BY <1>0, <1>3, <1>5, <2>2, Zenon DEF HandleOK
  <2>3. QED
    BY <2>1, <2>2
<1> HIDE DEF marks
<1>7. HandleOK(id)'
  BY <1>2, <1>3, <1>4, <1>6, Zenon DEF HandleOK, Option
<1>8. /\ used' \subseteq Handles /\ used \subseteq used' /\ calls' \in Nat
      /\ alive' \subseteq used' /\ alive' = alive /\ id \in used' /\ has_provider' = has_provider
  BY <1>0 DEF CurlTypeOK, SameHandles
<1>9. Becomes(id, list, script, marks)
  BY DEF marks
<1>10. QED
  BY <1>0, <1>1, <1>7, <1>8, <1>9, HandleStep, NoCallMade, Zenon DEF SameHandles

LEMMA ValueFacts ==
  ASSUME NEW value \in Values
  PROVE  /\ value.kind \in {"array", "reference", "scalar"}
         /\ value.kind # "scalar" => value.list \in Lists
BY DEF Values

LEMMA SetOptInv ==
  ASSUME CurlInv, NEW id \in Handles, NEW value \in Values, SetOpt(id, value)
  PROVE  CurlInv'
<1>0. CurlTypeOK /\ id \in alive
  BY Zenon DEF CurlInv, SetOpt
<1>1. SameHandles
  BY Zenon DEF SetOpt, SameHandles
<1>2. CASE value.kind = "scalar"
  <2>1. past' = [past EXCEPT ![id] = @] /\ UNCHANGED <<curl_header, native, wanted>>
    BY <1>2 DEF SetOpt, Collects, NativeSet
  <2>2. past' = past
    BY <1>0, <2>1 DEF CurlTypeOK
  <2>3. QED
    BY <1>1, <2>1, <2>2, QuietCurl, NoCallMade, Zenon DEF SameHandles
<1>3. CASE value.kind = "array" /\ has_provider
  <2>1. BecomesStored(id, List(value.list)) /\ Becomes(id, List(value.list), value.list, {"collected"})
    BY <1>3 DEF SetOpt, Collects, NativeSet, BecomesStored, Becomes
  <2>2. QED
    BY <1>0, <1>1, <1>3, <2>1, ValueFacts, CollectedInv
<1>4. CASE value.kind = "array" /\ ~has_provider
  <2>1. StaysStored(id) /\ Becomes(id, List(value.list), value.list, {"outside"})
    BY <1>4 DEF SetOpt, Collects, NativeSet, StaysStored, Becomes
  <2>2. QED
    BY <1>0, <1>1, <1>4, <2>1, ValueFacts, OutsideInv
<1>5. QED
  BY <1>2, <1>3, <1>4, ValueFacts, Zenon DEF SetOpt

LEMMA SetOptArrayInv ==
  ASSUME CurlInv, NEW id \in Handles, NEW value \in Values, SetOptArray(id, value)
  PROVE  CurlInv'
<1>0. CurlTypeOK /\ id \in alive
  BY Zenon DEF CurlInv, SetOptArray
<1>1. SameHandles
  BY Zenon DEF SetOptArray, SameHandles
<1>2. CASE value.kind = "scalar" /\ ~has_provider
  <2>1. past' = [past EXCEPT ![id] = @] /\ UNCHANGED <<curl_header, native, wanted>>
    BY <1>2 DEF SetOptArray, CollectAll, NativeSet
  <2>2. past' = past
    BY <1>0, <2>1 DEF CurlTypeOK
  <2>3. QED
    BY <1>1, <2>1, <2>2, QuietCurl, NoCallMade, Zenon DEF SameHandles
<1>3. CASE value.kind = "array" /\ has_provider
  <2>1. BecomesStored(id, List(value.list)) /\ Becomes(id, List(value.list), value.list, {"collected"})
    BY <1>3 DEF SetOptArray, CollectAll, NativeSet, BecomesStored, Becomes
  <2>2. QED
    BY <1>0, <1>1, <1>3, <2>1, ValueFacts, CollectedInv
<1>4. CASE value.kind # "scalar" /\ ~has_provider
  <2>1. StaysStored(id) /\ Becomes(id, List(value.list), value.list, {"outside"})
    BY <1>4 DEF SetOptArray, CollectAll, NativeSet, StaysStored, Becomes
  <2>2. QED
    BY <1>0, <1>1, <1>4, <2>1, ValueFacts, OutsideInv
<1>5. CASE value.kind = "reference" /\ has_provider
  <2>1. /\ BecomesStored(id, NoArray)
        /\ Becomes(id, List(value.list), value.list, past[id] \cup {"unlisted"})
    BY <1>5 DEF SetOptArray, CollectAll, NativeSet, BecomesStored, Becomes
  <2>2. value.list \in Lists \cup {Nothing} /\ List(value.list) \in HeaderLists
    BY <1>5, ValueFacts, ListFacts
  <2>3. QED
    BY <1>0, <1>1, <2>1, <2>2, UnlistedInv
<1>6. CASE value.kind = "scalar" /\ has_provider
  <2>1. /\ BecomesStored(id, NoArray)
        /\ past' = [past EXCEPT ![id] = past[id] \cup {"unlisted"}] /\ UNCHANGED <<native, wanted>>
    BY <1>6 DEF SetOptArray, CollectAll, NativeSet, BecomesStored
  <2>2. id \in Handles /\ native[id] \in HeaderLists /\ wanted[id] \in Lists \cup {Nothing}
    BY <1>0 DEF CurlTypeOK
  <2>3. Becomes(id, native[id], wanted[id], past[id] \cup {"unlisted"})
    BY <1>0, <2>1, SameBecomes, Zenon DEF Becomes
  <2>4. QED
    BY <1>0, <1>1, <2>1, <2>2, <2>3, UnlistedInv
<1>7. QED
  BY <1>2, <1>3, <1>4, <1>5, <1>6, ValueFacts, Zenon

-----------------------------------------------------------------------------
(* The trace. *)

LEMMA StartTracerCurl ==
  ASSUME CurlInv, StartTracer
  PROVE  CurlInv'
<1>1. UNCHANGED <<alive, used, native, wanted, past, calls>>
  BY Zenon DEF StartTracer
<1>2. curl_header' = NoTable /\ ~has_provider /\ has_provider' = TRUE /\ sent' = NoCall
  BY Zenon DEF StartTracer
<1>3. DOMAIN curl_header' = {} /\ DOMAIN curl_header = {}
  BY <1>2 DEF NoTable, CurlInv
<1>4. CurlTypeOK'
  BY <1>1, <1>2, <1>3 DEF CurlInv, CurlTypeOK
<1>5. ASSUME NEW id \in Handles PROVE HandleOK(id)'
  <2>1. Untouched(id)
    BY <1>1, <1>3, Zenon DEF Untouched
  <2>2. QED
    BY <2>1, UntouchedOK, Zenon DEF CurlInv
<1>6. QED
  BY <1>2, <1>3, <1>4, <1>5, NoCallMade, Zenon DEF CurlInv

LEMMA ShutdownTracerCurl ==
  ASSUME CurlInv, ShutdownTracer
  PROVE  CurlInv'
<1>0. CurlTypeOK
  BY DEF CurlInv
<1>1. UNCHANGED <<alive, used, native, wanted, calls>> /\ sent' = NoCall
  BY Zenon DEF ShutdownTracer
<1>2. DOMAIN curl_header' = {} /\ curl_header' = NoTable /\ has_provider' \in BOOLEAN
  BY DEF NoTable, ShutdownTracer
<1>3. \A id \in Handles :
         /\ past'[id] \in SUBSET Marks
         /\ id \in alive =>
               /\ "called" \in past[id] => "called" \in past'[id]
               /\ Seen(id)' => Seen(id) /\ wanted[id] = Nothing
  <2>1. ASSUME NEW id \in Handles, id \notin alive PROVE past'[id] = {}
    BY <2>1 DEF ShutdownTracer
  <2>2. ASSUME NEW id \in alive
        PROVE  past'[id] = (past[id] \ {"collected", "unlisted", "reused"})
                 \cup (IF wanted[id] = Nothing /\ "reused" \notin past[id] THEN {} ELSE {"outside"})
    BY <1>0 DEF ShutdownTracer, CurlTypeOK
  <2>3. ASSUME NEW id \in alive
        PROVE  /\ past'[id] \in SUBSET Marks
               /\ "called" \in past[id] => "called" \in past'[id]
               /\ Seen(id)' => Seen(id) /\ wanted[id] = Nothing
    <3>1. past[id] \in SUBSET Marks
      BY <1>0 DEF CurlTypeOK
    <3>2. past'[id] \in SUBSET Marks
      BY <2>2, <3>1 DEF Marks
    <3>3. "called" \in past[id] => "called" \in past'[id]
      BY <2>2
    <3>4. CASE wanted[id] = Nothing /\ "reused" \notin past[id]
      BY <2>2, <3>2, <3>3, <3>4 DEF Seen
    <3>5. CASE ~(wanted[id] = Nothing /\ "reused" \notin past[id])
      BY <2>2, <3>2, <3>3, <3>5 DEF Seen
    <3>6. QED
      BY <3>4, <3>5, Zenon
  <2>4. QED
    BY <2>1, <2>3, Zenon
<1>4. CurlTypeOK'
  <2>1. past' \in [Handles -> SUBSET Marks]
    BY <1>3 DEF ShutdownTracer
  <2>2. QED
    BY <1>0, <1>1, <1>2, <2>1 DEF CurlTypeOK
<1>5. ASSUME NEW id \in Handles PROVE HandleOK(id)'
  <2>1. Option(id)' = List(Nothing) /\ List(Nothing).script = Nothing /\ List(Nothing).added = <<>>
    BY <1>2, ListFacts DEF Option
  <2>2. QED
    BY <1>1, <1>2, <1>3, <2>1, Zenon DEF CurlInv, HandleOK
<1>6. QED
  BY <1>1, <1>2, <1>4, <1>5, NoCallMade, Zenon DEF CurlInv

-----------------------------------------------------------------------------
(* curl_exec.  What it records of the call, by what it did. *)
CallRecord(id, traced, list, corrupted) ==
    sent' = [traced |-> traced, call |-> calls + 1, list |-> list, wanted |-> wanted[id],
             past |-> past[id], corrupted |-> corrupted]

LEMMA UntracedCall ==
  ASSUME CurlInv, NEW id \in Handles, Exec(id, FALSE)
  PROVE  CurlInv'
<1>0. CurlTypeOK /\ HandleOK(id) /\ id \in alive /\ calls \in Nat
  BY Zenon DEF CurlInv, CurlTypeOK, Exec
<1>1. /\ CallRecord(id, FALSE, native[id], FALSE) /\ calls' = calls + 1
      /\ native' = [native EXCEPT ![id] = native[id]] /\ past' = [past EXCEPT ![id] = past[id]]
      /\ UNCHANGED <<has_provider, curl_header, alive, used, wanted>>
  BY Zenon DEF Exec, CallRecord
<1>2. UNCHANGED <<native, past>>
  BY <1>0, <1>1 DEF CurlTypeOK
<1>3. /\ ~sent'.traced /\ ~sent'.corrupted /\ sent'.call = calls + 1
      /\ sent'.list = native[id] /\ sent'.wanted = wanted[id] /\ sent'.past = past[id]
  BY <1>1 DEF CallRecord
<1>4. OwnTraceparent'
  BY <1>0, <1>3, Zenon DEF OwnTraceparent, HandleOK
<1>5. HeadersKept'
  BY <1>0, <1>3, Zenon DEF HeadersKept, HandleOK, Seen
<1>6. CurlTypeOK'
  BY <1>0, <1>1, <1>2 DEF CurlTypeOK
<1>7. ASSUME NEW other \in Handles PROVE HandleOK(other)'
  <2>1. Untouched(other)
    BY <1>1, <1>2, Zenon DEF Untouched
  <2>2. QED
    BY <2>1, UntouchedOK, Zenon DEF CurlInv
<1>8. QED
  BY <1>1, <1>4, <1>5, <1>6, <1>7, Zenon DEF CurlInv

LEMMA CorruptedCall ==
  ASSUME CurlInv, NEW id \in Handles, Exec(id, TRUE), Option(id) = NoArray
  PROVE  CurlInv'
<1> DEFINE marks == past[id] \cup {"called"}
<1>0. CurlTypeOK /\ HandleOK(id) /\ id \in alive /\ id \in used /\ calls \in Nat
  <2>1. CurlTypeOK /\ HandleOK(id) /\ id \in alive
    BY Zenon DEF CurlInv, Exec
  <2>2. QED
    BY <2>1 DEF CurlTypeOK
<1>1. /\ CallRecord(id, TRUE, native[id], TRUE) /\ calls' = calls + 1
      /\ native' = [native EXCEPT ![id] = native[id]] /\ past' = [past EXCEPT ![id] = marks]
      /\ UNCHANGED <<has_provider, curl_header, alive, used, wanted>>
  BY Zenon DEF Exec, CallRecord
<1>2. Becomes(id, native[id], wanted[id], marks) /\ StaysStored(id)
  BY <1>0, <1>1, SameBecomes, Zenon DEF Becomes, StaysStored
<1>3. native[id] \in HeaderLists /\ wanted[id] \in Lists \cup {Nothing} /\ marks \in SUBSET Marks
  BY <1>0 DEF CurlTypeOK, Marks
<1>4. native'[id] = native[id] /\ wanted'[id] = wanted[id] /\ past'[id] = marks
  BY <1>0, <1>2, <1>3, BecomesFacts
<1>5. /\ sent'.corrupted /\ sent'.list = native[id] /\ sent'.wanted = wanted[id]
      /\ sent'.past = past[id]
  BY <1>1 DEF CallRecord
<1>6. id \in DOMAIN curl_header /\ curl_header[id] = NoArray
  BY ListFacts DEF Option
<1>7. OwnTraceparent'
  BY <1>5 DEF OwnTraceparent
<1>8. HeadersKept'
  BY <1>0, <1>5, <1>6, Zenon DEF HeadersKept, HandleOK, Seen
<1>9. past[id] \subseteq past'[id] /\ (Seen(id)' => Seen(id))
  BY <1>4 DEF Seen
<1>10. Option(id)' = NoArray
  BY <1>1, Zenon DEF Option
<1>11. HandleOK(id)'
  BY <1>0, <1>1, <1>4, <1>6, <1>9, <1>10, Zenon DEF HandleOK
<1>12. /\ used' \subseteq Handles /\ used \subseteq used' /\ calls' \in Nat
       /\ alive' \subseteq used' /\ alive' = alive /\ id \in used' /\ has_provider' = has_provider
  BY <1>0, <1>1 DEF CurlTypeOK
<1>13. QED
  BY <1>0, <1>2, <1>3, <1>7, <1>8, <1>11, <1>12, HandleStep, Zenon

LEMMA TracedCall ==
  ASSUME CurlInv, NEW id \in Handles, Exec(id, TRUE), Option(id) # NoArray
  PROVE  CurlInv'
<1> DEFINE marks == past[id] \cup {"called"}
           list == WithHeaders(Option(id), calls + 1)
<1>0. CurlTypeOK /\ HandleOK(id) /\ id \in alive /\ id \in used /\ calls \in Nat /\ calls + 1 \in Nat
      /\ has_provider
  <2>1. CurlTypeOK /\ HandleOK(id) /\ id \in alive /\ has_provider
    BY Zenon DEF CurlInv, Exec
  <2>2. QED
    BY <2>1 DEF CurlTypeOK
<1>1. /\ CallRecord(id, TRUE, list, FALSE) /\ calls' = calls + 1
      /\ native' = [native EXCEPT ![id] = list] /\ past' = [past EXCEPT ![id] = marks]
      /\ curl_header' = Stored(id, list)
      /\ UNCHANGED <<has_provider, alive, used, wanted>>
  BY Zenon DEF Exec, CallRecord
<1>2. Option(id) \in HeaderLists /\ Option(id).added \in Seq(Nat)
  BY <1>0, OptionType DEF HeaderLists, CurlTypeOK
<1>3. /\ list \in HeaderLists /\ list.script = Option(id).script /\ list # NoArray
      /\ Last(list.added) = calls + 1 /\ Len(list.added) = Len(Option(id).added) + 1
  <2>1. calls + 1 # 0
    BY <1>0
  <2>2. QED
    BY <1>0, <1>2, <2>1, HeadersFacts, Zenon
<1> HIDE DEF list
<1>4. wanted[id] \in Lists \cup {Nothing} /\ marks \in SUBSET Marks /\ id \in Handles
  BY <1>0 DEF CurlTypeOK, Marks
<1>5. Becomes(id, list, wanted[id], marks)
  BY <1>0, <1>1, <1>4, SameBecomes, Zenon DEF Becomes
<1>6. native'[id] = list /\ wanted'[id] = wanted[id] /\ past'[id] = marks
  BY <1>0, <1>1, <1>3, <1>4 DEF CurlTypeOK
<1>7. /\ sent'.traced /\ ~sent'.corrupted /\ sent'.call = calls + 1
      /\ sent'.list = list /\ sent'.wanted = wanted[id] /\ sent'.past = past[id]
  BY <1>1 DEF CallRecord
<1>8. OwnTraceparent'
  <2>1. CASE Option(id).added = <<>>
    <3>1. Len(list.added) = 1
      BY <1>3, <2>1
    <3>2. QED
      BY <1>3, <1>7, <3>1, Zenon DEF OwnTraceparent
  <2>2. CASE Option(id).added # <<>>
    BY <1>0, <1>3, <1>7, <2>2, Zenon DEF OwnTraceparent, HandleOK
  <2>3. QED
    BY <2>1, <2>2
<1>9. HeadersKept'
  BY <1>0, <1>3, <1>7, Zenon DEF HeadersKept, HandleOK, Seen
<1>10. /\ "called" \in past'[id] /\ past[id] \subseteq past'[id]
       /\ Seen(id)' => Seen(id)
  BY <1>6 DEF Seen
<1>11. /\ used' \subseteq Handles /\ used \subseteq used' /\ calls' \in Nat
       /\ alive' \subseteq used' /\ alive' = alive /\ id \in used' /\ has_provider' = has_provider
  BY <1>0, <1>1 DEF CurlTypeOK
<1>12. CASE id \in DOMAIN curl_header
  <2>1. BecomesStored(id, list)
    BY <1>0, <1>1, <1>12, Zenon DEF Stored, BecomesStored
  <2>2. curl_header'[id] = list /\ id \in DOMAIN curl_header' /\ curl_header[id] = Option(id)
    BY <1>12, <2>1 DEF BecomesStored, With, Option
  <2>3. "collected" \in past[id] \/ "reused" \in past[id]
    BY <1>0, <1>12, <2>2, Zenon DEF HandleOK
  <2>4. HandleOK(id)'
    <3>1. Option(id)' = list
      BY <2>2, Zenon DEF Option
    <3>2. {"collected", "called"} \subseteq past'[id] \/ "reused" \in past'[id]
      BY <1>10, <2>3
    <3>3. QED
      BY <1>0, <1>3, <1>6, <1>10, <2>2, <3>1, <3>2, Zenon DEF HandleOK
  <2>5. QED
    BY <1>0, <1>3, <1>4, <1>5, <1>8, <1>9, <1>11, <2>1, <2>4, HandleStep, Zenon
<1>13. CASE id \notin DOMAIN curl_header
  <2>1. StaysStored(id) /\ curl_header' = curl_header
    BY <1>1, <1>13, Zenon DEF Stored, StaysStored
  <2>2. Option(id)' = Option(id) /\ Option(id) = List(Nothing)
    BY <1>13, <2>1, Zenon DEF Option
  <2>3. HandleOK(id)'
    BY <1>0, <1>3, <1>6, <1>10, <1>13, <2>1, <2>2, ListFacts, Zenon DEF HandleOK
  <2>4. QED
    BY <1>0, <1>3, <1>4, <1>5, <1>8, <1>9, <1>11, <2>1, <2>3, HandleStep, Zenon
<1>14. QED
  BY <1>12, <1>13

-----------------------------------------------------------------------------
LEMMA CurlStep == CurlInv /\ [Next]_vars => CurlInv'
<1> SUFFICES ASSUME CurlInv, [Next]_vars PROVE CurlInv'
  OBVIOUS
<1>1. CASE UNCHANGED vars
  <2>1. OwnTraceparent' /\ HeadersKept'
    BY <1>1, Zenon DEF CurlInv, OwnTraceparent, HeadersKept, vars
  <2>2. QED
    BY <1>1, <2>1, QuietCurl, Zenon DEF vars
<1>2. ASSUME NEW id \in Handles, NEW traced \in BOOLEAN, Exec(id, traced) PROVE CurlInv'
  <2>1. CASE traced = TRUE
    BY <1>2, <2>1, CorruptedCall, TracedCall, Zenon
  <2>2. CASE traced = FALSE
    BY <1>2, <2>2, UntracedCall, Zenon
  <2>3. QED
    BY <2>1, <2>2
<1>3. QED
  BY <1>1, <1>2, StartTracerCurl, ShutdownTracerCurl, CurlInitInv, CurlResetInv, UnsetInv,
     CloseInv, CurlCopyInv, SetOptInv, SetOptArrayInv, Zenon DEF Next

LEMMA CurlInvHolds == CurlSpec => []CurlInv
BY InitCurl, CurlStep, PTL DEF CurlSpec

(* However handles are set, copied, reset, closed and reused, a traced call  *)
(* ends with its own traceparent, the only one unless a traced call used the *)
(* collected list before (zend_hook_curl.cc:67-137).                         *)
THEOREM TraceparentIsOwn == CurlSpec => []OwnTraceparent
<1>1. CurlInv => OwnTraceparent
  BY DEF CurlInv
<1>2. QED
  BY <1>1, CurlInvHolds, PTL

(* The headers of the script arrive unless they were changed where the hooks *)
(* do not look, and only what is no plain array in curl_setopt_array         *)
(* corrupts memory (zend_hook_curl.cc:230-323).                              *)
THEOREM ScriptHeadersAreKept == CurlSpec => []HeadersKept
<1>1. CurlInv => HeadersKept
  BY DEF CurlInv
<1>2. QED
  BY <1>1, CurlInvHolds, PTL

-----------------------------------------------------------------------------
(* What the callee reads: of one traceparent the caller's, of several none.  *)

LEMMA RoundTrips ==
  ASSUME NEW added \in Nat \ {0}
  PROVE  RoundTrip(added)
<1> SUFFICES ASSUME NEW trace \in Ids(TraceBytes), NEW span \in Ids(SpanBytes),
                    NEW sampled \in BOOLEAN
             PROVE  LET header == Joined([i \in 1 .. added |->
                                            FormatTraceParent(trace, span, sampled)])
                        read == ParseTraceParent(header)
                    IN IF added = 1
                       THEN read = [joined |-> TRUE, trace |-> trace, span |-> span,
                                    sampled |-> sampled]
                       ELSE ~read.joined
  BY Zenon DEF RoundTrip
<1> DEFINE text == FormatTraceParent(trace, span, sampled)
           texts == [i \in 1 .. added |-> text]
<1>1. text \in Seq(TraceChars) /\ Contains(text, "-") /\ Len(Explode("-", text)) = 4
  BY TraceParentParts
<1>2. CASE added = 1
  <2> DEFINE seqs == [i \in 1 .. 1 |-> (IF i = 1 THEN <<>> ELSE <<",", " ">>) \o texts[i]]
  <2>1. <<>> \o text = text
    BY <1>1, ConcatEmptySeq
  <2>2. Joined(texts) = FlattenSeq(seqs)
    <3>1. DOMAIN texts = 1 .. 1
      BY <1>2
    <3> HIDE DEF texts
    <3>2. QED
      BY <3>1, Zenon DEF Joined
  <2>3. seqs[1] = text
    BY <1>2, <2>1
  <2>4. seqs = <<text>>
    BY <1>2, <2>1
  <2>5. <<text>> \in Seq(Seq(TraceChars)) /\ Len(<<text>>) = 1 /\ <<text>> # <<>> /\ <<text>>[1] = text
    BY <1>1
  <2> HIDE DEF seqs, text, texts
  <2>6. PICK f : IsFlat(TraceChars, <<text>>, f)
    BY <2>5, Flatten, Zenon
  <2>7. FlattenSeq(<<text>>) = text
    BY <2>5, <2>6, Zenon DEF IsFlat
  <2>8. Joined(texts) = text
    BY <2>2, <2>4, <2>7, Zenon
  <2>9. ParseTraceParent(Joined(texts)) =
          [joined |-> TRUE, trace |-> trace, span |-> span, sampled |-> sampled]
    BY <2>8, TraceParentReturns, Zenon DEF text
  <2>10. QED
    BY <1>2, <2>9, Zenon DEF texts, text
<1>3. CASE added # 1
  <2>1. added \in Nat /\ added >= 2
    BY <1>3
  <2> HIDE DEF text
  <2> DEFINE seqs == [i \in 1 .. added |-> (IF i = 1 THEN <<>> ELSE <<",", " ">>) \o text]
  <2>2. Joined(texts) = Glued(added, <<",", " ">>, text)
    <3>1. DOMAIN texts = 1 .. added /\ \A i \in 1 .. added : texts[i] = text
      OBVIOUS
    <3>2. [i \in 1 .. added |-> (IF i = 1 THEN <<>> ELSE <<",", " ">>) \o texts[i]] = seqs
      BY <3>1
    <3>3. Glued(added, <<",", " ">>, text) = FlattenSeq(seqs)
      BY Zenon DEF Glued
    <3> HIDE DEF texts, seqs
    <3>4. QED
      BY <3>1, <3>2, <3>3, Zenon DEF Joined
  <2>3. Len(Explode("-", Joined(texts))) # 4
    <3>1. {"-", ",", " "} \subseteq TraceChars
      BY DEF TraceChars
    <3>2. "-" \in TraceChars /\ <<",", " ">> \in Seq(TraceChars)
      BY <3>1, PairIsSequence
    <3> HIDE DEF texts
    <3>3. QED
      BY <1>1, <2>1, <2>2, <3>2, ManyTexts, Zenon
  <2> HIDE DEF texts
  <2>4. ParseTraceParent(Joined(texts)) = Foreign /\ ~Foreign.joined
    <3>1. ~Foreign.joined
      BY DEF Foreign
    <3>2. QED
      BY <2>3, <3>1, Zenon DEF ParseTraceParent
  <2>5. QED
    BY <1>3, <2>4, Zenon DEF texts, text
<1>4. QED
  BY <1>2, <1>3

-----------------------------------------------------------------------------
(* How many traceparents a call carries: never more than calls were made.    *)
Short(list, n) == list = NoArray \/ Len(list.added) <= n

CallsInv ==
    /\ calls \in 0 .. MaxCalls
    /\ \A id \in DOMAIN curl_header : Short(curl_header[id], calls)
    /\ sent.traced /\ ~sent.corrupted => Len(sent.list.added) \in 1 .. MaxCalls

LEMMA CallsInit == Init => CallsInv
<1>1. MaxCalls \in Nat \ {0}
  BY CurlHeaderAssumption
<1>2. QED
  BY <1>1 DEF Init, CallsInv, NoTable, NoCall

(* What every step but a call does to the table. *)
TableMoves ==
    /\ calls' = calls /\ sent' = NoCall
    /\ \/ curl_header' = curl_header
       \/ curl_header' = NoTable
       \/ \E id \in Handles : curl_header' = Without(curl_header, id)
       \/ \E id \in Handles : curl_header' = With(curl_header, id, NoArray)
       \/ \E id \in Handles, script \in Lists \cup {Nothing} :
             curl_header' = With(curl_header, id, List(script))

LEMMA TableStep ==
  ASSUME CallsInv, TableMoves
  PROVE  CallsInv'
<1>1. calls' \in 0 .. MaxCalls
  BY DEF CallsInv, TableMoves
<1>2. ~sent'.traced
  BY DEF TableMoves, NoCall
<1>3. calls' = calls
  BY DEF TableMoves
<1>4. Short(NoArray, calls) /\ \A script \in Lists \cup {Nothing} : Short(List(script), calls)
  <2>1. \A script \in Lists \cup {Nothing} : Len(List(script).added) = 0
    BY DEF List
  <2>2. calls >= 0
    BY DEF CallsInv
  <2>3. QED
    BY <2>1, <2>2 DEF Short
<1>5. \A id \in DOMAIN curl_header : Short(curl_header[id], calls)
  BY Zenon DEF CallsInv
<1>6. ASSUME NEW other, NEW list, Short(list, calls), curl_header' = With(curl_header, other, list)
      PROVE  \A id \in DOMAIN curl_header' : Short(curl_header'[id], calls)
  BY <1>5, <1>6 DEF With
<1>7. \A id \in DOMAIN curl_header' : Short(curl_header'[id], calls)
  <2>1. CASE curl_header' = curl_header
    BY <1>5, <2>1, Zenon
  <2>2. CASE curl_header' = NoTable
    BY <2>2 DEF NoTable
  <2>3. ASSUME NEW other \in Handles, curl_header' = Without(curl_header, other)
        PROVE  \A id \in DOMAIN curl_header' : Short(curl_header'[id], calls)
    BY <1>5, <2>3 DEF Without
  <2>4. ASSUME NEW other \in Handles, curl_header' = With(curl_header, other, NoArray)
        PROVE  \A id \in DOMAIN curl_header' : Short(curl_header'[id], calls)
    BY <1>4, <1>6, <2>4, Zenon
  <2>5. ASSUME NEW other \in Handles, NEW script \in Lists \cup {Nothing},
               curl_header' = With(curl_header, other, List(script))
        PROVE  \A id \in DOMAIN curl_header' : Short(curl_header'[id], calls)
    BY <1>4, <1>6, <2>5, Zenon
  <2>6. QED
    BY <2>1, <2>2, <2>3, <2>4, <2>5, Zenon DEF TableMoves
<1>8. QED
  BY <1>1, <1>2, <1>3, <1>7, Zenon DEF CallsInv

LEMMA QuietMoves ==
  ASSUME NEW id \in Handles,
         CurlInit(id) \/ CurlReset(id) \/ Unset(id) \/ Close(id)
           \/ (\E from \in Handles : CurlCopy(from, id))
  PROVE  TableMoves
<1>1. CASE CurlInit(id) \/ CurlReset(id) \/ Unset(id)
  BY <1>1, Zenon DEF CurlInit, CurlReset, Unset, TableMoves
<1>2. CASE Close(id)
  <2>1. calls' = calls /\ sent' = NoCall /\ curl_header' = Forget(id)
    BY <1>2, Zenon DEF Close
  <2>2. QED
    BY <2>1, Zenon DEF Forget, TableMoves
<1>3. CASE \E from \in Handles : CurlCopy(from, id)
  BY <1>3, Zenon DEF CurlCopy, TableMoves
<1>4. QED
  BY <1>1, <1>2, <1>3, Zenon

LEMMA OptionMoves ==
  ASSUME NEW id \in Handles, NEW value \in Values, SetOpt(id, value) \/ SetOptArray(id, value)
  PROVE  TableMoves
<1>1. value.list \in Lists \cup {Nothing}
  BY DEF Values
<1>2. CASE SetOpt(id, value)
  <2>1. /\ calls' = calls /\ sent' = NoCall
        /\ \/ curl_header' = With(curl_header, id, List(value.list))
           \/ curl_header' = With(curl_header, id, NoArray)
           \/ curl_header' = curl_header
    BY <1>2, Zenon DEF SetOpt
  <2>2. QED
    BY <1>1, <2>1, Zenon DEF TableMoves
<1>3. CASE SetOptArray(id, value)
  <2>1. calls' = calls /\ sent' = NoCall /\ curl_header' = CollectAll(id, value)
    BY <1>3, Zenon DEF SetOptArray
  <2>2. \/ curl_header' = With(curl_header, id, List(value.list))
        \/ curl_header' = With(curl_header, id, NoArray)
        \/ curl_header' = curl_header
    BY <2>1, Zenon DEF CollectAll
  <2>3. QED
    BY <1>1, <2>1, <2>2, Zenon DEF TableMoves
<1>4. QED
  BY <1>2, <1>3

(* A call adds at most one traceparent to what is stored. *)
LEMMA CallShort ==
  ASSUME CurlInv, CallsInv, NEW id \in Handles, NEW traced \in BOOLEAN, Exec(id, traced)
  PROVE  CallsInv'
<1>0. calls \in Nat /\ calls + 1 \in 0 .. MaxCalls /\ MaxCalls \in Nat /\ calls' = calls + 1
  BY CurlHeaderAssumption DEF CallsInv, Exec
<1>1. \A list \in HeaderLists : Short(list, calls) => Short(list, calls')
  <2>1. \A list \in HeaderLists : Len(list.added) \in Nat
    BY DEF HeaderLists
  <2>2. QED
    BY <1>0, <2>1 DEF Short
<1>2. CurlTypeOK /\ \A other \in DOMAIN curl_header : Short(curl_header[other], calls)
  BY Zenon DEF CurlInv, CallsInv
<1>3. \A other \in DOMAIN curl_header : curl_header[other] \in HeaderLists
  BY <1>2 DEF CurlTypeOK
<1> DEFINE list == WithHeaders(Option(id), calls + 1)
<1>4. CASE ~traced \/ Option(id) = NoArray
  <2>1. curl_header' = curl_header
    BY <1>4, Zenon DEF Exec
  <2>2. \E other, corrupted : CallRecord(id, traced, other, corrupted) /\ (~traced \/ corrupted)
    <3>1. CASE ~traced
      BY <1>0, <3>1, Zenon DEF Exec, CallRecord
    <3>2. CASE traced /\ Option(id) = NoArray
      BY <1>0, <3>2, Zenon DEF Exec, CallRecord
    <3>3. QED
      BY <1>4, <3>1, <3>2
  <2>3. ~(sent'.traced /\ ~sent'.corrupted)
    <3>1. PICK other, corrupted : CallRecord(id, traced, other, corrupted) /\ (~traced \/ corrupted)
      BY <2>2
    <3>2. sent'.traced = traced /\ sent'.corrupted = corrupted
      BY <3>1 DEF CallRecord
    <3>3. QED
      BY <3>1, <3>2, Zenon
  <2>4. \A other \in DOMAIN curl_header' : Short(curl_header'[other], calls')
    BY <1>1, <1>2, <1>3, <2>1, Zenon
  <2>5. QED
    BY <1>0, <2>3, <2>4, Zenon DEF CallsInv
<1>5. CASE traced /\ Option(id) # NoArray
  <2>1. /\ CallRecord(id, TRUE, list, FALSE) /\ curl_header' = Stored(id, list)
    BY <1>0, <1>5, Zenon DEF Exec, CallRecord
  <2>2. Option(id) \in HeaderLists /\ Len(Option(id).added) \in Nat
    <3>1. Option(id) \in HeaderLists
      BY <1>2, OptionType
    <3>2. QED
      BY <3>1 DEF HeaderLists
  <2>3. Len(Option(id).added) <= calls
    <3>1. CASE id \in DOMAIN curl_header
      <4>1. Option(id) = curl_header[id]
        BY <3>1, Zenon DEF Option
      <4>2. QED
        BY <1>2, <1>5, <3>1, <4>1, Zenon DEF Short
    <3>2. CASE id \notin DOMAIN curl_header
      <4>1. Len(Option(id).added) = 0
        BY <3>2 DEF Option, List
      <4>2. QED
        BY <1>0, <4>1
    <3>3. QED
      BY <3>1, <3>2
  <2>4. list \in HeaderLists /\ Len(list.added) = Len(Option(id).added) + 1
    <3>1. calls + 1 \in Nat
      BY <1>0
    <3>2. QED
      BY <2>2, <3>1, HeadersFacts, Zenon
  <2> HIDE DEF list
  <2>5. Len(list.added) <= calls + 1 /\ Len(list.added) \in 1 .. MaxCalls
    BY <1>0, <2>2, <2>3, <2>4
  <2>6. Short(list, calls')
    BY <1>0, <2>5, Zenon DEF Short
  <2>7. sent'.list = list
    BY <2>1 DEF CallRecord
  <2>8. \A other \in DOMAIN curl_header' : Short(curl_header'[other], calls')
    <3>1. CASE id \in DOMAIN curl_header
      <4>1. curl_header' = With(curl_header, id, list)
        BY <2>1, <3>1, Zenon DEF Stored
      <4>2. /\ DOMAIN curl_header' = DOMAIN curl_header \cup {id} /\ curl_header'[id] = list
            /\ \A other \in DOMAIN curl_header : other # id => curl_header'[other] = curl_header[other]
        BY <4>1 DEF With
      <4>3. ASSUME NEW other \in DOMAIN curl_header' PROVE Short(curl_header'[other], calls')
        <5>1. CASE other = id
          BY <2>6, <4>2, <5>1, Zenon
        <5>2. CASE other # id
          <6>1. other \in DOMAIN curl_header
            BY <4>2, <5>2
          <6>2. QED
            BY <1>1, <1>2, <1>3, <4>2, <5>2, <6>1, Zenon
        <5>3. QED
          BY <5>1, <5>2
      <4>4. QED
        BY <4>3, Zenon
    <3>2. CASE id \notin DOMAIN curl_header
      <4>1. curl_header' = curl_header
        BY <2>1, <3>2, Zenon DEF Stored
      <4>2. QED
        BY <1>1, <1>2, <1>3, <4>1, Zenon
    <3>3. QED
      BY <3>1, <3>2
  <2>9. QED
    BY <1>0, <2>5, <2>7, <2>8, Zenon DEF CallsInv
<1>6. QED
  BY <1>4, <1>5

LEMMA CallsStep == CurlInv /\ CallsInv /\ [Next]_vars => CallsInv'
<1> SUFFICES ASSUME CurlInv, CallsInv, [Next]_vars PROVE CallsInv'
  OBVIOUS
<1>1. CASE UNCHANGED vars
  BY <1>1, Zenon DEF CallsInv, Short, vars
<1>2. CASE StartTracer \/ ShutdownTracer
  <2>1. TableMoves
    BY <1>2, Zenon DEF StartTracer, ShutdownTracer, TableMoves
  <2>2. QED
    BY <2>1, TableStep, Zenon
<1>3. ASSUME NEW id \in Handles,
             CurlInit(id) \/ CurlReset(id) \/ Unset(id) \/ Close(id)
               \/ (\E from \in Handles : CurlCopy(from, id))
      PROVE  CallsInv'
  BY <1>3, QuietMoves, TableStep, Zenon
<1>4. ASSUME NEW id \in Handles, NEW value \in Values, SetOpt(id, value) \/ SetOptArray(id, value)
      PROVE  CallsInv'
  BY <1>4, OptionMoves, TableStep, Zenon
<1>5. ASSUME NEW id \in Handles, NEW traced \in BOOLEAN, Exec(id, traced) PROVE CallsInv'
  BY <1>5, CallShort
<1>6. QED
  BY <1>1, <1>2, <1>3, <1>4, <1>5, Zenon DEF Next

(* Whatever the lists a traced call sends, its callee joins the caller's     *)
(* trace under the caller's span with the caller's flag when it carries one  *)
(* traceparent and takes none of several; it reads one baggage exactly when  *)
(* no separator is in it, and of several every entry of the newest that has  *)
(* its key, the first key of each later one with a blank before it.  Ids and *)
(* texts have any length, calls are any number, baggages of two keys at most *)
(* (provider.cc:221-278, hex.cc, utils.cc:348-372, zend_hook_curl.cc:110).   *)
THEOREM CalleeReadsCaller == CurlSpec => []CalleeReadsBack
<1>1. CallsInv => CalleeReadsBack
  <2> SUFFICES ASSUME CallsInv, sent.traced /\ ~sent.corrupted
               PROVE  ReadBack[Len(sent.list.added)]
    BY Zenon DEF CalleeReadsBack
  <2>1. Len(sent.list.added) \in 1 .. MaxCalls
    BY Zenon DEF CallsInv
  <2>2. \A copies \in 1 .. MaxCalls :
           ReadBack[copies] = (RoundTrip(copies) /\ BaggageArrives /\ \A n \in 2 .. copies : BaggagesMerge(n))
    BY Zenon DEF ReadBack
  <2>3. \A copies \in 1 .. MaxCalls : copies \in Nat \ {0} /\ \A n \in 2 .. copies : n \in Nat \ {0}
    BY CurlHeaderAssumption
  <2>4. RoundTrip(Len(sent.list.added))
    BY <2>1, <2>3, RoundTrips, Zenon
  <2>5. \A n \in 2 .. Len(sent.list.added) : BaggagesMerge(n)
    BY <2>1, <2>3, BaggagesOfCalls, Zenon
  <2>6. QED
    BY <2>1, <2>2, <2>4, <2>5, BaggageOfNames, Zenon
<1>2. QED
  BY <1>1, CallsInit, CallsStep, CurlInvHolds, PTL DEF CurlSpec
================================================================================
