------------------------------ MODULE UdpProofs ------------------------------
(***************************************************************************)
(* First what CTimer's owner can rely on, for every bound of the counter: a *)
(* once task runs once, no task runs when the destructor has returned, and   *)
(* the timer can be used again but for the race of Cancel.  The exporter's   *)
(* timer is a CTimer, so that this carries over to it.  Then what holds of   *)
(* the exporter's addresses however the consumer and the timer interleave,   *)
(* for any number and length of lookups, and that the parts of a request are  *)
(* all of it.                                                                *)
(***************************************************************************)
EXTENDS UdpExporter, TLAPS

-----------------------------------------------------------------------------
(* The timer, whoever owns it. *)

TypeOK ==
    /\ m_bExpired \in BOOLEAN /\ m_bTryExpired \in BOOLEAN /\ m_bLoop \in BOOLEAN
    /\ m_nCount \in 0 .. CountLimit
    /\ m_Thread \in BOOLEAN
    /\ thread \in {"none", "looping", "waiting", "task", "leaving", "resetting", "done"}
    /\ owner \in {"idle", "replacing", "sleeping", "cancelling", "deleting", "deleted"}
    /\ tooLate \in BOOLEAN

(* The thread is past its loop, if there is one. *)
Past == thread \in {"none", "resetting", "done"}

(* m_bExpired is the claim to the timer: Start may take it from the thread   *)
(* only when the thread has left its loop, and gives it back to a new one.   *)
ClaimInv ==
    /\ m_bExpired => Past
    /\ owner = "replacing" => Past /\ ~m_bExpired /\ m_nCount = 0
    /\ owner = "sleeping" => Past /\ m_nCount = 0

(* A once task has not run yet while its thread may still run it. *)
CountInv == ~m_bLoop /\ thread \in {"looping", "waiting", "task"} => m_nCount = 0

(* A thread that is past its loop has given the claim back, and nobody asks  *)
(* a task to run out before there is one, but for a Cancel that is too late. *)
FlagInv ==
    /\ owner \in {"idle", "cancelling"} /\ Past => m_bExpired
    /\ owner \in {"replacing", "sleeping"} => ~m_bTryExpired
    /\ owner = "idle" /\ Ended /\ ~tooLate => ~m_bTryExpired

IInv == TypeOK /\ ClaimInv /\ CountInv /\ FlagInv /\ OnceRunsOnce /\ NoTaskOnceDeleted

LEMMA Zero == 0 \in 0 .. CountLimit /\ 0 <= 1
BY CountAssumption DEF CountAssumption

LEMMA InitEstablishes == Init => IInv
BY Zero, Zenon DEF Init, IInv, TypeOK, ClaimInv, CountInv, FlagInv, Past, OnceRunsOnce,
    NoTaskOnceDeleted, Ended

LEMMA StepPreserves == IInv /\ [Next]_vars => IInv'
<1> SUFFICES ASSUME IInv, [Next]_vars PROVE IInv'
    OBVIOUS
<1> USE Zero DEF IInv, TypeOK, ClaimInv, CountInv, FlagInv, Past, OnceRunsOnce,
        NoTaskOnceDeleted, Ended, flags
<1>1. ASSUME NEW loop \in BOOLEAN, NEW async \in BOOLEAN, Start(loop, async) PROVE IInv'
  <2>1. owner' \in {"replacing", "sleeping"} /\ Past' /\ m_nCount' = 0 /\ m_bExpired' = FALSE
      BY <1>1, Zenon DEF Start
  <2>2. m_bLoop' \in BOOLEAN /\ ~m_bTryExpired
           /\ UNCHANGED <<m_bTryExpired, m_Thread, thread, tooLate>>
      BY <1>1, Zenon DEF Start
  <2>3. QED
      BY <2>1, <2>2, Zenon
<1>2. CASE StartThread
    BY <1>2, Zenon DEF StartThread
<1>3. CASE StartSync
    BY <1>3, Zenon DEF StartSync
<1>4. CASE Cancel
    BY <1>4, Zenon DEF Cancel
<1>5. CASE CancelStore
    BY <1>5, Zenon DEF CancelStore
<1>6. CASE Delete
    BY <1>6, Zenon DEF Delete
<1>7. CASE DeleteThread
    BY <1>7, Zenon DEF DeleteThread
<1>8. CASE Loop
    BY <1>8, Zenon DEF Loop
<1>9. CASE Wake
    BY <1>9, Zenon DEF Wake
<1>10. CASE Task
  <2>1. m_nCount' \in 0 .. CountLimit /\ (m_nCount = 0 => m_nCount' <= 1)
      BY <1>10, CountAssumption, SMT DEF Task, CountAssumption
  <2>2. thread' = (IF m_bLoop THEN "looping" ELSE "leaving")
      BY <1>10, Zenon DEF Task
  <2>3. UNCHANGED <<flags, m_Thread, owner, tooLate>> /\ thread = "task"
      BY <1>10, Zenon DEF Task
  <2>4. QED
      BY <2>1, <2>2, <2>3, Zenon
<1>11. CASE Leave
    BY <1>11, Zenon DEF Leave
<1>12. CASE Reset
    BY <1>12, Zenon DEF Reset
<1>13. CASE UNCHANGED vars
    BY <1>13, Zenon DEF vars
<1>14. QED
    BY <1>1, <1>2, <1>3, <1>4, <1>5, <1>6, <1>7, <1>8, <1>9, <1>10, <1>11, <1>12, <1>13
    DEF Next, ThreadStep

LEMMA Inductive == Spec => []IInv
BY InitEstablishes, StepPreserves, PTL DEF Spec

(* A task started to run once runs at most once (Timer.h:27). *)
THEOREM TaskRunsOnce == Spec => []OnceRunsOnce
<1>1. IInv => OnceRunsOnce
    BY DEF IInv
<1>2. QED
    BY <1>1, Inductive, PTL

(* When the destructor has returned the thread has ended (Timer.cc:15-18). *)
THEOREM DestructorJoins == Spec => []NoTaskOnceDeleted
<1>1. IInv => NoTaskOnceDeleted
    BY DEF IInv
<1>2. QED
    BY <1>1, Inductive, PTL

(* Once no thread is left the timer can be started again, unless the last    *)
(* Cancel stored its flag after the task had run out (Timer.cc:51, 60-70).   *)
THEOREM TimerReusable == Spec => []ReusableUnlessTooLate
<1>1. IInv => ReusableUnlessTooLate
    BY Zenon DEF IInv, FlagInv, ReusableUnlessTooLate, Past, Ended
<1>2. QED
    BY <1>1, Inductive, PTL

-----------------------------------------------------------------------------
(* The timer of an exporter. *)

(* The steps of the exporter are steps of its timer, or leave it alone.      *)
LEMMA UdpStepIsTimerStep == [UdpNext]_allVars => [Next]_vars
<1> SUFFICES ASSUME [UdpNext]_allVars PROVE [Next]_vars
    OBVIOUS
<1>1. CASE UNCHANGED allVars
    BY <1>1, Zenon DEF allVars
<1>2. CASE InitUDP
    BY <1>2, Zenon DEF InitUDP
<1>3. CASE InitTimer
    BY <1>3, Zenon DEF InitTimer, Next
<1>4. CASE Resolve
    BY <1>4, Zenon DEF Resolve, TaskBegins, ResolveNumeric, LookupFails, LookupSucceeds,
        SetCurrent, LoadCurrent, Publish, ResolverIdles
<1>5. CASE Receive
    BY <1>5, Zenon DEF Receive, SenderOnly
<1>6. CASE SendOn
    BY <1>6, Zenon DEF SendOn, Send, RotateNothing, Rotate, TestNext, LoadNext, LoadFirst,
        StoreCurrent, LoadAddress, StoreAddress, SenderOnly
<1>7. CASE TimerThread
    BY <1>7, Zenon DEF TimerThread, TimerTask, Next, ThreadStep
<1>8. CASE OwnerGoesOn
    BY <1>8, Zenon DEF OwnerGoesOn, Next
<1>9. CASE OwnerCalls
    BY <1>9, Zenon DEF OwnerCalls, Next
<1>10. QED
    BY <1>1, <1>2, <1>3, <1>4, <1>5, <1>6, <1>7, <1>8, <1>9, Zenon DEF UdpNext

(* The exporter implements the timer: its dns lookup is a task of CTimer,    *)
(* and nothing it does to the addresses touches the timer's flags            *)
(* (otel_exporter.cc:86-104).                                                *)
THEOREM ExporterRunsATimer == UdpSpec => Spec
<1>1. UdpInit => Init
    BY Zenon DEF UdpInit
<1>2. QED
    BY <1>1, UdpStepIsTimerStep, PTL DEF UdpSpec, Spec

-----------------------------------------------------------------------------
(* Entries of the lists looked up so far. *)
Entries == {e \in Nat \X Nat : e[1] \in DOMAIN lists /\ e[2] \in 1 .. lists[e[1]]}

Expects == sender \in {"test", "next", "first"}

UdpTypeOK ==
    /\ lists \in Seq(Nat \ {0})
    /\ addr_info = Len(lists)
    /\ current_addr_info \in Entries \cup {Null}
    /\ addr_in \in Entries \cup {Null}
    /\ resolved \in Entries \cup {Null}
    /\ register \in Entries \cup {Null}
    /\ published \in Nat

(* A list of several addresses was overtaken by one of a single address. *)
Overtaken == \E k, l \in 1 .. Len(lists) : k < l /\ lists[k] > 1 /\ lists[l] = 1

(* Where null can come from: only from an ai_next that was there when it was  *)
(* tested and is gone when it is read.                                       *)
NullInv ==
    /\ resolver \in {"found", "current", "loaded"} => lists # <<>>
    /\ Expects => current_addr_info # Null
    /\ sender = "next" => After(current_addr_info) # Null \/ Overtaken
    /\ sender = "store" => register # Null \/ Overtaken
    /\ sender = "load" => current_addr_info # Null \/ Overtaken
    /\ resolver = "current" => current_addr_info # Null \/ Overtaken

(* addr_in is set once a lookup has succeeded, and not to null again.        *)
AddressInv ==
    /\ resolver = "loaded" /\ ~crashed => resolved # Null
    /\ sender = "publish" /\ ~crashed => register # Null
    /\ addr_in = Null => \/ numeric
                         \/ lists = <<>>
                         \/ Len(lists) = 1 /\ resolver \in {"found", "current", "loaded"}

(* The datagrams so far went to the address in force, but for a lookup.      *)
RouteInv ==
    /\ sender = "receive" => routes = {} /\ published = 0
    /\ sender = "sending" /\ published = 0 => routes \subseteq {addr_in}

(* Before the timer is started nothing but initUDP resolves.                 *)
StageInv ==
    /\ init # "up" => udp /\ thread = "none" /\ owner = "idle"
    /\ init = "socket" \/ ~udp => resolver = "off"

UdpInv == UdpTypeOK /\ StageInv /\ NullInv /\ AddressInv /\ RouteInv /\ PartsTogether /\ CrashExplained

LEMMA AfterFacts ==
  ASSUME UdpTypeOK, NEW e \in Entries
  PROVE  After(e) \in Entries \cup {Null} /\ (After(e) # Null => lists[e[1]] > 1)
BY DEF UdpTypeOK, Entries, After, Null

LEMMA FirstFacts ==
  ASSUME UdpTypeOK, lists # <<>>
  PROVE  addr_info # 0 /\ First(addr_info) \in Entries
BY DEF UdpTypeOK, Entries, First

LEMMA NullIsNoEntry == Null \notin Entries
BY DEF Entries, Null

LEMMA UdpInitEstablishes == UdpInit => UdpInv
<1> SUFFICES ASSUME UdpInit PROVE UdpInv
    OBVIOUS
<1>1. UdpTypeOK
    BY DEF UdpInit, UdpTypeOK
<1>2. StageInv
    BY DEF UdpInit, Init, StageInv
<1>3. NullInv /\ AddressInv /\ RouteInv /\ PartsTogether /\ CrashExplained
    BY Zenon DEF UdpInit, NullInv, AddressInv, RouteInv, PartsTogether, CrashExplained, Expects
<1>4. QED
    BY <1>1, <1>2, <1>3 DEF UdpInv

(* A step that leaves the addresses alone, or only moves the resolver on     *)
(* where it holds no entry.                                                  *)
LEMMA QuietStep ==
  ASSUME UdpInv,
         UNCHANGED <<numeric, addresses, resolved, sending, published, crashed>>,
         \/ resolver' = resolver
         \/ resolver \notin {"found", "current", "loaded"} /\ resolver' \in {"off", "lookup", "done"},
         StageInv'
  PROVE  UdpInv'
<1>1. UdpTypeOK'
    BY Zenon DEF UdpInv, UdpTypeOK, Entries, addresses, sending
<1>2. NullInv'
    BY Zenon DEF UdpInv, NullInv, Expects, After, Overtaken, addresses, sending
<1>3. AddressInv'
    BY Zenon DEF UdpInv, AddressInv, addresses, sending
<1>4. RouteInv' /\ PartsTogether' /\ CrashExplained'
    BY Zenon DEF UdpInv, RouteInv, PartsTogether, CrashExplained, addresses, sending
<1>5. QED
    BY <1>1, <1>2, <1>3, <1>4 DEF UdpInv

-----------------------------------------------------------------------------
(* The resolver. *)

LEMMA LookupSucceedsInv ==
  ASSUME UdpInv, LookupSucceeds
  PROVE  UdpInv'
<1>1. PICK length \in 1 .. MaxEntries : lists' = Append(lists, length)
    BY Zenon DEF LookupSucceeds
<1>2. lists \in Seq(Nat \ {0}) /\ length \in Nat \ {0}
    BY UdpAssumption, <1>1 DEF UdpInv, UdpTypeOK, UdpAssumption
<1>3. /\ lists' \in Seq(Nat \ {0}) /\ Len(lists') = Len(lists) + 1 /\ lists' # <<>>
      /\ DOMAIN lists \subseteq DOMAIN lists' /\ DOMAIN lists = 1 .. Len(lists)
      /\ \A i \in DOMAIN lists : lists'[i] = lists[i]
    BY <1>1, <1>2
<1>4. Entries \subseteq Entries'
    BY <1>3 DEF Entries
<1>5. /\ addr_info' = Len(lists') /\ resolver = "lookup" /\ resolver' = "found" /\ ~numeric
      /\ UNCHANGED <<vars, udp, numeric, init, sending, current_addr_info, addr_in, resolved,
                     published, crashed>>
    BY Zenon DEF LookupSucceeds, ResolverIdles
<1>6. UdpTypeOK'
    BY <1>3, <1>4, <1>5, Zenon DEF UdpInv, UdpTypeOK, sending
<1>7. StageInv'
    BY <1>5, Zenon DEF UdpInv, StageInv, vars
<1>8. Overtaken => Overtaken'
  <2>1. ASSUME NEW k \in 1 .. Len(lists), NEW l \in 1 .. Len(lists),
               k < l, lists[k] > 1, lists[l] = 1
        PROVE  Overtaken'
    <3>1. k \in 1 .. Len(lists') /\ l \in 1 .. Len(lists')
        BY <1>2, <1>3
    <3>2. lists'[k] > 1 /\ lists'[l] = 1
        BY <2>1, <1>3, Zenon
    <3>3. QED
        BY <2>1, <3>1, <3>2, Zenon DEF Overtaken
  <2>2. QED
      BY <2>1, Zenon DEF Overtaken
<1>9. ASSUME current_addr_info \in Entries PROVE After(current_addr_info)' = After(current_addr_info)
    BY <1>3, <1>5, <1>9, Zenon DEF After, Entries
<1>10. NullInv'
    BY <1>3, <1>5, <1>8, <1>9, Zenon DEF UdpInv, UdpTypeOK, NullInv, Expects, sending
<1>11. AddressInv'
  <2>1. addr_in = Null => Len(lists') = 1
      BY <1>3, <1>5 DEF UdpInv, AddressInv
  <2>2. QED
      BY <2>1, <1>5, Zenon DEF UdpInv, AddressInv, sending
<1>12. RouteInv' /\ PartsTogether'
    BY <1>5, Zenon DEF UdpInv, RouteInv, PartsTogether, sending
<1>13. CrashExplained'
    BY <1>5, <1>8, Zenon DEF UdpInv, CrashExplained, Overtaken
<1>14. QED
    BY <1>6, <1>7, <1>10, <1>11, <1>12, <1>13 DEF UdpInv

LEMMA SetCurrentInv ==
  ASSUME UdpInv, SetCurrent
  PROVE  UdpInv'
<1>1. /\ resolver = "found" /\ resolver' = "current" /\ current_addr_info' = First(addr_info)
      /\ UNCHANGED <<vars, udp, numeric, init, sending, lists, addr_info, addr_in, resolved,
                     published, crashed>>
    BY Zenon DEF SetCurrent, ResolverIdles
<1>2. lists # <<>> /\ First(addr_info) \in Entries /\ First(addr_info) # Null
    BY <1>1, FirstFacts, NullIsNoEntry, Zenon DEF UdpInv, NullInv
<1>3. UdpTypeOK'
    BY <1>1, <1>2, Zenon DEF UdpInv, UdpTypeOK, Entries, sending
<1>4. StageInv'
    BY <1>1, Zenon DEF UdpInv, StageInv, vars
<1>5. ASSUME sender = "next" PROVE After(First(addr_info)) # Null \/ Overtaken
  <2>1. CASE Overtaken
      BY <2>1
  <2>2. CASE ~Overtaken
    <3>1. current_addr_info \in Entries /\ lists[current_addr_info[1]] > 1
        BY <1>5, <2>2, AfterFacts, Zenon DEF UdpInv, UdpTypeOK, NullInv, Expects
    <3>2. CASE lists[Len(lists)] > 1
        BY <1>2, <3>2 DEF UdpInv, UdpTypeOK, After, First, Null
    <3>3. CASE lists[Len(lists)] = 1
      <4>1. current_addr_info[1] \in 1 .. Len(lists) /\ Len(lists) \in Nat
          BY <3>1 DEF UdpInv, UdpTypeOK, Entries
      <4>2. current_addr_info[1] # Len(lists)
          BY <3>1, <3>3
      <4>3. Overtaken
          BY <4>1, <4>2, <3>1, <3>3 DEF Overtaken
      <4>4. QED
          BY <4>3, <2>2
    <3>4. lists[Len(lists)] \in Nat \ {0}
        BY <1>2 DEF UdpInv, UdpTypeOK
    <3>5. QED
        BY <3>2, <3>3, <3>4
  <2>3. QED
      BY <2>1, <2>2
<1>6. Overtaken' = Overtaken /\ (sender = "next" => After(First(addr_info))' = After(First(addr_info)))
    BY <1>1, Zenon DEF Overtaken, After, First
<1>7. After(current_addr_info)' = After(First(addr_info))
    BY <1>1, Zenon DEF After, First
<1>8. NullInv'
    BY <1>1, <1>2, <1>5, <1>6, <1>7, Zenon DEF UdpInv, NullInv, Expects, sending
<1>9. AddressInv' /\ RouteInv' /\ PartsTogether' /\ CrashExplained'
    BY <1>1, Zenon DEF UdpInv, AddressInv, RouteInv, PartsTogether, CrashExplained, sending
<1>10. QED
    BY <1>3, <1>4, <1>8, <1>9 DEF UdpInv

LEMMA LoadCurrentInv ==
  ASSUME UdpInv, ~crashed, LoadCurrent
  PROVE  UdpInv'
<1>1. /\ resolver = "current" /\ resolver' = "loaded" /\ resolved' = current_addr_info
      /\ crashed' <=> current_addr_info = Null
      /\ UNCHANGED <<vars, udp, numeric, init, sending, addresses, published>>
    BY Zenon DEF LoadCurrent, ResolverIdles
<1>2. UdpTypeOK'
    BY <1>1, Zenon DEF UdpInv, UdpTypeOK, Entries, sending, addresses
<1>3. StageInv'
    BY <1>1, Zenon DEF UdpInv, StageInv, vars
<1>4. NullInv'
    BY <1>1, Zenon DEF UdpInv, NullInv, Expects, After, Overtaken, sending, addresses
<1>5. CrashExplained'
    BY <1>1, Zenon DEF UdpInv, NullInv, CrashExplained, Overtaken, addresses
<1>6. AddressInv' /\ RouteInv' /\ PartsTogether'
    BY <1>1, Zenon DEF UdpInv, AddressInv, RouteInv, PartsTogether, sending, addresses
<1>7. QED
    BY <1>2, <1>3, <1>4, <1>5, <1>6 DEF UdpInv

LEMMA PublishInv ==
  ASSUME UdpInv, ~crashed, Publish
  PROVE  UdpInv'
<1>1. /\ resolver = "loaded" /\ resolver' = "done" /\ addr_in' = resolved /\ resolved' = Null
      /\ published' = (IF sender = "sending" THEN published + 1 ELSE published)
      /\ UNCHANGED <<vars, udp, numeric, init, sending, lists, addr_info, current_addr_info, crashed>>
    BY Zenon DEF Publish, ResolverIdles
<1>2. published' \in Nat /\ (published' = 0 => published = 0 /\ sender # "sending")
      /\ (published > 0 => published' > 0)
    BY <1>1 DEF UdpInv, UdpTypeOK
<1>3. UdpTypeOK'
    BY <1>1, <1>2, Zenon DEF UdpInv, UdpTypeOK, Entries, sending
<1>4. StageInv'
    BY <1>1, Zenon DEF UdpInv, StageInv, vars
<1>5. NullInv'
    BY <1>1, Zenon DEF UdpInv, NullInv, Expects, After, Overtaken, sending
<1>6. AddressInv'
    BY <1>1, Zenon DEF UdpInv, AddressInv, sending
<1>7. RouteInv'
    BY <1>1, <1>2, Zenon DEF UdpInv, RouteInv, sending
<1>8. PartsTogether' /\ CrashExplained'
    BY <1>1, <1>2, Zenon DEF UdpInv, PartsTogether, CrashExplained, sending
<1>9. QED
    BY <1>3, <1>4, <1>5, <1>6, <1>7, <1>8 DEF UdpInv

LEMMA ResolveInv ==
  ASSUME UdpInv, ~crashed, Resolve
  PROVE  UdpInv'
<1>1. CASE TaskBegins
  <2>1. StageInv'
      BY <1>1, Zenon DEF UdpInv, StageInv, TaskBegins, ResolverIdles, vars
  <2>2. QED
      BY <1>1, <2>1, QuietStep, Zenon DEF TaskBegins, ResolverIdles
<1>2. CASE ResolveNumeric
  <2>1. /\ resolver = "lookup" /\ resolver' = "done" /\ numeric
        /\ UNCHANGED <<vars, udp, numeric, init, sending, addresses, resolved, published>>
      BY <1>2, Zenon DEF ResolveNumeric, ResolverIdles
  <2>2. UdpTypeOK'
      BY <2>1, Zenon DEF UdpInv, UdpTypeOK, Entries, sending, addresses
  <2>3. StageInv' /\ NullInv'
      BY <2>1, Zenon DEF UdpInv, StageInv, NullInv, Expects, After, Overtaken, vars, sending, addresses
  <2>4. AddressInv' /\ RouteInv' /\ PartsTogether' /\ CrashExplained'
      BY <2>1, Zenon DEF UdpInv, AddressInv, RouteInv, PartsTogether, CrashExplained, sending, addresses
  <2>5. QED
      BY <2>2, <2>3, <2>4 DEF UdpInv
<1>3. CASE LookupFails
  <2>1. StageInv' /\ resolver = "lookup" /\ resolver' \in {"lookup", "done"}
      BY <1>3, Zenon DEF UdpInv, StageInv, LookupFails, ResolverIdles, vars
  <2>2. QED
      BY <1>3, <2>1, QuietStep, Zenon DEF LookupFails, ResolverIdles
<1>4. QED
    BY <1>1, <1>2, <1>3, LookupSucceedsInv, SetCurrentInv, LoadCurrentInv, PublishInv, Zenon
    DEF Resolve

-----------------------------------------------------------------------------
(* The consumer. *)

LEMMA SenderKeepsStage ==
  ASSUME UdpInv, SenderOnly
  PROVE  StageInv' /\ (Overtaken <=> Overtaken')
BY Zenon DEF UdpInv, StageInv, SenderOnly, Overtaken, resolving, vars

(* What the consumer does while it holds no entry in its register.           *)
LEMMA SendingInv ==
  ASSUME UdpInv, Receive \/ Send \/ RotateNothing \/ Rotate
  PROVE  UdpInv'
<1>1. /\ SenderOnly
      /\ UNCHANGED <<numeric, lists, addr_info, resolver, resolved, current_addr_info, addr_in, crashed>>
      /\ register' = register \/ register' = Null
      /\ published' = published \/ published' = 0
    BY Zenon DEF Receive, Send, RotateNothing, Rotate, Finished, SenderOnly, resolving
<1>2. UdpTypeOK'
  <2>1. published' \in Nat
      BY <1>1 DEF UdpInv, UdpTypeOK
  <2>2. QED
      BY <1>1, <2>1, Zenon DEF UdpInv, UdpTypeOK, Entries
<1>3. StageInv'
    BY <1>1, SenderKeepsStage
<1>4. /\ sender' = "sending" => \/ sender = "receive" /\ routes' = routes
                                \/ sender = "sending" /\ routes' = routes \cup {addr_in}
      /\ sender' = "sending" => published' = published
      /\ sender' = "receive" => routes' = {} /\ published' = 0
      /\ sender' \in {"sending", "receive", "rotate", "test"}
      /\ sender' = "test" => current_addr_info # Null
    BY Zenon DEF Receive, Send, RotateNothing, Rotate, Finished, UdpInv
<1>5. NullInv'
    BY <1>1, <1>4, Zenon DEF UdpInv, NullInv, Expects, Overtaken
<1>6. AddressInv'
    BY <1>1, <1>4, Zenon DEF UdpInv, AddressInv
<1>7. RouteInv'
    BY <1>1, <1>4, Zenon DEF UdpInv, RouteInv
<1>8. PartsTogether'
  <2>1. published > 0 \/ published = 0
      BY DEF UdpInv, UdpTypeOK
  <2>2. CASE Send
    <3>1. sender = "sending" /\ routes' = routes \cup {addr_in} /\ published' = published
        BY <2>2, Zenon DEF Send
    <3>2. published = 0 => routes' \subseteq {addr_in}
        BY <3>1, Zenon DEF UdpInv, RouteInv
    <3>3. QED
        BY <2>1, <3>1, <3>2, Zenon DEF PartsTogether
  <2>3. CASE Receive \/ Rotate
      BY <2>3, Zenon DEF UdpInv, PartsTogether, Receive, Rotate
  <2>4. CASE RotateNothing
      BY <2>4, Zenon DEF PartsTogether, RotateNothing, Finished
  <2>5. QED
      BY <2>2, <2>3, <2>4
<1>9. CrashExplained'
    BY <1>1, Zenon DEF UdpInv, CrashExplained
<1>10. QED
    BY <1>2, <1>3, <1>5, <1>6, <1>7, <1>8, <1>9 DEF UdpInv

(* The steps of a rotation change sender, register and the current entry.    *)
Turns ==
    /\ SenderOnly
    /\ UNCHANGED <<addr_in, left, routes, published>>
    /\ sender' \notin {"receive", "sending"}

LEMMA TurnInv ==
  ASSUME UdpInv, ~crashed, Turns, CrashExplained',
         current_addr_info' \in Entries \cup {Null}, register' \in Entries \cup {Null},
         NullInv', sender' = "publish" /\ ~crashed' => register' # Null
  PROVE  UdpInv'
<1>1. UNCHANGED <<numeric, lists, addr_info, resolver, resolved, addr_in, left, routes, published>>
    BY Zenon DEF Turns, SenderOnly, resolving
<1>2. UdpTypeOK'
    BY <1>1, Zenon DEF UdpInv, UdpTypeOK, Entries
<1>3. StageInv'
    BY SenderKeepsStage DEF Turns
<1>4. AddressInv' /\ RouteInv' /\ PartsTogether'
    BY <1>1, Zenon DEF UdpInv, AddressInv, RouteInv, PartsTogether, Turns
<1>5. QED
    BY <1>2, <1>3, <1>4 DEF UdpInv

LEMMA RotationInv ==
  ASSUME UdpInv, ~crashed,
         TestNext \/ LoadNext \/ LoadFirst \/ StoreCurrent \/ LoadAddress
  PROVE  UdpInv'
<1> USE DEF SenderOnly, resolving
<1>1. /\ current_addr_info \in Entries \cup {Null} /\ register \in Entries \cup {Null}
      /\ addr_info = Len(lists)
    BY DEF UdpInv, UdpTypeOK
<1>2. CASE TestNext
  <2>1. /\ Turns /\ UNCHANGED <<current_addr_info, register, crashed, lists, resolver>>
        /\ sender = "test" /\ sender' \in {"next", "first"}
        /\ sender' = "next" => After(current_addr_info) # Null
      BY <1>2, Zenon DEF TestNext, Turns
  <2>2. NullInv' /\ CrashExplained'
      BY <2>1, Zenon DEF UdpInv, NullInv, Expects, After, Overtaken, CrashExplained, Turns
  <2>3. QED
      BY <1>1, <2>1, <2>2, TurnInv, Zenon
<1>3. CASE LoadNext
  <2>1. /\ Turns /\ UNCHANGED <<current_addr_info, crashed, lists, resolver>>
        /\ sender = "next" /\ sender' = "store" /\ register' = After(current_addr_info)
      BY <1>3, Zenon DEF LoadNext, Turns
  <2>2. current_addr_info \in Entries
      BY <1>1, <2>1, Zenon DEF UdpInv, NullInv, Expects
  <2>3. register' \in Entries \cup {Null}
      BY <2>1, <2>2, AfterFacts, Zenon DEF UdpInv
  <2>4. NullInv' /\ CrashExplained'
      BY <2>1, Zenon DEF UdpInv, NullInv, Expects, After, Overtaken, CrashExplained, Turns
  <2>5. QED
      BY <1>1, <2>1, <2>3, <2>4, TurnInv, Zenon
<1>4. CASE LoadFirst
  <2>1. /\ Turns /\ UNCHANGED <<current_addr_info, crashed, lists, resolver>>
        /\ sender = "first" /\ sender' = "store"
        /\ register' = (IF addr_info = 0 THEN Null ELSE First(addr_info))
      BY <1>4, Zenon DEF LoadFirst, Turns
  <2>2. current_addr_info \in Entries
      BY <1>1, <2>1, Zenon DEF UdpInv, NullInv, Expects
  <2>3. lists # <<>>
      BY <2>2 DEF Entries
  <2>4. register' \in Entries /\ register' # Null
      BY <2>1, <2>3, FirstFacts, NullIsNoEntry, Zenon DEF UdpInv
  <2>5. NullInv' /\ CrashExplained'
      BY <2>1, <2>4, Zenon DEF UdpInv, NullInv, Expects, After, Overtaken, CrashExplained, Turns
  <2>6. QED
      BY <1>1, <2>1, <2>4, <2>5, TurnInv, Zenon
<1>5. CASE StoreCurrent
  <2>1. /\ Turns /\ UNCHANGED <<register, crashed, lists, resolver>>
        /\ sender = "store" /\ sender' = "load" /\ current_addr_info' = register
      BY <1>5, Zenon DEF StoreCurrent, Turns
  <2>2. NullInv' /\ CrashExplained'
      BY <2>1, Zenon DEF UdpInv, NullInv, Expects, Overtaken, CrashExplained, Turns
  <2>3. QED
      BY <1>1, <2>1, <2>2, TurnInv, Zenon
<1>6. CASE LoadAddress
  <2>1. /\ Turns /\ UNCHANGED <<current_addr_info, lists, resolver>>
        /\ sender = "load" /\ sender' = "publish" /\ register' = current_addr_info
        /\ crashed' <=> current_addr_info = Null
      BY <1>6, Zenon DEF LoadAddress, Turns
  <2>2. NullInv' /\ CrashExplained'
      BY <2>1, Zenon DEF UdpInv, NullInv, Expects, After, Overtaken, CrashExplained, Turns
  <2>3. QED
      BY <1>1, <2>1, <2>2, TurnInv, Zenon
<1>7. QED
    BY <1>2, <1>3, <1>4, <1>5, <1>6

LEMMA StoreAddressInv ==
  ASSUME UdpInv, ~crashed, StoreAddress
  PROVE  UdpInv'
<1>1. /\ sender = "publish" /\ sender' = "receive" /\ addr_in' = register /\ register' = Null
      /\ routes' = {} /\ published' = 0 /\ SenderOnly
      /\ UNCHANGED <<numeric, lists, addr_info, resolver, resolved, current_addr_info, crashed>>
    BY Zenon DEF StoreAddress, Finished, SenderOnly, resolving
<1>2. UdpTypeOK'
    BY <1>1, Zenon DEF UdpInv, UdpTypeOK, Entries
<1>3. StageInv'
    BY <1>1, SenderKeepsStage
<1>4. NullInv' /\ AddressInv' /\ RouteInv' /\ PartsTogether' /\ CrashExplained'
    BY <1>1, Zenon DEF UdpInv, NullInv, Expects, Overtaken, AddressInv, RouteInv, PartsTogether,
        CrashExplained
<1>5. QED
    BY <1>2, <1>3, <1>4 DEF UdpInv

-----------------------------------------------------------------------------
LEMMA UdpStepPreserves == UdpInv /\ [UdpNext]_allVars => UdpInv'
<1> SUFFICES ASSUME UdpInv, [UdpNext]_allVars PROVE UdpInv'
    OBVIOUS
<1>1. CASE UNCHANGED allVars
  <2>1. StageInv'
      BY <1>1, Zenon DEF allVars, udpVars, resolving, vars, UdpInv, StageInv
  <2>2. QED
      BY <1>1, <2>1, QuietStep, Zenon DEF allVars, udpVars, resolving
<1>2. CASE InitUDP
  <2>1. StageInv' /\ resolver = "off" /\ (resolver' = resolver \/ resolver' = "lookup")
      BY <1>2, Zenon DEF InitUDP, UdpInv, StageInv, vars
  <2>2. QED
      BY <1>2, <2>1, QuietStep, Zenon DEF InitUDP
<1>3. CASE InitTimer
  <2>1. StageInv' /\ resolver = "done" /\ resolver' = "off"
      BY <1>3, Zenon DEF InitTimer, UdpInv, StageInv
  <2>2. QED
      BY <1>3, <2>1, QuietStep, Zenon DEF InitTimer
<1>4. CASE ~crashed /\ Resolve
    BY <1>4, ResolveInv
<1>5. CASE Receive
    BY <1>5, SendingInv
<1>6. CASE ~crashed /\ SendOn
    BY <1>6, SendingInv, RotationInv, StoreAddressInv, Zenon DEF SendOn
<1>7. CASE TimerThread
  <2>1. thread \notin {"none"}
      BY <1>7, Zenon DEF TimerThread, TimerTask, Task, Loop, Wake, Leave, Reset
  <2>2. init = "up" /\ init' = init
      BY <1>7, <2>1, Zenon DEF TimerThread, TimerTask, udpVars, UdpInv, StageInv
  <2>3. resolver' = resolver \/ (resolver \in {"off", "done"} /\ resolver' = "off")
      BY <1>7, Zenon DEF TimerThread, TimerTask, udpVars, resolving, UdpInv, StageInv
  <2>4. UNCHANGED <<udp, numeric, addresses, resolved, sending, published, crashed>>
      BY <1>7, Zenon DEF TimerThread, TimerTask, udpVars, resolving
  <2>5. StageInv'
      BY <2>2, <2>3, <2>4, Zenon DEF UdpInv, StageInv
  <2>6. QED
      BY <2>3, <2>4, <2>5, QuietStep, Zenon
<1>8. CASE OwnerGoesOn \/ OwnerCalls
  <2>1. UNCHANGED udpVars
      BY <1>8, Zenon DEF OwnerGoesOn, OwnerCalls
  <2>2. owner # "idle" \/ ~udp
      BY <1>8, Zenon DEF OwnerGoesOn, OwnerCalls, StartThread, CancelStore, DeleteThread
  <2>3. init = "up"
      BY <2>2, Zenon DEF UdpInv, StageInv
  <2>4. StageInv'
      BY <2>1, <2>3, Zenon DEF UdpInv, StageInv, udpVars, resolving
  <2>5. QED
      BY <2>1, <2>4, QuietStep, Zenon DEF udpVars, resolving
<1>9. QED
    BY <1>1, <1>2, <1>3, <1>4, <1>5, <1>6, <1>7, <1>8, Zenon DEF UdpNext

LEMMA UdpInductive == UdpSpec => []UdpInv
BY UdpInitEstablishes, UdpStepPreserves, PTL DEF UdpSpec

(* With a udp_ip that is a name, no datagram goes to the constructor's dead  *)
(* local variable once the first lookup to succeed has returned; before, and *)
(* with a numeric udp_ip, every one may (otel_exporter.cc:22, 80).           *)
THEOREM DatagramsReachACollector == UdpSpec => []SentToTheCollector
<1>1. UdpInv => SentToTheCollector
    BY Zenon DEF UdpInv, AddressInv, SentToTheCollector
<1>2. QED
    BY <1>1, UdpInductive, PTL

(* The parts of a request go to one address, unless a lookup was published   *)
(* while they were sent (otel_exporter.cc:107-149).                          *)
THEOREM RequestsStayTogether == UdpSpec => []PartsTogether
<1>1. UdpInv => PartsTogether
    BY DEF UdpInv
<1>2. QED
    BY <1>1, UdpInductive, PTL

(* With a udp_ip that is a name, the race for ai_next with a lookup that     *)
(* returns one address is the only way the address fields can kill the       *)
(* process.  Of a numeric udp_ip nothing is said: with it every lookup       *)
(* writes over the stack (otel_exporter.cc:22, 73-76, 149-156).              *)
THEOREM CrashesExplained == UdpSpec => []CrashExplained
<1>1. UdpInv => CrashExplained
    BY DEF UdpInv
<1>2. QED
    BY <1>1, UdpInductive, PTL

-----------------------------------------------------------------------------
(* How a long request is split.  The quotient of a size that a float holds   *)
(* is below 2 ^ 9, where a rest of one byte does not vanish.                  *)

LEMMA ByTheLimit ==
  ASSUME NEW size \in Nat
  PROVE  \E k \in Int, rest \in Nat :
            /\ k = size \div MaxUdpSize /\ rest = size % MaxUdpSize
            /\ size = MaxUdpSize * k + rest /\ rest < MaxUdpSize
<1>1. size \div MaxUdpSize \in Int
    BY SMT DEF MaxUdpSize
<1>2. size % MaxUdpSize \in Nat /\ size % MaxUdpSize < MaxUdpSize
    BY SMT DEF MaxUdpSize
<1>3. size = MaxUdpSize * (size \div MaxUdpSize) + (size % MaxUdpSize)
    BY SMT DEF MaxUdpSize
<1>4. QED
    BY <1>1, <1>2, <1>3, Zenon

LEMMA SmallQuotient ==
  ASSUME NEW size \in Nat, size < 2 ^ 24, NEW k \in Int, NEW rest \in Nat,
         size = MaxUdpSize * k + rest, rest < MaxUdpSize
  PROVE  k \in 0 .. 279
<1>1. size < 16777216
    BY SMT
<1>2. size = 60000 * k + rest /\ rest < 60000
    BY SMT DEF MaxUdpSize
<1>3. QED
    BY <1>1, <1>2, SMT

LEMMA NothingVanishes ==
  ASSUME NEW k \in 0 .. 279, NEW rest \in Nat, VanishesBeside(rest, k)
  PROVE  rest = 0
<1>1. PICK e \in 0 .. 16 : 2 ^ e <= k /\ rest <= MaxUdpSize \div 2 ^ (24 - e)
    BY Zenon DEF VanishesBeside
<1> USE DEF MaxUdpSize
<1>2. CASE e = 0
    BY <1>1, <1>2, SMT
<1>3. CASE e = 1
    BY <1>1, <1>3, SMT
<1>4. CASE e = 2
    BY <1>1, <1>4, SMT
<1>5. CASE e = 3
    BY <1>1, <1>5, SMT
<1>6. CASE e = 4
    BY <1>1, <1>6, SMT
<1>7. CASE e = 5
    BY <1>1, <1>7, SMT
<1>8. CASE e = 6
    BY <1>1, <1>8, SMT
<1>9. CASE e = 7
    BY <1>1, <1>9, SMT
<1>10. CASE e = 8
    BY <1>1, <1>10, SMT
<1>11. CASE e = 9
    BY <1>1, <1>11, SMT
<1>12. CASE e = 10
    BY <1>1, <1>12, SMT
<1>13. CASE e = 11
    BY <1>1, <1>13, SMT
<1>14. CASE e = 12
    BY <1>1, <1>14, SMT
<1>15. CASE e = 13
    BY <1>1, <1>15, SMT
<1>16. CASE e = 14
    BY <1>1, <1>16, SMT
<1>17. CASE e = 15
    BY <1>1, <1>17, SMT
<1>18. CASE e = 16
    BY <1>1, <1>18, SMT
<1>19. \/ e = 0 \/ e = 1 \/ e = 2 \/ e = 3 \/ e = 4 \/ e = 5 \/ e = 6 \/ e = 7 \/ e = 8
      \/ e = 9 \/ e = 10 \/ e = 11 \/ e = 12 \/ e = 13 \/ e = 14 \/ e = 15 \/ e = 16
    BY SMT
<1>20. QED
    BY <1>2, <1>3, <1>4, <1>5, <1>6, <1>7, <1>8, <1>9, <1>10, <1>11, <1>12, <1>13, <1>14,
       <1>15, <1>16, <1>17, <1>18, <1>19, Zenon

(* As many parts as the size has multiples of the limit, rounded up. *)
LEMMA ShardsRoundUp ==
  ASSUME NEW size \in Nat \ {0}, size < 2 ^ 24
  PROVE  /\ Shards(size) \in Nat \ {0}
         /\ MaxUdpSize * (Shards(size) - 1) < size /\ size <= MaxUdpSize * Shards(size)
<1>1. PICK k \in Int, rest \in Nat :
         /\ k = size \div MaxUdpSize /\ rest = size % MaxUdpSize
         /\ size = MaxUdpSize * k + rest /\ rest < MaxUdpSize
    BY ByTheLimit, SMT
<1>2. k \in 0 .. 279
  <2>1. size \in Nat
      BY SMT
  <2>2. QED
      BY <1>1, <2>1, SmallQuotient, Zenon
<1>3. size = 60000 * k + rest /\ rest < 60000
    BY <1>1, SMT DEF MaxUdpSize
<1>4. Shards(size) = IF rest = 0 \/ VanishesBeside(rest, k) THEN k ELSE k + 1
  <2>1. Float(size) = size
      BY Zenon DEF Float
  <2>2. QED
      BY <1>1, <2>1, Zenon DEF Shards
<1>5. CASE rest = 0
  <2>1. Shards(size) = k
      BY <1>4, <1>5, Zenon
  <2>2. QED
      BY <1>2, <1>3, <1>5, <2>1, SMT DEF MaxUdpSize
<1>6. CASE rest # 0
  <2>1. Shards(size) = k + 1
      BY <1>2, <1>4, <1>6, NothingVanishes, Zenon
  <2>2. QED
      BY <1>2, <1>3, <1>6, <2>1, SMT DEF MaxUdpSize
<1>7. QED
    BY <1>5, <1>6, Zenon

LEMMA SplitCovers ==
  ASSUME NEW size \in Nat \ {0}, size < 2 ^ 24
  PROVE  LET n == Shards(size)
         IN /\ Part(size, 0).from = 0 /\ Part(size, n - 1).to = size
            /\ \A i \in 0 .. n - 1 : Part(size, i).to - Part(size, i).from \in 1 .. MaxUdpSize
            /\ \A i \in 1 .. n - 1 : Part(size, i).from = Part(size, i - 1).to
<1>1. PICK n \in Nat \ {0} : n = Shards(size) /\ MaxUdpSize * (n - 1) < size /\ size <= MaxUdpSize * n
    BY ShardsRoundUp, Zenon
<1>2. 60000 * (n - 1) < size /\ size <= 60000 * n
    BY <1>1, SMT DEF MaxUdpSize
<1>3. \A i : /\ Part(size, i).from = i * 60000
             /\ Part(size, i).to = IF (i + 1) * 60000 < size THEN (i + 1) * 60000 ELSE size
    BY SMT DEF Part, MaxUdpSize
<1>4. Part(size, 0).from = 0 /\ Part(size, n - 1).to = size
    BY <1>2, <1>3, SMT
<1>5. ASSUME NEW i \in 0 .. n - 1 PROVE Part(size, i).to - Part(size, i).from \in 1 .. MaxUdpSize
  <2>1. PICK d \in Int : d = Part(size, i).to - Part(size, i).from /\ 1 <= d /\ d <= 60000
      BY <1>2, <1>3, SMT
  <2>2. d <= MaxUdpSize /\ MaxUdpSize \in Int
      BY <2>1, SMT DEF MaxUdpSize
  <2>3. QED
      BY <2>1, <2>2, SMT
<1>6. ASSUME NEW i \in 1 .. n - 1 PROVE Part(size, i).from = Part(size, i - 1).to
    BY <1>2, <1>3, SMT
<1>7. QED
    BY <1>1, <1>4, <1>5, <1>6, Zenon

(* The parts of a long request are the whole of it in order, none empty and  *)
(* none too long for a datagram, for every size a float can hold             *)
(* (otel_exporter.cc:121-129).                                               *)
THEOREM PartsCoverRequests == UdpSpec => []PartsCover
<1>1. PartsCover
    BY SplitCovers, UdpAssumption, Zenon DEF PartsCover, UdpAssumption
<1>2. QED
    BY <1>1, PTL
=============================================================================
