---------------------------- MODULE UdpExporter ----------------------------
(***************************************************************************)
(* The udp half of OtelExporter, composed with the timer that refreshes     *)
(* its addresses.  Two threads share addr_info, current_addr_info and       *)
(* addr_in without a lock: the consumer, which sends requests and rotates   *)
(* through the addresses, and the timer's, which looks the name up again.   *)
(* The extension is built with -O0 (config.m4), so that every mention of a  *)
(* field is a load or a store of its own, and is a step here.  The lists    *)
(* that getaddrinfo returns are never freed; what counts of one is its      *)
(* length, and an entry is <<list, position>>.                              *)
(***************************************************************************)
EXTENDS CTimer, Sequences

CONSTANTS
    Sizes,          \* sizes of the requests that are sent, in bytes
    BigSizes,       \* sizes for which the splitting is checked
    MaxLookups,     \* lookups that succeed, in the model
    MaxEntries      \* addresses a lookup returns, in the model

ASSUME UdpAssumption ==
    /\ Sizes \subseteq Nat \ {0} /\ BigSizes \subseteq Nat \ {0}
    /\ MaxLookups \in Nat /\ MaxEntries \in Nat \ {0}

VARIABLES
    udp,                \* the timer is that of an exporter; else it is anybody's
    numeric,            \* udp_ip is an address, not a name
    lists,              \* the lists getaddrinfo has returned
    addr_info,          \* the last of them, 0 when null
    current_addr_info,  \* an entry, or Null
    addr_in,            \* an entry, or Null for the constructor's dead local variable
    init,               \* initUDP: "socket", "resolving", "starting" or "up"
    resolver,           \* resolveUDPAddr: "off", "lookup", "found", "current", "loaded"
                        \* or "done"
    reTry,              \* its argument
    resolved,           \* its register
    sender,             \* the consumer: "receive", "sending", "rotate", "test", "next",
                        \* "first", "store", "load" or "publish"
    left,               \* sendto calls the request still needs
    register,           \* its register
    routes,             \* history: the addresses of the request's datagrams
    published,          \* history: lookups that have set addr_in during the request
    crashed             \* the process is dead

addresses == <<lists, addr_info, current_addr_info, addr_in>>
resolving == <<resolver, reTry, resolved>>
sending == <<sender, left, register, routes>>
udpVars == <<udp, numeric, addresses, init, resolving, sending, published, crashed>>
allVars == <<vars, udpVars>>

Null == <<0, 0>>
First(list) == <<list, 1>>

(* ai_next. *)
After(entry) == IF entry[2] < lists[entry[1]] THEN <<entry[1], entry[2] + 1>> ELSE Null

-----------------------------------------------------------------------------
(* How a long request is split. *)

MaxUdpSize == 60000

(* A float has 24 significant bits: an int of 25 or more bits is rounded, to *)
(* the even one of two equally near floats.                                  *)
Float(n) ==
    IF n < 2 ^ 24 THEN n
    ELSE LET ulp  == CHOOSE u \in {2 ^ e : e \in 1 .. 7} : u * 2 ^ 23 <= n /\ n \div u < 2 ^ 24
             down == n \div ulp
             rest == n % ulp
             up   == rest * 2 > ulp \/ (rest * 2 = ulp /\ down % 2 = 1)
         IN (IF up THEN down + 1 ELSE down) * ulp

(* The quotient of floats is rounded too: down to a whole k when the rest is *)
(* at most half a unit in the last place of k.                               *)
VanishesBeside(rest, k) ==
    \E e \in 0 .. 16 : 2 ^ e <= k /\ k < 2 ^ (e + 1) /\ rest <= MaxUdpSize \div 2 ^ (24 - e)

(* mutant: the division is that of ints, and ceil has nothing to do. *)
ShardsTruncated(size) == Float(size) \div MaxUdpSize

(* ceil of the quotient. *)
Shards(size) ==
    LET k    == Float(size) \div MaxUdpSize
        rest == Float(size) % MaxUdpSize
    IN IF rest = 0 \/ VanishesBeside(rest, k) THEN k ELSE k + 1

(* data.substr(i * maxUdpSize, maxUdpSize): where part i starts and ends. *)
Part(size, i) ==
    LET end == (i + 1) * MaxUdpSize
    IN [from |-> i * MaxUdpSize, to |-> IF end < size THEN end ELSE size]

(* A long request is sent in parts, and every part twice. *)
Sends(size) == IF size <= MaxUdpSize THEN 1 ELSE 2 * Shards(size)

-----------------------------------------------------------------------------
UdpInit ==
    /\ Init
    /\ udp \in BOOLEAN /\ numeric \in BOOLEAN
    /\ lists = <<>> /\ addr_info = 0 /\ current_addr_info = Null /\ addr_in = Null
    /\ init = IF udp THEN "socket" ELSE "up"
    /\ resolver = "off" /\ reTry = 0 /\ resolved = Null
    /\ sender = "receive" /\ left = 0 /\ register = Null
    /\ routes = {} /\ published = 0
    /\ crashed = FALSE

(* initUDP opens the socket and resolves; without a socket it returns, and   *)
(* sendTracerByUDP sends nothing.                                            *)
InitUDP ==
    /\ init = "socket"
    /\ \/ init' = "resolving" /\ resolver' = "lookup" /\ reTry' = 3
       \/ init' = "noSocket" /\ UNCHANGED <<resolver, reTry>>
    /\ UNCHANGED <<vars, udp, numeric, addresses, resolved, sending, published, crashed>>

(* Then it starts the timer, AsyncLoop. *)
InitTimer ==
    /\ init = "resolving" /\ resolver = "done"
    /\ Start(TRUE, TRUE)
    /\ init' = "up"
    /\ resolver' = "off"
    /\ UNCHANGED <<udp, numeric, addresses, reTry, resolved, sending, published, crashed>>

-----------------------------------------------------------------------------
(* resolveUDPAddr, run by initUDP and then by the timer's thread. *)

ResolverIdles == UNCHANGED <<vars, udp, numeric, init, sending>>

TaskBegins ==
    /\ udp /\ thread = "task" /\ resolver = "off"
    /\ resolver' = "lookup"
    /\ reTry' = 3
    /\ ResolverIdles
    /\ UNCHANGED <<addresses, resolved, published, crashed>>

(* A numeric udp_ip is written through addr_in, that is over whatever the    *)
(* stack holds where the constructor's local variable was.                   *)
ResolveNumeric ==
    /\ resolver = "lookup" /\ numeric
    /\ resolver' = "done"
    /\ crashed' \in BOOLEAN
    /\ ResolverIdles
    /\ UNCHANGED <<addresses, reTry, resolved, published>>

(* mutant: a failed lookup leaves a null list behind. *)
LookupFailsNull ==
    /\ resolver = "lookup" /\ ~numeric
    /\ reTry' = reTry - 1
    /\ resolver' = IF reTry' = 0 THEN "done" ELSE "lookup"
    /\ addr_info' = 0
    /\ ResolverIdles
    /\ UNCHANGED <<lists, current_addr_info, addr_in, resolved, published, crashed>>

LookupFails ==
    /\ resolver = "lookup" /\ ~numeric
    /\ reTry' = reTry - 1
    /\ resolver' = IF reTry' = 0 THEN "done" ELSE "lookup"
    /\ ResolverIdles
    /\ UNCHANGED <<addresses, resolved, published, crashed>>

(* getaddrinfo stores the new list. *)
LookupSucceeds ==
    /\ resolver = "lookup" /\ ~numeric
    /\ Len(lists) < MaxLookups
    /\ \E length \in 1 .. MaxEntries : lists' = Append(lists, length)
    /\ addr_info' = Len(lists')
    /\ resolver' = "found"
    /\ ResolverIdles
    /\ UNCHANGED <<current_addr_info, addr_in, reTry, resolved, published, crashed>>

SetCurrent ==
    /\ resolver = "found"
    /\ current_addr_info' = First(addr_info)
    /\ resolver' = "current"
    /\ ResolverIdles
    /\ UNCHANGED <<lists, addr_info, addr_in, reTry, resolved, published, crashed>>

(* current_addr_info is read back, and the consumer may have moved it. *)
LoadCurrent ==
    /\ resolver = "current"
    /\ resolved' = current_addr_info
    /\ resolver' = "loaded"
    /\ crashed' = (current_addr_info = Null)
    /\ ResolverIdles
    /\ UNCHANGED <<addresses, reTry, published>>

(* mutant: only the list is replaced. *)
PublishNothing ==
    /\ resolver = "loaded"
    /\ resolver' = "done"
    /\ resolved' = Null
    /\ ResolverIdles
    /\ UNCHANGED <<addresses, reTry, published, crashed>>

Publish ==
    /\ resolver = "loaded"
    /\ addr_in' = resolved
    /\ resolver' = "done"
    /\ resolved' = Null
    /\ published' = IF sender = "sending" THEN published + 1 ELSE published
    /\ ResolverIdles
    /\ UNCHANGED <<lists, addr_info, current_addr_info, reTry, crashed>>

Resolve ==
    \/ TaskBegins \/ ResolveNumeric \/ LookupFails \/ LookupSucceeds
    \/ SetCurrent \/ LoadCurrent \/ Publish

-----------------------------------------------------------------------------
(* sendTracerByUDP, run by the consumer once initUDP has returned. *)

SenderOnly == UNCHANGED <<vars, udp, numeric, lists, addr_info, init, resolving>>

Receive ==
    /\ udp /\ init = "up" /\ owner = "idle"
    /\ sender = "receive"
    /\ sender' = "sending"
    /\ \E size \in Sizes : left' = Sends(size)
    /\ SenderOnly
    /\ UNCHANGED <<current_addr_info, addr_in, register, routes, published, crashed>>

(* mutant: the address is changed after every part. *)
SendAndRotate ==
    /\ sender = "sending"
    /\ routes' = routes \cup {addr_in}
    /\ left' = left - 1
    /\ sender' = IF left' = 0 THEN "rotate" ELSE "sending"
    /\ addr_in' = IF addr_in # Null /\ After(addr_in) # Null THEN After(addr_in) ELSE addr_in
    /\ SenderOnly
    /\ UNCHANGED <<current_addr_info, register, published, crashed>>

(* One sendto. *)
Send ==
    /\ sender = "sending"
    /\ routes' = routes \cup {addr_in}
    /\ left' = left - 1
    /\ sender' = IF left' = 0 THEN "rotate" ELSE "sending"
    /\ SenderOnly
    /\ UNCHANGED <<current_addr_info, addr_in, register, published, crashed>>

(* The request is over. *)
Finished ==
    /\ sender' = "receive"
    /\ register' = Null
    /\ routes' = {}
    /\ published' = 0

RotateNothing ==
    /\ sender = "rotate" /\ current_addr_info = Null
    /\ Finished
    /\ SenderOnly
    /\ UNCHANGED <<current_addr_info, addr_in, left, crashed>>

Rotate ==
    /\ sender = "rotate" /\ current_addr_info # Null
    /\ sender' = "test"
    /\ SenderOnly
    /\ UNCHANGED <<current_addr_info, addr_in, left, register, routes, published, crashed>>

(* Is there an ai_next? *)
TestNext ==
    /\ sender = "test"
    /\ sender' = IF After(current_addr_info) # Null THEN "next" ELSE "first"
    /\ SenderOnly
    /\ UNCHANGED <<current_addr_info, addr_in, left, register, routes, published, crashed>>

(* It is read again, and is null if the timer has set a shorter list since.  *)
LoadNext ==
    /\ sender = "next"
    /\ register' = After(current_addr_info)
    /\ sender' = "store"
    /\ SenderOnly
    /\ UNCHANGED <<current_addr_info, addr_in, left, routes, published, crashed>>

(* mutant: at the end of a list its last entry is kept. *)
LoadLast ==
    /\ sender = "first"
    /\ register' = current_addr_info
    /\ sender' = "store"
    /\ SenderOnly
    /\ UNCHANGED <<current_addr_info, addr_in, left, routes, published, crashed>>

LoadFirst ==
    /\ sender = "first"
    /\ register' = IF addr_info = 0 THEN Null ELSE First(addr_info)
    /\ sender' = "store"
    /\ SenderOnly
    /\ UNCHANGED <<current_addr_info, addr_in, left, routes, published, crashed>>

StoreCurrent ==
    /\ sender = "store"
    /\ current_addr_info' = register
    /\ sender' = "load"
    /\ SenderOnly
    /\ UNCHANGED <<addr_in, left, register, routes, published, crashed>>

LoadAddress ==
    /\ sender = "load"
    /\ register' = current_addr_info
    /\ sender' = "publish"
    /\ crashed' = (current_addr_info = Null)
    /\ SenderOnly
    /\ UNCHANGED <<current_addr_info, addr_in, left, routes, published>>

StoreAddress ==
    /\ sender = "publish"
    /\ addr_in' = register
    /\ Finished
    /\ SenderOnly
    /\ UNCHANGED <<current_addr_info, left, crashed>>

SendOn ==
    \/ Send \/ RotateNothing \/ Rotate \/ TestNext \/ LoadNext \/ LoadFirst
    \/ StoreCurrent \/ LoadAddress \/ StoreAddress

-----------------------------------------------------------------------------
(* The timer.  Its task is resolveUDPAddr; of another owner's timer it is    *)
(* anything that returns.                                                    *)
TimerTask ==
    /\ Task
    /\ udp => resolver = "done"
    /\ resolver' = "off"
    /\ UNCHANGED <<udp, numeric, addresses, init, reTry, resolved, sending, published, crashed>>

TimerThread == TimerTask \/ ((Loop \/ Wake \/ Leave \/ Reset) /\ UNCHANGED udpVars)

OwnerGoesOn == (StartThread \/ CancelStore \/ DeleteThread) /\ UNCHANGED udpVars

(* An exporter's timer is neither started again, cancelled nor deleted.      *)
OwnerCalls ==
    /\ ~udp
    /\ (\E loop, async \in BOOLEAN : Start(loop, async)) \/ StartSync \/ Cancel \/ Delete
    /\ UNCHANGED udpVars

UdpNext ==
    /\ ~crashed
    /\ InitUDP \/ InitTimer \/ Resolve \/ Receive \/ SendOn
       \/ TimerThread \/ OwnerGoesOn \/ OwnerCalls

UdpSpec == UdpInit /\ [][UdpNext]_allVars

(* Every thread runs; a lookup returns.  Requests come or do not come.       *)
UdpFairSpec ==
    /\ UdpSpec
    /\ WF_allVars(~crashed /\ (InitUDP \/ InitTimer))
    /\ WF_allVars(~crashed /\ Resolve)
    /\ WF_allVars(~crashed /\ SendOn)
    /\ WF_allVars(~crashed /\ TimerThread)
    /\ WF_allVars(~crashed /\ StartThread /\ UNCHANGED udpVars)
    /\ WF_allVars(~crashed /\ CancelStore /\ UNCHANGED udpVars)
    /\ WF_allVars(~crashed /\ DeleteThread /\ UNCHANGED udpVars)

-----------------------------------------------------------------------------
(* No datagram is sent to the dead local variable whose address the          *)
(* constructor keeps (otel_exporter.cc:22), unless udp_ip is numeric or the  *)
(* first lookup to succeed is not over.                                      *)
SentToTheCollector ==
    sender = "sending" /\ addr_in = Null =>
        \/ numeric
        \/ lists = <<>>
        \/ Len(lists) = 1 /\ resolver \in {"found", "current", "loaded"}

(* The parts of a request, which only one collector can put together, go to  *)
(* one address, unless the timer has published another list in between       *)
(* (otel_exporter.cc:107-149 reads addr_in anew for every datagram).         *)
PartsTogether == \A a, b \in routes : a = b \/ published > 0

(* The process dies of these fields only when udp_ip is numeric, or when a   *)
(* lookup that returns a single address overtakes the rotation through a     *)
(* longer list (otel_exporter.cc:150-155).                                   *)
CrashExplained ==
    crashed => numeric \/ \E k, l \in 1 .. Len(lists) : k < l /\ lists[k] > 1 /\ lists[l] = 1

(* However the rotation and the timer interleave, every address of the last  *)
(* list is served as long as requests keep coming and no newer list replaces *)
(* it: a rotation that overwrites current_addr_info with an entry of the old *)
(* list delays the new one, it does not lose it (otel_exporter.cc:149-156).  *)
EveryAddressServed ==
    ([]<>(sender = "receive") /\ []<>(sender = "sending")) =>
        \A l \in 1 .. MaxLookups, i \in 1 .. MaxEntries :
            [](addr_info = l /\ i <= lists[l] =>
                   <>(<<l, i>> \in routes \/ addr_info # l))

(* The parts of a request are, in order, the whole of it, none is empty and  *)
(* none too long for a datagram, up to the size from which a float cannot    *)
(* hold the size any more (otel_exporter.cc:121-129).  It does not depend on *)
(* the state and is evaluated in the first.                                  *)
PartsCover ==
    init = "socket" =>
        \A size \in {s \in Sizes \cup BigSizes : s < 2 ^ 24} :
            LET n == Shards(size)
            IN /\ Part(size, 0).from = 0 /\ Part(size, n - 1).to = size
               /\ \A i \in 0 .. n - 1 : Part(size, i).to - Part(size, i).from \in 1 .. MaxUdpSize
               /\ \A i \in 1 .. n - 1 : Part(size, i).from = Part(size, i - 1).to
=============================================================================
