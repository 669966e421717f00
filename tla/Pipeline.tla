------------------------------ MODULE Pipeline ------------------------------
(***************************************************************************)
(* The way of a finished trace out of a process: a boost message queue in   *)
(* shared memory, the consumer threads that empty it and the exporter.      *)
(*                                                                         *)
(* Root is the process that loads the extension: the php-fpm master (Cli =  *)
(* FALSE), whose workers are its forks, or a php script, which may fork     *)
(* itself.  All of them know the queue by the one name that Root's pid gave *)
(* it in MINIT; a queue lives on, without a name, for those who have it     *)
(* open.  Traces are abstracted to messages, see Tracer for what is in one  *)
(* and when it is exported.  Under the cli SAPI both enable switches are on *)
(* here; Tracer has them off as well.                                       *)
(***************************************************************************)
EXTENDS Integers, Sequences, FiniteSets

CONSTANTS
    Cli,                \* is_cli_sapi()
    Kills,              \* whether processes may be killed
    Grpc,               \* receiver_type: grpc, or else udp
    Procs, Root,        \* processes, and the one that runs MINIT
    Threads,            \* consumer_nums (cli_consumer_nums under the cli SAPI)
    Msgs,               \* serialised requests
    Oversized,          \* those longer than max_message_size
    Long,               \* those longer than maxUdpSize, the 60000 bytes of a datagram
    Parts,              \* how many datagrams such a one is cut into
    MaxQueueLength,     \* opentelemetry.max_queue_length
    MaxQueues,          \* bound on the queues created in a run
    None                \* no message

ASSUME SwitchesAssumption == {Cli, Kills, Grpc} \subseteq BOOLEAN
ASSUME ProcsAssumption == Root \in Procs
ASSUME MsgsAssumption == Oversized \cup Long \subseteq Msgs /\ None \notin Msgs
ASSUME PartsAssumption == Parts \in Nat \ {0}
ASSUME LengthAssumption == MaxQueueLength \in Nat \ {0} /\ MaxQueues \in Nat \ {0}

VARIABLES
    proc,               \* "unborn", "running", "opening" (inside init_consumers),
                        \* "exiting" (past MSHUTDOWN), "exited" or "crashed"
    is_init_consumers,  \* OPENTELEMETRY_G(is_init_consumers)
    linked,             \* the queue the name stands for, 0 if none
    created,            \* queues created so far
    content,            \* what is in every queue
    locked,             \* the mutex boost keeps in every queue
    exporting,          \* exporterOpenTelemetry from open to try_send's return
    consumer,           \* the consumer threads
    calls,              \* per process: gRPC calls not completed
    network,            \* copies of every part of a message on their way to the collector
    fresh,              \* history: messages not exported yet
    arrivals            \* history: how often each part reached the collector

procVars == <<proc, is_init_consumers>>
queueVars == <<linked, created, content, locked>>
wireVars == <<network, arrivals>>
vars == <<procVars, queueVars, exporting, consumer, calls, wireVars, fresh>>

Queues == 1 .. MaxQueues

(* A part of a message by its number; a message that is not cut is its part 1. *)
Datagrams == Msgs \X (1 .. Parts)

Idle == [pc |-> "idle", queue |-> 0, msg |-> None]
NoThread == [pc |-> "none", queue |-> 0, msg |-> None]
Started == [pc |-> "starting", queue |-> 0, msg |-> None]

Script(p) == proc[p] = "running" /\ exporting[p] = Idle
Up(p) == proc[p] \in {"running", "opening", "exiting"}

Init ==
    /\ proc = [p \in Procs |-> IF p = Root THEN "running" ELSE "unborn"]
    /\ is_init_consumers = [p \in Procs |-> FALSE]
    /\ linked = 0
    /\ created = 0
    /\ content = [q \in Queues |-> <<>>]
    /\ locked = [q \in Queues |-> FALSE]
    /\ exporting = [p \in Procs |-> Idle]
    /\ consumer = [p \in Procs |-> [t \in Threads |-> NoThread]]
    /\ calls = [p \in Procs |-> {}]
    /\ network = [d \in Datagrams |-> 0]
    /\ fresh = Msgs
    /\ arrivals = [d \in Datagrams |-> 0]

-----------------------------------------------------------------------------
(* init_consumers. *)

(* A definition marked "mutant" is a wrong version of the next one.          *)
(* mutant: init_consumers does not look whether it has run.                  *)
InitCleanAgain(p) ==
    /\ Script(p)
    /\ Cli \/ p = Root
    /\ linked' = 0
    /\ is_init_consumers' = [is_init_consumers EXCEPT ![p] = TRUE]
    /\ proc' = [proc EXCEPT ![p] = "opening"]
    /\ UNCHANGED <<created, content, locked, exporting, consumer, calls, wireVars, fresh>>

(* clean_consumers removes whatever has the name.  The php-fpm master gets   *)
(* here in MINIT, a cli process in its first start_tracer.                   *)
InitClean(p) ==
    /\ Script(p)
    /\ ~is_init_consumers[p]
    /\ Cli \/ p = Root
    /\ linked' = 0
    /\ is_init_consumers' = [is_init_consumers EXCEPT ![p] = TRUE]
    /\ proc' = [proc EXCEPT ![p] = "opening"]
    /\ UNCHANGED <<created, content, locked, exporting, consumer, calls, wireVars, fresh>>

(* mutant: no thread is started. *)
InitOpenUnserved(p) ==
    /\ proc[p] = "opening"
    /\ proc' = [proc EXCEPT ![p] = "running"]
    /\ \/ UNCHANGED <<linked, created>>
       \/ /\ linked = 0 /\ created < MaxQueues
          /\ created' = created + 1
          /\ linked' = created + 1
    /\ UNCHANGED <<is_init_consumers, content, locked, exporting, consumer, calls, wireVars, fresh>>

(* open_or_create, which may fail for want of shared memory; then the        *)
(* consumer threads.                                                         *)
InitOpen(p) ==
    /\ proc[p] = "opening"
    /\ proc' = [proc EXCEPT ![p] = "running"]
    /\ \/ UNCHANGED <<linked, created, consumer>>
       \/ /\ IF linked # 0
               THEN UNCHANGED <<linked, created>>
               ELSE /\ created < MaxQueues
                    /\ created' = created + 1
                    /\ linked' = created + 1
          /\ consumer' = [consumer EXCEPT ![p] = [t \in Threads |-> Started]]
    /\ UNCHANGED <<is_init_consumers, content, locked, exporting, calls, wireVars, fresh>>

-----------------------------------------------------------------------------
(* exporterOpenTelemetry. *)

(* message_queue(open_only, name) throws when there is no such queue.  The   *)
(* php-fpm master serves no requests.                                       *)
ExportOpen(p, m) ==
    /\ Script(p) /\ is_init_consumers[p]
    /\ Cli \/ p # Root
    /\ m \in fresh
    /\ fresh' = fresh \ {m}
    /\ exporting' = IF linked = 0
                      THEN exporting
                      ELSE [exporting EXCEPT ![p] = [pc |-> "opened", queue |-> linked, msg |-> m]]
    /\ UNCHANGED <<procVars, queueVars, consumer, calls, wireVars>>

(* mutant: send instead of try_send, which waits for room. *)
ExportLockWaits(p) ==
    /\ proc[p] = "running" /\ exporting[p].pc = "opened"
    /\ LET q == exporting[p].queue
       IN IF exporting[p].msg \in Oversized
            THEN /\ exporting' = [exporting EXCEPT ![p] = Idle]
                 /\ locked' = locked
            ELSE /\ ~locked[q] /\ Len(content[q]) < MaxQueueLength
                 /\ locked' = [locked EXCEPT ![q] = TRUE]
                 /\ exporting' = [exporting EXCEPT ![p].pc = "locked"]
    /\ UNCHANGED <<procVars, linked, created, content, consumer, calls, wireVars, fresh>>

(* try_send throws on a message longer than the queue takes, and otherwise   *)
(* waits for the mutex.                                                      *)
ExportLock(p) ==
    /\ proc[p] = "running" /\ exporting[p].pc = "opened"
    /\ LET q == exporting[p].queue
       IN IF exporting[p].msg \in Oversized
            THEN /\ exporting' = [exporting EXCEPT ![p] = Idle]
                 /\ locked' = locked
            ELSE /\ ~locked[q]
                 /\ locked' = [locked EXCEPT ![q] = TRUE]
                 /\ exporting' = [exporting EXCEPT ![p].pc = "locked"]
    /\ UNCHANGED <<procVars, linked, created, content, consumer, calls, wireVars, fresh>>

(* mutant: the length of the queue is not limited. *)
ExportSendUnbounded(p) ==
    /\ proc[p] = "running" /\ exporting[p].pc = "locked"
    /\ LET q == exporting[p].queue
       IN /\ content' = [content EXCEPT ![q] = Append(@, exporting[p].msg)]
          /\ locked' = [locked EXCEPT ![q] = FALSE]
    /\ exporting' = [exporting EXCEPT ![p] = Idle]
    /\ UNCHANGED <<procVars, linked, created, consumer, calls, wireVars, fresh>>

(* try_send returns false on a full queue, and the request is lost. *)
ExportSend(p) ==
    /\ proc[p] = "running" /\ exporting[p].pc = "locked"
    /\ LET q == exporting[p].queue
       IN /\ content' = IF Len(content[q]) >= MaxQueueLength
                          THEN content
                          ELSE [content EXCEPT ![q] = Append(@, exporting[p].msg)]
          /\ locked' = [locked EXCEPT ![q] = FALSE]
    /\ exporting' = [exporting EXCEPT ![p] = Idle]
    /\ UNCHANGED <<procVars, linked, created, consumer, calls, wireVars, fresh>>

-----------------------------------------------------------------------------
(* consumer, OtelExporter. *)

Die(p, how) ==
    /\ proc' = [proc EXCEPT ![p] = how]
    /\ consumer' = [consumer EXCEPT ![p] = [t \in Threads |-> NoThread]]
    /\ calls' = [calls EXCEPT ![p] = {}]
    /\ exporting' = [exporting EXCEPT ![p] = Idle]

(* A thread opens the queue by its name.  If that throws the thread returns  *)
(* from a function declared [[noreturn]], which is undefined behaviour: the   *)
(* thread just ends, or the process crashes.                                 *)
ConsumerOpen(p, t) ==
    /\ Up(p) /\ consumer[p][t].pc = "starting"
    /\ \/ /\ linked # 0
          /\ consumer' = [consumer EXCEPT ![p][t].pc = "receiving", ![p][t].queue = linked]
          /\ UNCHANGED <<proc, calls, exporting>>
       \/ /\ linked = 0
          /\ consumer' = [consumer EXCEPT ![p][t].pc = "returned"]
          /\ UNCHANGED <<proc, calls, exporting>>
       \/ linked = 0 /\ Die(p, "crashed")
    /\ UNCHANGED <<is_init_consumers, queueVars, wireVars, fresh>>

(* receive waits for a message and has the mutex when it finds one. *)
ReceiveLock(p, t) ==
    /\ Up(p) /\ consumer[p][t].pc = "receiving"
    /\ LET q == consumer[p][t].queue
       IN /\ content[q] # <<>> /\ ~locked[q]
          /\ locked' = [locked EXCEPT ![q] = TRUE]
    /\ consumer' = [consumer EXCEPT ![p][t].pc = "locked"]
    /\ UNCHANGED <<procVars, linked, created, content, exporting, calls, wireVars, fresh>>

(* mutant: receive leaves the message in the queue. *)
ReceiveCopy(p, t) ==
    /\ Up(p) /\ consumer[p][t].pc = "locked"
    /\ LET q == consumer[p][t].queue
       IN /\ consumer' = [consumer EXCEPT ![p][t].pc = "sending", ![p][t].msg = Head(content[q])]
          /\ locked' = [locked EXCEPT ![q] = FALSE]
    /\ UNCHANGED <<procVars, linked, created, content, exporting, calls, wireVars, fresh>>

Receive(p, t) ==
    /\ Up(p) /\ consumer[p][t].pc = "locked"
    /\ LET q == consumer[p][t].queue
       IN /\ consumer' = [consumer EXCEPT ![p][t].pc = "sending", ![p][t].msg = Head(content[q])]
          /\ content' = [content EXCEPT ![q] = Tail(@)]
          /\ locked' = [locked EXCEPT ![q] = FALSE]
    /\ UNCHANGED <<procVars, linked, created, exporting, calls, wireVars, fresh>>

(* sendTracerByUDP cuts a long request and sends every part twice, against     *)
(* loss; any other is one datagram, and over gRPC one call.                   *)
Copies ==
    [d \in Datagrams |->
        IF ~Grpc /\ d[1] \in Long THEN 2 ELSE IF d[2] = 1 THEN 1 ELSE 0]

NetworkWith(m) == [d \in Datagrams |-> network[d] + (IF d[1] = m THEN Copies[d] ELSE 0)]

(* mutant: the thread serves one message only. *)
SendOnce(p, t) ==
    /\ Up(p) /\ consumer[p][t].pc = "sending"
    /\ network' = NetworkWith(consumer[p][t].msg)
    /\ calls' = IF Grpc THEN [calls EXCEPT ![p] = @ \cup {consumer[p][t].msg}] ELSE calls
    /\ consumer' = [consumer EXCEPT ![p][t].pc = "none", ![p][t].msg = None]
    /\ UNCHANGED <<procVars, queueVars, exporting, fresh, arrivals>>

(* sendAsyncTracer starts a call and does not wait for it; sendTracerByUDP   *)
(* is one sendto after the other, of which a process that dies in between     *)
(* makes only the first: for the collector the others got lost.               *)
Send(p, t) ==
    /\ Up(p) /\ consumer[p][t].pc = "sending"
    /\ network' = NetworkWith(consumer[p][t].msg)
    /\ calls' = IF Grpc THEN [calls EXCEPT ![p] = @ \cup {consumer[p][t].msg}] ELSE calls
    /\ consumer' = [consumer EXCEPT ![p][t].pc = "receiving", ![p][t].msg = None]
    /\ UNCHANGED <<procVars, queueVars, exporting, fresh, arrivals>>

(* mutant: a call that failed or missed its deadline is tried again. *)
CompleteRetried(p, m) ==
    /\ Up(p) /\ m \in calls[p]
    /\ calls' = [calls EXCEPT ![p] = @ \ {m}]
    /\ network' = NetworkWith(m)
    /\ UNCHANGED <<procVars, queueVars, exporting, consumer, arrivals, fresh>>

(* AsyncCompleteRpc: the call has an answer, an error or reached its         *)
(* deadline, which says nothing of whether the collector has the message;     *)
(* either way it is deleted and not tried again.                             *)
Complete(p, m) ==
    /\ Up(p) /\ m \in calls[p]
    /\ calls' = [calls EXCEPT ![p] = @ \ {m}]
    /\ UNCHANGED <<procVars, queueVars, exporting, consumer, wireVars, fresh>>

(* The network and the collector. *)
Arrive(d) ==
    /\ network[d] > 0
    /\ network' = [network EXCEPT ![d] = @ - 1]
    /\ arrivals' = [arrivals EXCEPT ![d] = @ + 1]
    /\ UNCHANGED <<procVars, queueVars, exporting, consumer, calls, fresh>>

Lose(d) ==
    /\ network[d] > 0
    /\ network' = [network EXCEPT ![d] = @ - 1]
    /\ UNCHANGED <<procVars, queueVars, exporting, consumer, calls, fresh, arrivals>>

-----------------------------------------------------------------------------
(* Processes. *)

(* Only the forking thread goes on in the child.  php-fpm forks workers once *)
(* MINIT is over.                                                            *)
Fork(p, c) ==
    /\ Script(p) /\ proc[c] = "unborn"
    /\ Cli \/ (p = Root /\ is_init_consumers[p])
    /\ proc' = [proc EXCEPT ![c] = "running"]
    /\ is_init_consumers' = [is_init_consumers EXCEPT ![c] = is_init_consumers[p]]
    /\ UNCHANGED <<queueVars, exporting, consumer, calls, wireVars, fresh>>

(* mutant: a cli process leaves its queue behind. *)
ModuleShutdownUnclean(p) ==
    /\ Script(p)
    /\ proc' = [proc EXCEPT ![p] = "exiting"]
    /\ UNCHANGED <<is_init_consumers, queueVars, exporting, consumer, calls, wireVars, fresh>>

(* opentelemetry_module_shutdown: a cli process that knows of a queue         *)
(* removes the name.  The php-fpm master never removes it.                   *)
ModuleShutdown(p) ==
    /\ Script(p)
    /\ proc' = [proc EXCEPT ![p] = "exiting"]
    /\ linked' = IF Cli /\ is_init_consumers[p] THEN 0 ELSE linked
    /\ UNCHANGED <<is_init_consumers, created, content, locked, exporting, consumer, calls,
                   wireVars, fresh>>

(* The threads die with their process, wherever they are. *)
Exit(p) ==
    /\ proc[p] = "exiting"
    /\ Die(p, "exited")
    /\ UNCHANGED <<is_init_consumers, queueVars, wireVars, fresh>>

Kill(p) ==
    /\ Kills /\ Up(p)
    /\ Die(p, "exited")
    /\ UNCHANGED <<is_init_consumers, queueVars, wireVars, fresh>>

(* A reload: the php-fpm master executes itself again, under the same pid;   *)
(* workers of before may still serve a request.                              *)
Reload ==
    /\ ~Cli /\ Script(Root) /\ is_init_consumers[Root]
    /\ created < MaxQueues
    /\ Die(Root, "running")
    /\ is_init_consumers' = [is_init_consumers EXCEPT ![Root] = FALSE]
    /\ UNCHANGED <<queueVars, wireVars, fresh>>

-----------------------------------------------------------------------------
ThreadStep(p, t) == ConsumerOpen(p, t) \/ ReceiveLock(p, t) \/ Receive(p, t) \/ Send(p, t)
ExportStep(p) == ExportLock(p) \/ ExportSend(p)

Next ==
    \/ \E p \in Procs : InitClean(p) \/ InitOpen(p) \/ ExportStep(p) \/ ModuleShutdown(p)
                        \/ Exit(p) \/ Kill(p)
    \/ \E p \in Procs, m \in Msgs : ExportOpen(p, m) \/ Complete(p, m)
    \/ \E p \in Procs, t \in Threads : ThreadStep(p, t)
    \/ \E p, c \in Procs : Fork(p, c)
    \/ \E d \in Datagrams : Arrive(d) \/ Lose(d)
    \/ Reload

Spec == Init /\ [][Next]_vars

(* Threads that can run do run, and a mutex that is free again and again is  *)
(* had in the end (with finitely many messages it is free for good).         *)
Fairness ==
    /\ \A p \in Procs : WF_vars(ExportStep(p))
    /\ \A p \in Procs, t \in Threads : WF_vars(ThreadStep(p, t))

FairSpec == Spec /\ Fairness

-----------------------------------------------------------------------------
(* Properties. *)

Thread == [pc : {"none", "starting", "receiving", "locked", "sending", "returned"},
           queue : Queues \cup {0}, msg : Msgs \cup {None}]

(* Every variable has its type, and no queue is longer than allowed          *)
(* (core.cc, otel_exporter.cc).                                              *)
TypeOK ==
    /\ proc \in [Procs -> {"unborn", "running", "opening", "exiting", "exited", "crashed"}]
    /\ is_init_consumers \in [Procs -> BOOLEAN]
    /\ linked \in 0 .. created
    /\ created \in 0 .. MaxQueues
    /\ content \in [Queues -> Seq(Msgs \ Oversized)]
    /\ \A q \in Queues : Len(content[q]) <= MaxQueueLength
    /\ locked \in [Queues -> BOOLEAN]
    /\ exporting \in [Procs -> [pc : {"idle", "opened", "locked"}, queue : Queues \cup {0},
                                msg : Msgs \cup {None}]]
    /\ consumer \in [Procs -> [Threads -> Thread]]
    /\ calls \in [Procs -> SUBSET Msgs]
    /\ network \in [Datagrams -> Nat]
    /\ fresh \subseteq Msgs
    /\ arrivals \in [Datagrams -> Nat]

InQueue(m, q) == \E i \in 1 .. Len(content[q]) : content[q][i] = m

(* The pipeline implements Channel: a request is handed from the exporting    *)
(* process to the queue, to one thread and to the network, and sent by one    *)
(* thread once, in spite of forks, reloads, kills and calls that miss their   *)
(* deadline.  So it reaches the collector at most once over gRPC, and over    *)
(* udp if it fits into a datagram; of a longer one each part does at most     *)
(* twice (core.cc consumer, otel_exporter.cc sendAsyncTracer,                 *)
(* sendTracerByUDP).                                                          *)
C == INSTANCE Channel
AtMostOnce == C!Spec

(* Some thread empties queue q, or is about to open it. *)
Served(q) == \E p \in Procs, t \in Threads :
    /\ Up(p)
    /\ \/ consumer[p][t].pc \in {"receiving", "locked", "sending"} /\ consumer[p][t].queue = q
       \/ consumer[p][t].pc = "starting" /\ linked = q

(* As long as the php-fpm master is up and initialised, a worker that opens  *)
(* the queue gets one that is being emptied (core.cc:69-124).                *)
QueueServed ==
    linked # 0 /\ proc[Root] = "running" /\ is_init_consumers[Root] => Served(linked)

(* What init_consumers removes is a leftover: no thread empties it ("clean   *)
(* the remains of earlier errors first", core.cc:78).                        *)
OnlyLeftoversRemoved ==
    [][\A p \in Procs : proc[p] = "running" /\ proc'[p] = "opening" /\ linked # 0
         => ~Served(linked)]_vars

(* consumer never returns (its [[noreturn]], core.cc:36).                    *)
ConsumerNeverReturns ==
    \A p \in Procs : /\ proc[p] # "crashed"
                     /\ \A t \in Threads : consumer[p][t].pc # "returned"

(* The name of a queue does not outlive the cli processes that use it        *)
(* ("clean the queue before the process exits", core.cc:184).                *)
NoQueueLeaked ==
    linked # 0 => \E p \in Procs : Up(p) /\ is_init_consumers[p]

(* Whoever held the mutex of queue q died, and nobody will release it. *)
Orphaned(q) ==
    /\ locked[q]
    /\ \A p \in Procs : /\ exporting[p].pc = "locked" => exporting[p].queue # q
                        /\ \A t \in Threads : consumer[p][t].pc = "locked"
                                              => consumer[p][t].queue # q

(* A queued message is received, unless the php-fpm master goes down or is   *)
(* reloaded first, or some process died inside the queue's mutex.            *)
QueuedIsReceived ==
    \A m \in Msgs, q \in Queues :
        InQueue(m, q) /\ linked = q
            ~> ~InQueue(m, q) \/ ~is_init_consumers[Root] \/ ~Up(Root) \/ Orphaned(q)

(* A process at the end of a request is not held up by the queue: try_send   *)
(* returns, full queue or not, unless some process died inside the mutex     *)
(* (core.cc:26).                                                             *)
ExportEnds ==
    \A p \in Procs, q \in Queues :
        exporting[p].queue = q ~> exporting[p].queue # q \/ Orphaned(q)

=============================================================================
