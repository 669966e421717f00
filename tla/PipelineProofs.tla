--------------------------- MODULE PipelineProofs ---------------------------
(***************************************************************************)
(* The export pipeline, for any number of processes, threads, requests and  *)
(* queues: its types, the mutex of a queue, and that it implements Channel;  *)
(* that under php-fpm the queue of the name is served and no consumer         *)
(* returns; that scripts leave no queue behind.                              *)
(***************************************************************************)
EXTENDS Pipeline, TLAPS

USE SwitchesAssumption, ProcsAssumption, MsgsAssumption, PartsAssumption, LengthAssumption

Export == [pc : {"idle", "opened", "locked"}, queue : Queues \cup {0}, msg : Msgs \cup {None}]

(* A process or thread at work has the queue and the message of its work.    *)
StageInv ==
    /\ \A p \in Procs :
          /\ exporting[p].pc # "idle" => exporting[p].queue \in Queues /\ exporting[p].msg \in Msgs
          /\ exporting[p].pc = "locked" => exporting[p].msg \notin Oversized
    /\ \A p \in Procs, t \in Threads :
          /\ consumer[p][t].pc \in {"receiving", "locked", "sending"} => consumer[p][t].queue \in Queues
          /\ consumer[p][t].pc = "sending" => consumer[p][t].msg \in Msgs

(* The mutex of a queue has at most one holder, and the queue is not empty   *)
(* when it is a thread.                                                      *)
SendsAlone(p) ==
    exporting[p].pc = "locked" =>
        /\ locked[exporting[p].queue]
        /\ \A o \in Procs :
              exporting[o].pc = "locked" /\ exporting[o].queue = exporting[p].queue => o = p
ReceivesAlone(p, t) ==
    consumer[p][t].pc = "locked" =>
        /\ locked[consumer[p][t].queue]
        /\ content[consumer[p][t].queue] # <<>>
        /\ \A o \in Procs : exporting[o].pc = "locked" => exporting[o].queue # consumer[p][t].queue
        /\ \A o \in Procs, u \in Threads :
              consumer[o][u].pc = "locked" /\ consumer[o][u].queue = consumer[p][t].queue
                  => o = p /\ u = t
MutexInv ==
    /\ \A p \in Procs : SendsAlone(p)
    /\ \A p \in Procs, t \in Threads : ReceivesAlone(p, t)

PipeInv == TypeOK /\ StageInv /\ MutexInv

-----------------------------------------------------------------------------
(* What a step makes of the processes at the queue and of the threads.       *)

(* One process's export is replaced. *)
ExportBecomes(p, e) ==
    /\ exporting' \in [Procs -> Export]
    /\ exporting'[p] = e
    /\ \A o \in Procs : o # p => exporting'[o] = exporting[o]

(* One thread is replaced. *)
ThreadBecomes(p, t, r) ==
    /\ consumer' \in [Procs -> [Threads -> Thread]]
    /\ consumer'[p][t] = r
    /\ \A o \in Procs, u \in Threads : (o # p \/ u # t) => consumer'[o][u] = consumer[o][u]

(* All threads of a process are replaced. *)
ThreadsBecome(p, r) ==
    /\ consumer' \in [Procs -> [Threads -> Thread]]
    /\ \A t \in Threads : consumer'[p][t] = r
    /\ \A o \in Procs, u \in Threads : o # p => consumer'[o][u] = consumer[o][u]

LEMMA ExportReplaced ==
  ASSUME TypeOK, NEW p \in Procs, NEW e \in Export, exporting' = [exporting EXCEPT ![p] = e]
  PROVE  ExportBecomes(p, e)
BY DEF TypeOK, ExportBecomes, Export

LEMMA ThreadReplaced ==
  ASSUME TypeOK, NEW p \in Procs, NEW t \in Threads, NEW r \in Thread,
         consumer' = [consumer EXCEPT ![p] = [consumer[p] EXCEPT ![t] = r]]
  PROVE  ThreadBecomes(p, t, r)
<1>1. consumer \in [Procs -> [Threads -> Thread]]
  BY DEF TypeOK
<1>2. [consumer[p] EXCEPT ![t] = r] \in [Threads -> Thread]
  BY <1>1
<1>3. /\ consumer'[p] = [consumer[p] EXCEPT ![t] = r]
      /\ \A o \in Procs : o # p => consumer'[o] = consumer[o]
      /\ consumer' \in [Procs -> [Threads -> Thread]]
  BY <1>1, <1>2
<1>4. consumer'[p][t] = r /\ \A u \in Threads : u # t => consumer'[p][u] = consumer[p][u]
  BY <1>1, <1>3
<1>5. QED
  BY <1>3, <1>4 DEF ThreadBecomes

LEMMA ThreadsReplaced ==
  ASSUME TypeOK, NEW p \in Procs, NEW r \in Thread,
         consumer' = [consumer EXCEPT ![p] = [t \in Threads |-> r]]
  PROVE  ThreadsBecome(p, r)
<1>1. consumer \in [Procs -> [Threads -> Thread]] /\ [t \in Threads |-> r] \in [Threads -> Thread]
  BY DEF TypeOK
<1>2. QED
  BY <1>1 DEF ThreadsBecome

LEMMA RecordTypes ==
  /\ Idle \in Export /\ NoThread \in Thread /\ Started \in Thread
  /\ Idle.pc = "idle" /\ Idle.msg = None /\ Idle.queue = 0
  /\ NoThread.pc = "none" /\ NoThread.msg = None
  /\ Started.pc = "starting" /\ Started.msg = None
BY DEF Idle, Export, NoThread, Started, Thread

LEMMA DeathFacts ==
  ASSUME TypeOK, NEW p \in Procs, NEW how, Die(p, how)
  PROVE  ExportBecomes(p, Idle) /\ ThreadsBecome(p, NoThread)
BY RecordTypes, ExportReplaced, ThreadsReplaced, Zenon DEF Die

-----------------------------------------------------------------------------
(* Types, stages and the mutex. *)

LEMMA PipeInvInit == Init => PipeInv
<1> SUFFICES ASSUME Init PROVE PipeInv
    OBVIOUS
<1>1. /\ exporting \in [Procs -> Export] /\ \A p \in Procs : exporting[p] = Idle
      /\ consumer \in [Procs -> [Threads -> Thread]]
      /\ \A p \in Procs, t \in Threads : consumer[p][t] = NoThread
    BY RecordTypes DEF Init
<1>2. content \in [Queues -> Seq(Msgs \ Oversized)] /\ \A q \in Queues : Len(content[q]) <= MaxQueueLength
    BY DEF Init
<1>3. /\ proc \in [Procs -> {"unborn", "running", "opening", "exiting", "exited", "crashed"}]
      /\ is_init_consumers \in [Procs -> BOOLEAN] /\ linked \in 0 .. created /\ created \in 0 .. MaxQueues
      /\ locked \in [Queues -> BOOLEAN] /\ calls \in [Procs -> SUBSET Msgs]
      /\ network \in [Datagrams -> Nat] /\ fresh \subseteq Msgs /\ arrivals \in [Datagrams -> Nat]
    BY DEF Init
<1>4. TypeOK
    BY <1>1, <1>2, <1>3, Zenon DEF TypeOK, Export
<1>5. StageInv /\ MutexInv
    BY <1>1, RecordTypes DEF StageInv, MutexInv, SendsAlone, ReceivesAlone
<1>6. QED
    BY <1>4, <1>5 DEF PipeInv

LEMMA PipeInvUnchanged == PipeInv /\ UNCHANGED vars => PipeInv'
BY DEF PipeInv, TypeOK, StageInv, MutexInv, SendsAlone, ReceivesAlone, vars, procVars, queueVars, wireVars

LEMMA InitCleanPipe ==
  ASSUME PipeInv, NEW p \in Procs, InitClean(p)
  PROVE  PipeInv'
<1>1. TypeOK'
    BY DEF PipeInv, TypeOK, InitClean, wireVars
<1>2. StageInv' /\ MutexInv'
    BY DEF PipeInv, StageInv, MutexInv, SendsAlone, ReceivesAlone, InitClean, wireVars
<1>3. QED
    BY <1>1, <1>2 DEF PipeInv

(* A step that starts the threads of a process, or ends all its work, leaves *)
(* the others at theirs.                                                     *)
LEMMA FewerAtWork ==
  ASSUME PipeInv, TypeOK', NEW p \in Procs,
         exporting' = exporting \/ ExportBecomes(p, Idle),
         \/ consumer' = consumer \/ ThreadsBecome(p, NoThread) \/ ThreadsBecome(p, Started)
         \/ \E t \in Threads, r \in Thread : ThreadBecomes(p, t, r) /\ r.pc = "returned"
         \/ \E t \in Threads, r \in Thread :
                /\ ThreadBecomes(p, t, r) /\ r.pc = "receiving" /\ r.queue \in Queues,
         UNCHANGED <<content, locked>>
  PROVE  PipeInv'
<1>1. \A o \in Procs : exporting'[o] = exporting[o] \/ exporting'[o].pc = "idle"
    BY RecordTypes DEF ExportBecomes
<1>2. \A o \in Procs, u \in Threads :
          \/ consumer'[o][u] = consumer[o][u]
          \/ consumer'[o][u].pc \in {"none", "starting", "returned"}
          \/ consumer'[o][u].pc = "receiving" /\ consumer'[o][u].queue \in Queues
    BY RecordTypes DEF ThreadsBecome, ThreadBecomes
<1>3. StageInv'
    <2>1. ASSUME NEW o \in Procs
          PROVE  (/\ exporting[o].pc # "idle" => exporting[o].queue \in Queues /\ exporting[o].msg \in Msgs
                  /\ exporting[o].pc = "locked" => exporting[o].msg \notin Oversized)'
        BY <1>1 DEF PipeInv, StageInv, Queues
    <2>2. ASSUME NEW o \in Procs, NEW u \in Threads
          PROVE  (/\ consumer[o][u].pc \in {"receiving", "locked", "sending"} => consumer[o][u].queue \in Queues
                  /\ consumer[o][u].pc = "sending" => consumer[o][u].msg \in Msgs)'
        BY <1>2 DEF PipeInv, StageInv, Queues
    <2>3. QED
        BY <2>1, <2>2 DEF StageInv
<1>4. MutexInv'
    BY <1>1, <1>2 DEF PipeInv, MutexInv, SendsAlone, ReceivesAlone
<1>5. QED
    BY <1>3, <1>4 DEF PipeInv

LEMMA InitOpenPipe ==
  ASSUME PipeInv, NEW p \in Procs, InitOpen(p)
  PROVE  PipeInv'
<1>1. consumer' = consumer \/ ThreadsBecome(p, Started)
    BY RecordTypes, ThreadsReplaced, Zenon DEF PipeInv, InitOpen
<1>2. consumer' \in [Procs -> [Threads -> Thread]]
    BY <1>1 DEF PipeInv, TypeOK, ThreadsBecome
<1>3. linked' \in 0 .. created' /\ created' \in 0 .. MaxQueues
    BY DEF PipeInv, TypeOK, InitOpen
<1>4. TypeOK'
    BY <1>2, <1>3 DEF PipeInv, TypeOK, InitOpen, wireVars
<1>5. QED
    BY <1>1, <1>4, FewerAtWork DEF InitOpen

LEMMA ExportOpenPipe ==
  ASSUME PipeInv, NEW p \in Procs, NEW m \in Msgs, ExportOpen(p, m)
  PROVE  PipeInv'
<1> DEFINE e == [pc |-> "opened", queue |-> linked, msg |-> m]
<1>1. CASE linked = 0
    <2>1. TypeOK'
        BY <1>1 DEF PipeInv, TypeOK, ExportOpen, procVars, queueVars, wireVars
    <2>2. exporting' = exporting /\ UNCHANGED <<consumer, content, locked>>
        BY <1>1 DEF ExportOpen, queueVars
    <2>3. QED
        BY <2>1, <2>2, FewerAtWork
<1>2. CASE linked # 0
    <2>1. linked \in Queues
        BY <1>2 DEF PipeInv, TypeOK, Queues
    <2>2. e \in Export /\ e.pc = "opened" /\ e.queue \in Queues /\ e.msg \in Msgs
        BY <2>1 DEF Export
    <2>3. ExportBecomes(p, e)
        BY <1>2, <2>2, ExportReplaced, Zenon DEF PipeInv, ExportOpen
    <2> HIDE DEF e
    <2>4. TypeOK'
        BY <2>3 DEF PipeInv, TypeOK, ExportOpen, procVars, queueVars, wireVars, ExportBecomes, Export
    <2>5. StageInv' /\ MutexInv'
        <3>1. UNCHANGED <<consumer, content, locked>>
            BY DEF ExportOpen, queueVars
        <3>2. QED
            BY <2>2, <2>3, <3>1 DEF PipeInv, StageInv, MutexInv, SendsAlone, ReceivesAlone, ExportBecomes
    <2>6. QED
        BY <2>4, <2>5 DEF PipeInv
<1>3. QED
    BY <1>1, <1>2

(* Whoever takes a free mutex is its only holder. *)
LEMMA FreeMutex ==
  ASSUME PipeInv, NEW q \in Queues, ~locked[q]
  PROVE  /\ \A o \in Procs : exporting[o].pc = "locked" => exporting[o].queue # q
         /\ \A o \in Procs, u \in Threads : consumer[o][u].pc = "locked" => consumer[o][u].queue # q
BY DEF PipeInv, MutexInv, SendsAlone, ReceivesAlone

LEMMA LockedBecomes ==
  ASSUME TypeOK, NEW q \in Queues, NEW b \in BOOLEAN, locked' = [locked EXCEPT ![q] = b]
  PROVE  /\ locked' \in [Queues -> BOOLEAN] /\ locked'[q] = b
         /\ \A r \in Queues : r # q => locked'[r] = locked[r]
BY DEF TypeOK

LEMMA ExportLockPipe ==
  ASSUME PipeInv, NEW p \in Procs, ExportLock(p)
  PROVE  PipeInv'
<1> DEFINE q == exporting[p].queue
           e == [exporting[p] EXCEPT !.pc = "locked"]
<1>1. q \in Queues /\ exporting[p] \in Export /\ exporting[p].msg \in Msgs
    BY DEF PipeInv, TypeOK, StageInv, ExportLock, Export
<1>2. UNCHANGED <<consumer, content>>
    BY DEF ExportLock
<1>3. CASE exporting[p].msg \in Oversized
    <2>1. ExportBecomes(p, Idle) /\ locked' = locked
        BY <1>3, RecordTypes, ExportReplaced, Zenon DEF PipeInv, ExportLock
    <2>2. TypeOK'
        BY <2>1 DEF PipeInv, TypeOK, ExportLock, procVars, wireVars, ExportBecomes, Export
    <2>3. QED
        BY <1>2, <2>1, <2>2, FewerAtWork, Zenon
<1>4. CASE exporting[p].msg \notin Oversized
    <2>1. /\ e \in Export /\ e.pc = "locked" /\ e.queue = q /\ e.msg = exporting[p].msg
        BY <1>1 DEF Export
    <2>2. exporting' = [exporting EXCEPT ![p] = e]
        BY <1>4, <1>1 DEF ExportLock
    <2>3. ExportBecomes(p, e)
        BY <2>1, <2>2, ExportReplaced, Zenon DEF PipeInv
    <2>4. ~locked[q] /\ locked' = [locked EXCEPT ![q] = TRUE]
        BY <1>4, Zenon DEF ExportLock
    <2>5. /\ locked' \in [Queues -> BOOLEAN] /\ locked'[q]
          /\ \A r \in Queues : r # q => locked'[r] = locked[r]
        BY <1>1, <2>4, LockedBecomes DEF PipeInv
    <2>6. TypeOK'
        BY <2>3, <2>5 DEF PipeInv, TypeOK, ExportLock, procVars, wireVars, ExportBecomes, Export
    <2>7. /\ \A o \in Procs : exporting[o].pc = "locked" => exporting[o].queue # q
          /\ \A o \in Procs, u \in Threads : consumer[o][u].pc = "locked" => consumer[o][u].queue # q
        BY <1>1, <2>4, FreeMutex, Zenon
    <2>8. e.pc = "locked" /\ e.queue = q /\ e.msg \in Msgs \ Oversized
        BY <1>1, <1>4, <2>1
    <2> HIDE DEF e, q
    <2>9. StageInv'
        BY <1>1, <1>2, <2>3, <2>8 DEF PipeInv, StageInv, ExportBecomes
    <2>10. MutexInv'
        BY <1>1, <1>2, <2>3, <2>5, <2>7, <2>8 DEF PipeInv, StageInv, MutexInv, SendsAlone, ReceivesAlone, ExportBecomes
    <2>11. QED
        BY <2>6, <2>9, <2>10 DEF PipeInv
<1>5. QED
    BY <1>3, <1>4

LEMMA QueueReplaced ==
  ASSUME TypeOK, NEW q \in Queues, NEW c \in Seq(Msgs \ Oversized), Len(c) <= MaxQueueLength,
         content' = [content EXCEPT ![q] = c]
  PROVE  /\ content' \in [Queues -> Seq(Msgs \ Oversized)]
         /\ \A r \in Queues : Len(content'[r]) <= MaxQueueLength
         /\ content'[q] = c
         /\ \A r \in Queues : r # q => content'[r] = content[r]
BY DEF TypeOK

LEMMA ExportSendPipe ==
  ASSUME PipeInv, NEW p \in Procs, ExportSend(p)
  PROVE  PipeInv'
<1> DEFINE q == exporting[p].queue
           m == exporting[p].msg
<1>1. /\ q \in Queues /\ m \in Msgs \ Oversized /\ exporting[p].pc = "locked"
    BY DEF PipeInv, StageInv, ExportSend
<1>2. consumer' = consumer
    BY DEF ExportSend
<1>3. ExportBecomes(p, Idle)
    BY RecordTypes, ExportReplaced, Zenon DEF PipeInv, ExportSend
<1>4. /\ locked' \in [Queues -> BOOLEAN]
      /\ \A r \in Queues : r # q => locked'[r] = locked[r]
    BY <1>1, LockedBecomes DEF PipeInv, ExportSend
<1>5. /\ content' \in [Queues -> Seq(Msgs \ Oversized)]
      /\ \A r \in Queues : Len(content'[r]) <= MaxQueueLength
      /\ \A r \in Queues : r # q => content'[r] = content[r]
    <2>1. content[q] \in Seq(Msgs \ Oversized) /\ Len(content[q]) \in Nat
        BY <1>1 DEF PipeInv, TypeOK
    <2>2. CASE Len(content[q]) >= MaxQueueLength
        BY <2>2 DEF PipeInv, TypeOK, ExportSend
    <2>3. CASE ~(Len(content[q]) >= MaxQueueLength)
        <3>1. /\ Append(content[q], m) \in Seq(Msgs \ Oversized)
              /\ Len(Append(content[q], m)) <= MaxQueueLength
            BY <1>1, <2>1, <2>3
        <3>2. content' = [content EXCEPT ![q] = Append(content[q], m)]
            BY <2>3 DEF ExportSend
        <3>3. QED
            BY <1>1, <3>1, <3>2, QueueReplaced, Zenon DEF PipeInv
    <2>4. QED
        BY <2>2, <2>3
<1>6. TypeOK'
    BY <1>3, <1>4, <1>5 DEF PipeInv, TypeOK, ExportSend, procVars, wireVars, ExportBecomes, Export
<1>7. /\ \A o \in Procs : o # p /\ exporting[o].pc = "locked" => exporting[o].queue # q
      /\ \A o \in Procs, u \in Threads : consumer[o][u].pc = "locked" => consumer[o][u].queue # q
    BY <1>1 DEF PipeInv, MutexInv, SendsAlone, ReceivesAlone
<1> HIDE DEF q, m
<1>8. StageInv'
    BY <1>2, <1>3, RecordTypes DEF PipeInv, StageInv, ExportBecomes
<1>9. MutexInv'
    <2>1. ASSUME NEW o \in Procs PROVE SendsAlone(o)'
        <3> SUFFICES ASSUME exporting'[o].pc = "locked" PROVE SendsAlone(o)'
            BY DEF SendsAlone
        <3>1. o # p /\ exporting'[o] = exporting[o]
            BY <1>3, RecordTypes DEF ExportBecomes
        <3>2. exporting[o].queue \in Queues /\ exporting[o].queue # q /\ SendsAlone(o)
            BY <1>7, <3>1 DEF PipeInv, StageInv, MutexInv
        <3>3. locked'[exporting[o].queue] = locked[exporting[o].queue]
            BY <1>4, <3>2
        <3>4. \A x \in Procs : exporting'[x].pc = "locked" => exporting'[x] = exporting[x]
            BY <1>3, RecordTypes DEF ExportBecomes
        <3>5. QED
            BY <3>1, <3>2, <3>3, <3>4, Zenon DEF SendsAlone
    <2>2. ASSUME NEW o \in Procs, NEW u \in Threads PROVE ReceivesAlone(o, u)'
        <3> SUFFICES ASSUME consumer[o][u].pc = "locked" PROVE ReceivesAlone(o, u)'
            BY <1>2 DEF ReceivesAlone
        <3>1. /\ consumer[o][u].queue \in Queues /\ consumer[o][u].queue # q /\ ReceivesAlone(o, u)
            BY <1>7 DEF PipeInv, StageInv, MutexInv
        <3>2. /\ locked'[consumer[o][u].queue] = locked[consumer[o][u].queue]
              /\ content'[consumer[o][u].queue] = content[consumer[o][u].queue]
            BY <1>4, <1>5, <3>1
        <3>3. \A x \in Procs : exporting'[x].pc = "locked" => exporting'[x] = exporting[x]
            BY <1>3, RecordTypes DEF ExportBecomes
        <3>4. QED
            BY <1>2, <3>1, <3>2, <3>3, Zenon DEF ReceivesAlone
    <2>3. QED
        BY <2>1, <2>2 DEF MutexInv
<1>10. QED
    BY <1>6, <1>8, <1>9 DEF PipeInv

LEMMA ThreadTyped ==
  ASSUME TypeOK, NEW p \in Procs, NEW t \in Threads
  PROVE  consumer[p][t] \in Thread
BY DEF TypeOK

LEMMA DiePipe ==
  ASSUME PipeInv, NEW p \in Procs, NEW how \in {"running", "exited", "crashed"}, Die(p, how),
         UNCHANGED <<queueVars, wireVars, fresh>>,
         is_init_consumers' \in [Procs -> BOOLEAN]
  PROVE  PipeInv'
<1>1. ExportBecomes(p, Idle) /\ ThreadsBecome(p, NoThread)
    BY DeathFacts DEF PipeInv
<1>2. proc' \in [Procs -> {"unborn", "running", "opening", "exiting", "exited", "crashed"}]
    BY DEF PipeInv, TypeOK, Die
<1>3. calls' \in [Procs -> SUBSET Msgs]
    BY DEF PipeInv, TypeOK, Die
<1>4. TypeOK'
    BY <1>1, <1>2, <1>3 DEF PipeInv, TypeOK, queueVars, wireVars, ExportBecomes, ThreadsBecome, Export
<1>5. QED
    BY <1>1, <1>4, FewerAtWork DEF queueVars

LEMMA ConsumerOpenPipe ==
  ASSUME PipeInv, NEW p \in Procs, NEW t \in Threads, ConsumerOpen(p, t)
  PROVE  PipeInv'
<1>1. UNCHANGED <<is_init_consumers, queueVars, wireVars, fresh>>
    BY DEF ConsumerOpen
<1>2. consumer[p][t] \in Thread
    BY ThreadTyped DEF PipeInv
<1>3. CASE linked # 0 /\ UNCHANGED <<proc, calls, exporting>>
           /\ consumer' = [consumer EXCEPT ![p][t].pc = "receiving", ![p][t].queue = linked]
    <2> DEFINE r == [consumer[p][t] EXCEPT !.pc = "receiving", !.queue = linked]
    <2>1. linked \in Queues
        BY <1>3 DEF PipeInv, TypeOK, Queues
    <2>2. r \in Thread /\ r.pc = "receiving" /\ r.queue \in Queues
        BY <1>2, <2>1 DEF Thread
    <2>3. consumer' = [consumer EXCEPT ![p] = [consumer[p] EXCEPT ![t] = r]]
        BY <1>3 DEF PipeInv, TypeOK
    <2> HIDE DEF r
    <2>4. ThreadBecomes(p, t, r)
        BY <2>2, <2>3, ThreadReplaced DEF PipeInv
    <2>5. TypeOK'
        BY <1>1, <1>3, <2>4 DEF PipeInv, TypeOK, queueVars, wireVars, ThreadBecomes
    <2>6. QED
        BY <1>1, <1>3, <2>2, <2>4, <2>5, FewerAtWork DEF queueVars
<1>4. CASE UNCHANGED <<proc, calls, exporting>> /\ consumer' = [consumer EXCEPT ![p][t].pc = "returned"]
    <2> DEFINE r == [consumer[p][t] EXCEPT !.pc = "returned"]
    <2>2. r \in Thread /\ r.pc = "returned"
        BY <1>2 DEF Thread
    <2>3. consumer' = [consumer EXCEPT ![p] = [consumer[p] EXCEPT ![t] = r]]
        BY <1>4 DEF PipeInv, TypeOK
    <2> HIDE DEF r
    <2>4. ThreadBecomes(p, t, r)
        BY <2>2, <2>3, ThreadReplaced DEF PipeInv
    <2>5. TypeOK'
        BY <1>1, <1>4, <2>4 DEF PipeInv, TypeOK, queueVars, wireVars, ThreadBecomes
    <2>6. QED
        BY <1>1, <1>4, <2>2, <2>4, <2>5, FewerAtWork DEF queueVars
<1>5. CASE Die(p, "crashed")
    BY <1>1, <1>5, DiePipe DEF PipeInv, TypeOK
<1>6. QED
    BY <1>3, <1>4, <1>5, Zenon DEF ConsumerOpen

LEMMA ReceiveLockPipe ==
  ASSUME PipeInv, NEW p \in Procs, NEW t \in Threads, ReceiveLock(p, t)
  PROVE  PipeInv'
<1> DEFINE q == consumer[p][t].queue
           r == [consumer[p][t] EXCEPT !.pc = "locked"]
<1>1. q \in Queues /\ consumer[p][t] \in Thread
    BY ThreadTyped DEF PipeInv, StageInv, ReceiveLock
<1>2. content[q] # <<>> /\ ~locked[q] /\ UNCHANGED <<exporting, content>>
    BY DEF ReceiveLock
<1>3. /\ locked' \in [Queues -> BOOLEAN] /\ locked'[q]
      /\ \A s \in Queues : s # q => locked'[s] = locked[s]
    BY <1>1, LockedBecomes DEF PipeInv, ReceiveLock
<1>4. r \in Thread /\ r.pc = "locked" /\ r.queue = q
    BY <1>1 DEF Thread
<1>5. consumer' = [consumer EXCEPT ![p] = [consumer[p] EXCEPT ![t] = r]]
    BY DEF PipeInv, TypeOK, ReceiveLock
<1>6. ThreadBecomes(p, t, r)
    BY <1>4, <1>5, ThreadReplaced DEF PipeInv
<1>7. /\ \A o \in Procs : exporting[o].pc = "locked" => exporting[o].queue # q
      /\ \A o \in Procs, u \in Threads : consumer[o][u].pc = "locked" => consumer[o][u].queue # q
    BY <1>1, <1>2, FreeMutex
<1> HIDE DEF q, r
<1>8. TypeOK'
    BY <1>3, <1>6 DEF PipeInv, TypeOK, ReceiveLock, procVars, wireVars, ThreadBecomes
<1>9. StageInv'
    BY <1>1, <1>2, <1>4, <1>6 DEF PipeInv, StageInv, ThreadBecomes
<1>10. MutexInv'
    <2>1. ASSUME NEW o \in Procs PROVE SendsAlone(o)'
        BY <1>1, <1>2, <1>3, <1>7 DEF PipeInv, StageInv, MutexInv, SendsAlone
    <2>2. ASSUME NEW o \in Procs, NEW u \in Threads PROVE ReceivesAlone(o, u)'
        <3> SUFFICES ASSUME consumer'[o][u].pc = "locked" PROVE ReceivesAlone(o, u)'
            BY DEF ReceivesAlone
        <3>1. CASE o = p /\ u = t
            <4>1. consumer'[o][u] = r
                BY <1>6, <3>1 DEF ThreadBecomes
            <4>2. \A x \in Procs, v \in Threads :
                      (x # p \/ v # t) /\ consumer'[x][v].pc = "locked" => consumer'[x][v].queue # q
                BY <1>6, <1>7 DEF ThreadBecomes
            <4>3. QED
                BY <1>2, <1>3, <1>4, <1>7, <3>1, <4>1, <4>2 DEF ReceivesAlone
        <3>2. CASE o # p \/ u # t
            <4>1. consumer'[o][u] = consumer[o][u]
                BY <1>6, <3>2 DEF ThreadBecomes
            <4>2. consumer[o][u].queue \in Queues /\ consumer[o][u].queue # q /\ ReceivesAlone(o, u)
                BY <1>7, <4>1 DEF PipeInv, StageInv, MutexInv
            <4>3. \A x \in Procs, v \in Threads :
                      \/ consumer'[x][v] = consumer[x][v]
                      \/ consumer'[x][v].queue = q
                BY <1>4, <1>6 DEF ThreadBecomes
            <4>4. locked'[consumer[o][u].queue] = locked[consumer[o][u].queue]
                BY <1>3, <4>2
            <4>5. QED
                BY <1>2, <4>1, <4>2, <4>3, <4>4 DEF ReceivesAlone
        <3>3. QED
            BY <3>1, <3>2
    <2>3. QED
        BY <2>1, <2>2 DEF MutexInv
<1>11. QED
    BY <1>8, <1>9, <1>10 DEF PipeInv

LEMMA ReceivePipe ==
  ASSUME PipeInv, NEW p \in Procs, NEW t \in Threads, Receive(p, t)
  PROVE  PipeInv'
<1> DEFINE q == consumer[p][t].queue
           r == [consumer[p][t] EXCEPT !.pc = "sending", !.msg = Head(content[q])]
<1>1. q \in Queues /\ consumer[p][t] \in Thread /\ consumer[p][t].pc = "locked"
    BY ThreadTyped DEF PipeInv, StageInv, Receive
<1>2. content[q] \in Seq(Msgs \ Oversized) /\ content[q] # <<>> /\ Len(content[q]) <= MaxQueueLength
    BY <1>1 DEF PipeInv, TypeOK, MutexInv, SendsAlone, ReceivesAlone
<1>3. Head(content[q]) \in Msgs /\ Tail(content[q]) \in Seq(Msgs \ Oversized)
      /\ Len(Tail(content[q])) <= MaxQueueLength
    BY <1>2
<1>4. /\ locked' \in [Queues -> BOOLEAN]
      /\ \A s \in Queues : s # q => locked'[s] = locked[s]
    BY <1>1, LockedBecomes DEF PipeInv, Receive
<1>5. /\ content' \in [Queues -> Seq(Msgs \ Oversized)]
      /\ \A s \in Queues : Len(content'[s]) <= MaxQueueLength
      /\ \A s \in Queues : s # q => content'[s] = content[s]
    BY <1>1, <1>3, QueueReplaced, Zenon DEF PipeInv, Receive
<1>6. r \in Thread /\ r.pc = "sending" /\ r.queue = q /\ r.msg \in Msgs
    BY <1>1, <1>3 DEF Thread
<1>7. consumer' = [consumer EXCEPT ![p] = [consumer[p] EXCEPT ![t] = r]]
    BY DEF PipeInv, TypeOK, Receive
<1>8. ThreadBecomes(p, t, r)
    BY <1>6, <1>7, ThreadReplaced DEF PipeInv
<1>9. /\ \A o \in Procs : exporting[o].pc = "locked" => exporting[o].queue # q
      /\ \A o \in Procs, u \in Threads : consumer[o][u].pc = "locked" /\ (o # p \/ u # t)
              => consumer[o][u].queue # q
    BY <1>1 DEF PipeInv, MutexInv, SendsAlone, ReceivesAlone
<1>10. exporting' = exporting
    BY DEF Receive
<1> HIDE DEF q, r
<1>11. TypeOK'
    BY <1>4, <1>5, <1>8 DEF PipeInv, TypeOK, Receive, procVars, wireVars, ThreadBecomes
<1>12. StageInv'
    BY <1>1, <1>6, <1>8, <1>10 DEF PipeInv, StageInv, ThreadBecomes
<1>13. MutexInv'
    <2>1. ASSUME NEW o \in Procs PROVE SendsAlone(o)'
        BY <1>4, <1>9, <1>10 DEF PipeInv, StageInv, MutexInv, SendsAlone
    <2>2. ASSUME NEW o \in Procs, NEW u \in Threads PROVE ReceivesAlone(o, u)'
        <3> SUFFICES ASSUME consumer'[o][u].pc = "locked" PROVE ReceivesAlone(o, u)'
            BY DEF ReceivesAlone
        <3>1. (o # p \/ u # t) /\ consumer'[o][u] = consumer[o][u]
            BY <1>6, <1>8 DEF ThreadBecomes
        <3>2. consumer[o][u].queue \in Queues /\ consumer[o][u].queue # q /\ ReceivesAlone(o, u)
            BY <1>9, <3>1 DEF PipeInv, StageInv, MutexInv
        <3>3. \A x \in Procs, v \in Threads :
                  consumer'[x][v].pc = "locked" => consumer'[x][v] = consumer[x][v]
            BY <1>6, <1>8 DEF ThreadBecomes
        <3>4. /\ locked'[consumer[o][u].queue] = locked[consumer[o][u].queue]
              /\ content'[consumer[o][u].queue] = content[consumer[o][u].queue]
            BY <1>4, <1>5, <3>2
        <3>5. QED
            BY <1>10, <3>1, <3>2, <3>3, <3>4 DEF ReceivesAlone
    <2>3. QED
        BY <2>1, <2>2 DEF MutexInv
<1>14. QED
    BY <1>11, <1>12, <1>13 DEF PipeInv

(* How many datagrams a request is, and what its sending adds to them. *)
LEMMA CopiesType == Copies \in [Datagrams -> Nat]
BY DEF Copies

LEMMA NetworkWithType ==
  ASSUME TypeOK, NEW m \in Msgs
  PROVE  /\ NetworkWith(m) \in [Datagrams -> Nat]
         /\ \A d \in Datagrams :
                NetworkWith(m)[d] = network[d] + (IF d[1] = m THEN Copies[d] ELSE 0)
<1> HIDE DEF Datagrams
<1>1. \A d \in Datagrams : network[d] \in Nat /\ Copies[d] \in Nat
  BY CopiesType DEF TypeOK
<1>2. QED
  BY <1>1 DEF NetworkWith

LEMMA SendPipe ==
  ASSUME PipeInv, NEW p \in Procs, NEW t \in Threads, Send(p, t)
  PROVE  PipeInv'
<1> DEFINE r == [consumer[p][t] EXCEPT !.pc = "receiving", !.msg = None]
<1>1. consumer[p][t] \in Thread /\ consumer[p][t].queue \in Queues /\ consumer[p][t].msg \in Msgs
    BY ThreadTyped DEF PipeInv, StageInv, Send
<1>2. r \in Thread /\ r.pc = "receiving" /\ r.queue \in Queues
    BY <1>1 DEF Thread
<1>3. consumer' = [consumer EXCEPT ![p] = [consumer[p] EXCEPT ![t] = r]]
    BY DEF PipeInv, TypeOK, Send
<1>4. ThreadBecomes(p, t, r)
    BY <1>2, <1>3, ThreadReplaced DEF PipeInv
<1>5. network' \in [Datagrams -> Nat] /\ calls' \in [Procs -> SUBSET Msgs]
    <2>1. network' = NetworkWith(consumer[p][t].msg)
        BY Zenon DEF Send
    <2>2. network' \in [Datagrams -> Nat]
        BY <1>1, <2>1, NetworkWithType DEF PipeInv
    <2>3. calls' \in [Procs -> SUBSET Msgs]
        BY <1>1 DEF PipeInv, TypeOK, Send
    <2>4. QED
        BY <2>2, <2>3
<1> HIDE DEF r
<1>6. TypeOK'
    BY <1>4, <1>5 DEF PipeInv, TypeOK, Send, procVars, queueVars, ThreadBecomes
<1>7. QED
    BY <1>2, <1>4, <1>6, FewerAtWork DEF Send, queueVars

LEMMA RestPipe ==
  ASSUME PipeInv,
         \/ \E p \in Procs, m \in Msgs : Complete(p, m)
         \/ \E d \in Datagrams : Arrive(d) \/ Lose(d)
         \/ \E p \in Procs : ModuleShutdown(p)
         \/ \E p, c \in Procs : Fork(p, c)
  PROVE  PipeInv'
<1>1. UNCHANGED <<exporting, consumer, content, locked, created, fresh>>
    BY DEF Complete, Arrive, Lose, ModuleShutdown, Fork, procVars, queueVars
<1>2. StageInv' /\ MutexInv'
    BY <1>1 DEF PipeInv, StageInv, MutexInv, SendsAlone, ReceivesAlone
<1>3. CASE \E p \in Procs, m \in Msgs : Complete(p, m)
    BY <1>1, <1>2, <1>3 DEF PipeInv, TypeOK, Complete, procVars, queueVars, wireVars
<1>4. CASE \E d \in Datagrams : Arrive(d) \/ Lose(d)
    <2>1. network' \in [Datagrams -> Nat] /\ arrivals' \in [Datagrams -> Nat]
        <3> HIDE DEF Datagrams
        <3>1. network \in [Datagrams -> Nat] /\ arrivals \in [Datagrams -> Nat]
            BY DEF PipeInv, TypeOK
        <3>2. PICK d \in Datagrams : Arrive(d) \/ Lose(d)
            BY <1>4
        <3>3. network[d] - 1 \in Nat /\ arrivals[d] + 1 \in Nat
            BY <3>1, <3>2 DEF Arrive, Lose
        <3>4. QED
            BY <3>1, <3>2, <3>3 DEF Arrive, Lose
    <2>2. QED
        BY <1>1, <1>2, <1>4, <2>1 DEF PipeInv, TypeOK, Arrive, Lose, procVars, queueVars
<1>5. CASE \E p \in Procs : ModuleShutdown(p)
    BY <1>1, <1>2, <1>5 DEF PipeInv, TypeOK, ModuleShutdown, wireVars
<1>6. CASE \E p, c \in Procs : Fork(p, c)
    BY <1>1, <1>2, <1>6 DEF PipeInv, TypeOK, Fork, queueVars, wireVars
<1>7. QED
    BY <1>2, <1>3, <1>4, <1>5, <1>6 DEF PipeInv

LEMMA EndsPipe ==
  ASSUME PipeInv, Reload \/ \E p \in Procs : Exit(p) \/ Kill(p)
  PROVE  PipeInv'
<1>1. CASE Reload
    BY <1>1, DiePipe DEF PipeInv, TypeOK, Reload
<1>2. ASSUME NEW p \in Procs, Exit(p) \/ Kill(p) PROVE PipeInv'
    BY <1>2, DiePipe DEF PipeInv, TypeOK, Exit, Kill
<1>3. QED
    BY <1>1, <1>2

LEMMA PipeInvStep == PipeInv /\ [Next]_vars => PipeInv'
<1> SUFFICES ASSUME PipeInv, [Next]_vars PROVE PipeInv'
    OBVIOUS
<1>1. CASE UNCHANGED vars
    BY <1>1, PipeInvUnchanged
<1>2. ASSUME NEW p \in Procs, \/ InitClean(p) \/ InitOpen(p) \/ ExportStep(p) \/ ModuleShutdown(p)
                              \/ Exit(p) \/ Kill(p)
      PROVE  PipeInv'
    BY <1>2, InitCleanPipe, InitOpenPipe, ExportLockPipe, ExportSendPipe, RestPipe, EndsPipe, Zenon
        DEF ExportStep
<1>3. ASSUME NEW p \in Procs, NEW m \in Msgs, ExportOpen(p, m) \/ Complete(p, m) PROVE PipeInv'
    BY <1>3, ExportOpenPipe, RestPipe, Zenon
<1>4. ASSUME NEW p \in Procs, NEW t \in Threads, ThreadStep(p, t) PROVE PipeInv'
    BY <1>4, ConsumerOpenPipe, ReceiveLockPipe, ReceivePipe, SendPipe, Zenon DEF ThreadStep
<1>5. CASE \/ \E p, c \in Procs : Fork(p, c)
           \/ \E d \in Datagrams : Arrive(d) \/ Lose(d)
           \/ Reload
    BY <1>5, RestPipe, EndsPipe, Zenon
<1>6. QED
    BY <1>1, <1>2, <1>3, <1>4, <1>5, Zenon DEF Next

LEMMA PipeInvAlways == Spec => []PipeInv
BY PipeInvInit, PipeInvStep, PTL DEF Spec

(* Every variable has its type, and no queue is longer than allowed, with    *)
(* any number of processes and threads (core.cc, otel_exporter.cc).          *)
THEOREM PipelineTypes == Spec => []TypeOK
<1>1. PipeInv => TypeOK
    BY DEF PipeInv
<1>2. QED
    BY <1>1, PipeInvAlways, PTL

-----------------------------------------------------------------------------
(* php-fpm: the master's threads empty the queue of the name. *)

(* Only the initialised master has threads, and there is a queue of the name *)
(* as long as it has; it is the one they have open.                          *)
ServesTheName(p, t) ==
    /\ consumer[p][t].pc # "none" =>
          p = Root /\ is_init_consumers[Root] /\ proc[Root] \in {"running", "exiting"} /\ linked # 0
    /\ consumer[p][t].pc # "returned"
    /\ consumer[p][t].pc \in {"receiving", "locked", "sending"} => consumer[p][t].queue = linked
ThreadsInv == \A p \in Procs, t \in Threads : ServesTheName(p, t)

MasterInv ==
    /\ proc[Root] # "unborn"
    /\ \A p \in Procs : /\ proc[p] # "crashed"
                        /\ proc[p] = "opening" => p = Root /\ linked = 0 /\ is_init_consumers[Root]
    /\ linked # 0 /\ proc[Root] = "running" /\ is_init_consumers[Root]
          => \A t \in Threads : consumer[Root][t].pc # "none"

FpmInv == PipeInv /\ ThreadsInv /\ MasterInv

LEMMA FpmInvInit == Init => FpmInv
<1> SUFFICES ASSUME Init PROVE FpmInv
    OBVIOUS
<1>1. \A p \in Procs, t \in Threads : consumer[p][t].pc = "none"
    BY RecordTypes DEF Init
<1>2. /\ \A p \in Procs : proc[p] \in {"running", "unborn"}
      /\ proc[Root] = "running" /\ linked = 0
    BY DEF Init
<1>3. ThreadsInv /\ MasterInv
    BY <1>1, <1>2 DEF ThreadsInv, ServesTheName, MasterInv
<1>4. QED
    BY <1>3, PipeInvInit DEF FpmInv

(* A step that leaves the name, the processes and what threads are at alone. *)
LEMMA FpmThreadKeeps ==
  ASSUME FpmInv, UNCHANGED <<proc, is_init_consumers, linked>>,
         \/ consumer' = consumer
         \/ \E p \in Procs, t \in Threads, r \in Thread :
                /\ ThreadBecomes(p, t, r) /\ consumer[p][t].pc # "none"
                /\ r.pc \in {"receiving", "locked", "sending"} /\ r.queue = linked
  PROVE  (ThreadsInv /\ MasterInv)'
<1>1. CASE consumer' = consumer
    BY <1>1, Zenon DEF FpmInv, ThreadsInv, ServesTheName, MasterInv
<1>2. ASSUME NEW p \in Procs, NEW t \in Threads, NEW r \in Thread,
             ThreadBecomes(p, t, r), consumer[p][t].pc # "none",
             r.pc \in {"receiving", "locked", "sending"}, r.queue = linked
      PROVE  (ThreadsInv /\ MasterInv)'
    <2>1. ASSUME NEW o \in Procs, NEW u \in Threads PROVE ServesTheName(o, u)'
        BY <1>2 DEF FpmInv, ThreadsInv, ServesTheName, ThreadBecomes
    <2>2. MasterInv'
        BY <1>2 DEF FpmInv, MasterInv, ThreadBecomes
    <2>3. QED
        BY <2>1, <2>2 DEF ThreadsInv
<1>3. QED
    BY <1>1, <1>2

LEMMA FpmConsumer ==
  ASSUME FpmInv, NEW p \in Procs, NEW t \in Threads, ThreadStep(p, t)
  PROVE  (ThreadsInv /\ MasterInv)' /\ UNCHANGED <<proc, is_init_consumers, linked>>
<1>1. consumer[p][t].pc \in {"starting", "receiving", "locked", "sending"}
    BY DEF ThreadStep, ConsumerOpen, ReceiveLock, Receive, Send
<1>2. ServesTheName(p, t) /\ consumer[p][t] \in Thread /\ TypeOK
    BY ThreadTyped DEF FpmInv, PipeInv, ThreadsInv
<1>3. linked # 0
    BY <1>1, <1>2 DEF ServesTheName
<1>4. linked \in Queues
    BY <1>2, <1>3 DEF TypeOK, Queues
<1>5. UNCHANGED <<proc, is_init_consumers, linked>>
    BY <1>3 DEF ThreadStep, ConsumerOpen, ReceiveLock, Receive, Send, procVars, queueVars
<1>6. ASSUME NEW r \in Thread, r.pc \in {"receiving", "locked", "sending"}, r.queue = linked,
             consumer' = [consumer EXCEPT ![p] = [consumer[p] EXCEPT ![t] = r]]
      PROVE  (ThreadsInv /\ MasterInv)'
    <2>1. ThreadBecomes(p, t, r)
        BY <1>2, <1>6, ThreadReplaced
    <2>2. QED
        BY <1>1, <1>5, <1>6, <2>1, FpmThreadKeeps
<1>7. CASE ConsumerOpen(p, t)
    <2> DEFINE r == [consumer[p][t] EXCEPT !.pc = "receiving", !.queue = linked]
    <2>1. r \in Thread /\ r.pc = "receiving" /\ r.queue = linked
        BY <1>2, <1>4 DEF Thread
    <2>2. consumer' = [consumer EXCEPT ![p] = [consumer[p] EXCEPT ![t] = r]]
        <3>1. consumer \in [Procs -> [Threads -> Thread]] /\ linked # 0
            BY <1>2, <1>3 DEF TypeOK
        <3>2. consumer' = [consumer EXCEPT ![p][t].pc = "receiving", ![p][t].queue = linked]
            BY <1>7, <3>1, Zenon DEF ConsumerOpen
        <3>3. QED
            BY <3>1, <3>2
    <2> HIDE DEF r
    <2>3. QED
        BY <1>5, <1>6, <2>1, <2>2
<1>8. CASE ReceiveLock(p, t)
    <2> DEFINE r == [consumer[p][t] EXCEPT !.pc = "locked"]
    <2>1. r \in Thread /\ r.pc = "locked" /\ r.queue = linked
        BY <1>2, <1>8 DEF Thread, ServesTheName, ReceiveLock
    <2>2. consumer' = [consumer EXCEPT ![p] = [consumer[p] EXCEPT ![t] = r]]
        BY <1>2, <1>8 DEF TypeOK, ReceiveLock
    <2> HIDE DEF r
    <2>3. QED
        BY <1>5, <1>6, <2>1, <2>2
<1>9. CASE Receive(p, t)
    <2> DEFINE r == [consumer[p][t] EXCEPT !.pc = "sending", !.msg = Head(content[consumer[p][t].queue])]
    <2>1. Head(content[linked]) \in Msgs
        BY <1>2, <1>4, <1>9 DEF FpmInv, PipeInv, MutexInv, ReceivesAlone, TypeOK, ServesTheName, Receive
    <2>2. r \in Thread /\ r.pc = "sending" /\ r.queue = linked
        BY <1>2, <1>9, <2>1 DEF Thread, ServesTheName, Receive
    <2>3. consumer' = [consumer EXCEPT ![p] = [consumer[p] EXCEPT ![t] = r]]
        BY <1>2, <1>9 DEF TypeOK, Receive
    <2> HIDE DEF r
    <2>4. QED
        BY <1>5, <1>6, <2>2, <2>3
<1>10. CASE Send(p, t)
    <2> DEFINE r == [consumer[p][t] EXCEPT !.pc = "receiving", !.msg = None]
    <2>1. r \in Thread /\ r.pc = "receiving" /\ r.queue = linked
        BY <1>2, <1>10 DEF Thread, ServesTheName, Send
    <2>2. consumer' = [consumer EXCEPT ![p] = [consumer[p] EXCEPT ![t] = r]]
        BY <1>2, <1>10 DEF TypeOK, Send
    <2> HIDE DEF r
    <2>3. QED
        BY <1>5, <1>6, <2>1, <2>2
<1>11. QED
    BY <1>5, <1>7, <1>8, <1>9, <1>10 DEF ThreadStep

LEMMA FpmInitClean ==
  ASSUME FpmInv, ~Cli, NEW p \in Procs, InitClean(p)
  PROVE  (ThreadsInv /\ MasterInv)'
<1>1. p = Root /\ ~is_init_consumers[Root] /\ consumer' = consumer /\ linked' = 0
    BY DEF InitClean
<1>2. \A o \in Procs, t \in Threads : consumer[o][t].pc = "none"
    BY <1>1 DEF FpmInv, ThreadsInv, ServesTheName
<1>3. ThreadsInv'
    BY <1>1, <1>2 DEF ThreadsInv, ServesTheName
<1>4. MasterInv'
    BY <1>1 DEF FpmInv, PipeInv, TypeOK, MasterInv, InitClean
<1>5. QED
    BY <1>3, <1>4

LEMMA FpmInitOpen ==
  ASSUME FpmInv, ~Cli, NEW p \in Procs, InitOpen(p)
  PROVE  (ThreadsInv /\ MasterInv)'
<1>1. p = Root /\ linked = 0 /\ is_init_consumers'[Root] /\ proc[Root] = "opening"
    BY DEF FpmInv, MasterInv, InitOpen
<1>2. proc'[Root] = "running" /\ \A o \in Procs : o # Root => proc'[o] = proc[o]
    BY <1>1 DEF FpmInv, PipeInv, TypeOK, InitOpen
<1>3. \A o \in Procs, t \in Threads : consumer[o][t].pc = "none"
    BY <1>1 DEF FpmInv, ThreadsInv, ServesTheName
<1>4. \/ consumer' = consumer /\ linked' = 0
      \/ ThreadsBecome(Root, Started) /\ linked' # 0
    <2>1. created \in Nat
        BY DEF FpmInv, PipeInv, TypeOK
    <2>2. QED
        BY <1>1, <2>1, RecordTypes, ThreadsReplaced DEF FpmInv, PipeInv, InitOpen
<1>5. ThreadsInv'
    BY <1>1, <1>2, <1>3, <1>4, RecordTypes DEF ThreadsInv, ServesTheName, ThreadsBecome
<1>6. MasterInv'
    BY <1>1, <1>2, <1>4, RecordTypes DEF FpmInv, MasterInv, ThreadsBecome
<1>7. QED
    BY <1>5, <1>6

(* A process that ends or starts afresh has no threads any more. *)
LEMMA FpmDie ==
  ASSUME FpmInv, NEW p \in Procs, NEW how \in {"running", "exited"}, Die(p, how), linked' = linked,
         \/ how = "exited" /\ is_init_consumers' = is_init_consumers
         \/ p = Root /\ is_init_consumers' = [is_init_consumers EXCEPT ![Root] = FALSE]
  PROVE  (ThreadsInv /\ MasterInv)'
<1>1. ThreadsBecome(p, NoThread)
    BY DeathFacts DEF FpmInv, PipeInv
<1>2. proc'[p] = how /\ \A o \in Procs : o # p => proc'[o] = proc[o]
    BY DEF FpmInv, PipeInv, TypeOK, Die
<1>3. \/ how = "exited" /\ is_init_consumers' = is_init_consumers
      \/ p = Root /\ ~is_init_consumers'[Root]
    BY DEF FpmInv, PipeInv, TypeOK
<1>4. ASSUME NEW o \in Procs, NEW t \in Threads PROVE ServesTheName(o, t)'
    BY <1>1, <1>2, <1>3, RecordTypes DEF FpmInv, ThreadsInv, ServesTheName, ThreadsBecome
<1>5. MasterInv'
    BY <1>1, <1>2, <1>3 DEF FpmInv, MasterInv, ThreadsBecome
<1>6. QED
    BY <1>4, <1>5 DEF ThreadsInv

LEMMA FpmFork ==
  ASSUME FpmInv, NEW p \in Procs, NEW c \in Procs, Fork(p, c)
  PROVE  (ThreadsInv /\ MasterInv)'
<1>1. c # Root /\ UNCHANGED <<linked, consumer>>
    BY DEF FpmInv, MasterInv, Fork, queueVars
<1>2. proc'[c] = "running" /\ \A o \in Procs : o # c => proc'[o] = proc[o]
    BY DEF FpmInv, PipeInv, TypeOK, Fork
<1>3. is_init_consumers'[Root] = is_init_consumers[Root]
    BY <1>1 DEF FpmInv, PipeInv, TypeOK, Fork
<1>4. ThreadsInv'
    BY <1>1, <1>2, <1>3 DEF FpmInv, ThreadsInv, ServesTheName
<1>5. MasterInv'
    BY <1>1, <1>2, <1>3 DEF FpmInv, MasterInv
<1>6. QED
    BY <1>4, <1>5

LEMMA FpmModuleShutdown ==
  ASSUME FpmInv, ~Cli, NEW p \in Procs, ModuleShutdown(p)
  PROVE  (ThreadsInv /\ MasterInv)'
<1>1. proc[p] = "running" /\ UNCHANGED <<linked, consumer, is_init_consumers>>
    BY DEF ModuleShutdown, Script
<1>2. proc'[p] = "exiting" /\ \A o \in Procs : o # p => proc'[o] = proc[o]
    BY DEF FpmInv, PipeInv, TypeOK, ModuleShutdown
<1>3. ThreadsInv'
    BY <1>1, <1>2 DEF FpmInv, ThreadsInv, ServesTheName
<1>4. MasterInv'
    BY <1>1, <1>2 DEF FpmInv, MasterInv
<1>5. QED
    BY <1>3, <1>4

LEMMA FpmInvStep ==
  ASSUME ~Cli, FpmInv, [Next]_vars
  PROVE  FpmInv'
<1>1. PipeInv'
    BY PipeInvStep DEF FpmInv
<1>2. (ThreadsInv /\ MasterInv)'
    <2>1. ASSUME UNCHANGED <<proc, is_init_consumers, linked, consumer>> PROVE (ThreadsInv /\ MasterInv)'
        BY <2>1, FpmThreadKeeps
    <2>2. CASE UNCHANGED vars
        BY <2>1, <2>2 DEF vars, procVars, queueVars
    <2>3. ASSUME NEW p \in Procs, InitClean(p) \/ InitOpen(p) \/ ModuleShutdown(p)
          PROVE  (ThreadsInv /\ MasterInv)'
        BY <2>3, FpmInitClean, FpmInitOpen, FpmModuleShutdown, Zenon
    <2>4. ASSUME NEW p \in Procs, Exit(p) \/ Kill(p) PROVE (ThreadsInv /\ MasterInv)'
        BY <2>4, FpmDie DEF Exit, Kill, queueVars
    <2>5. ASSUME NEW p \in Procs, ExportStep(p) PROVE (ThreadsInv /\ MasterInv)'
        BY <2>1, <2>5 DEF ExportStep, ExportLock, ExportSend, procVars
    <2>6. ASSUME NEW p \in Procs, NEW m \in Msgs, ExportOpen(p, m) \/ Complete(p, m)
          PROVE  (ThreadsInv /\ MasterInv)'
        BY <2>1, <2>6 DEF ExportOpen, Complete, procVars, queueVars
    <2>7. ASSUME NEW p \in Procs, NEW t \in Threads, ThreadStep(p, t) PROVE (ThreadsInv /\ MasterInv)'
        BY <2>7, FpmConsumer
    <2>8. ASSUME NEW p \in Procs, NEW c \in Procs, Fork(p, c) PROVE (ThreadsInv /\ MasterInv)'
        BY <2>8, FpmFork
    <2>9. ASSUME NEW d \in Datagrams, Arrive(d) \/ Lose(d) PROVE (ThreadsInv /\ MasterInv)'
        BY <2>1, <2>9 DEF Arrive, Lose, procVars, queueVars
    <2>10. CASE Reload
        BY <2>10, FpmDie DEF Reload, queueVars
    <2>11. QED
        BY <2>2, <2>3, <2>4, <2>5, <2>6, <2>7, <2>8, <2>9, <2>10, Zenon DEF Next
<1>3. QED
    BY <1>1, <1>2 DEF FpmInv

LEMMA FpmInvAlways ==
  ASSUME ~Cli
  PROVE  Spec => []FpmInv
<1>1. FpmInv /\ [Next]_vars => FpmInv'
    BY FpmInvStep
<1>2. QED
    BY <1>1, FpmInvInit, PTL DEF Spec

(* As long as the php-fpm master is up and initialised, the queue a worker   *)
(* opens is being emptied, however often the master is reloaded or workers   *)
(* are killed (core.cc:69-124).                                              *)
THEOREM FpmQueueIsServed ==
  ASSUME ~Cli, Threads # {}
  PROVE  Spec => []QueueServed
<1>1. FpmInv => QueueServed
    <2> SUFFICES ASSUME FpmInv, linked # 0, proc[Root] = "running", is_init_consumers[Root]
                 PROVE  Served(linked)
        BY DEF QueueServed
    <2>1. PICK t \in Threads : TRUE
        OBVIOUS
    <2>2. consumer[Root][t].pc # "none" /\ ServesTheName(Root, t) /\ consumer[Root][t] \in Thread
        BY ThreadTyped DEF FpmInv, PipeInv, ThreadsInv, MasterInv
    <2>3. consumer[Root][t].pc \in {"starting", "receiving", "locked", "sending"}
        BY <2>2 DEF Thread, ServesTheName
    <2>4. QED
        BY <2>2, <2>3 DEF Served, Up, ServesTheName
<1>2. QED
    BY <1>1, FpmInvAlways, PTL

(* Under php-fpm consumer never returns: the master's threads open a queue   *)
(* that is still there (its [[noreturn]], core.cc:36).                       *)
THEOREM FpmConsumersStay ==
  ASSUME ~Cli
  PROVE  Spec => []ConsumerNeverReturns
<1>1. FpmInv => ConsumerNeverReturns
    <2> SUFFICES ASSUME FpmInv, NEW p \in Procs
                 PROVE  proc[p] # "crashed" /\ \A t \in Threads : consumer[p][t].pc # "returned"
        BY DEF ConsumerNeverReturns
    <2>1. proc[p] # "crashed"
        BY DEF FpmInv, MasterInv
    <2>2. ASSUME NEW t \in Threads PROVE consumer[p][t].pc # "returned"
        BY DEF FpmInv, ThreadsInv, ServesTheName
    <2>3. QED
        BY <2>1, <2>2
<1>2. QED
    BY <1>1, FpmInvAlways, PTL

(* Under php-fpm init_consumers removes no queue that a thread empties       *)
(* (core.cc:78).                                                             *)
THEOREM FpmRemovesLeftovers ==
  ASSUME ~Cli
  PROVE  Spec => OnlyLeftoversRemoved
<1> DEFINE Kept == \A p \in Procs : proc[p] = "running" /\ proc'[p] = "opening" /\ linked # 0
                                       => ~Served(linked)
<1>1. FpmInv /\ [Next]_vars => [Kept]_vars
    <2> SUFFICES ASSUME FpmInv, Next, NEW p \in Procs, proc[p] = "running", proc'[p] = "opening"
                 PROVE  ~Served(linked)
        OBVIOUS
    <2>1. proc \in [Procs -> {"unborn", "running", "opening", "exiting", "exited", "crashed"}]
        BY DEF FpmInv, PipeInv, TypeOK
    <2>2. \E o \in Procs : InitClean(o)
        <3>1. ASSUME NEW o \in Procs, InitOpen(o) \/ ModuleShutdown(o) \/ Exit(o) \/ Kill(o)
              PROVE  FALSE
            BY <2>1, <3>1 DEF InitOpen, ModuleShutdown, Exit, Kill, Die
        <3>2. ASSUME NEW o \in Procs, ExportStep(o) PROVE FALSE
            BY <3>2 DEF ExportStep, ExportLock, ExportSend, procVars
        <3>3. ASSUME NEW o \in Procs, NEW m \in Msgs, ExportOpen(o, m) \/ Complete(o, m) PROVE FALSE
            BY <3>3 DEF ExportOpen, Complete, procVars
        <3>4. ASSUME NEW o \in Procs, NEW t \in Threads, ThreadStep(o, t) PROVE FALSE
            BY <3>4, FpmConsumer
        <3>5. ASSUME NEW o \in Procs, NEW c \in Procs, Fork(o, c) PROVE FALSE
            BY <2>1, <3>5 DEF Fork
        <3>6. ASSUME NEW d \in Datagrams, Arrive(d) \/ Lose(d) PROVE FALSE
            BY <3>6 DEF Arrive, Lose, procVars
        <3>7. CASE Reload
            BY <2>1, <3>7 DEF Reload, Die
        <3>8. QED
            BY <3>1, <3>2, <3>3, <3>4, <3>5, <3>6, <3>7, Zenon DEF Next
    <2>3. ~is_init_consumers[Root]
        BY <2>2 DEF InitClean
    <2>4. QED
        BY <2>3 DEF FpmInv, ThreadsInv, ServesTheName, Served
<1> HIDE DEF Kept
<1>2. OnlyLeftoversRemoved <=> [][Kept]_vars
    BY PTL DEF OnlyLeftoversRemoved, Kept
<1>3. QED
    BY <1>1, <1>2, FpmInvAlways, PTL DEF Spec

-----------------------------------------------------------------------------
(* Scripts: the queue is gone when its users are. *)

(* A process in init_consumers has set its flag, and while there is a queue  *)
(* of the name a process is left that will remove it.                        *)
CliInv ==
    /\ \A p \in Procs : proc[p] = "opening" => is_init_consumers[p]
    /\ linked # 0 => \E p \in Procs : proc[p] \in {"running", "opening"} /\ is_init_consumers[p]

LEMMA CliInvStep ==
  ASSUME Cli, ~Kills, PipeInv, CliInv, [Next]_vars
  PROVE  CliInv'
<1>1. proc \in [Procs -> {"unborn", "running", "opening", "exiting", "exited", "crashed"}]
      /\ is_init_consumers \in [Procs -> BOOLEAN]
    BY DEF PipeInv, TypeOK
<1>2. ASSUME UNCHANGED <<proc, is_init_consumers, linked>> PROVE CliInv'
    BY <1>2 DEF CliInv
<1>3. CASE UNCHANGED vars
    BY <1>2, <1>3 DEF vars, procVars, queueVars
<1>4. ASSUME NEW p \in Procs, InitClean(p) PROVE CliInv'
    BY <1>1, <1>4 DEF CliInv, InitClean
<1>5. ASSUME NEW p \in Procs, InitOpen(p) PROVE CliInv'
    <2>1. is_init_consumers'[p] /\ proc'[p] = "running" /\ \A o \in Procs : o # p => proc'[o] = proc[o]
        BY <1>1, <1>5 DEF CliInv, InitOpen
    <2>2. is_init_consumers' = is_init_consumers
        BY <1>5 DEF InitOpen
    <2>3. QED
        BY <2>1, <2>2 DEF CliInv
<1>6. ASSUME NEW p \in Procs, ModuleShutdown(p) PROVE CliInv'
    <2>1. proc'[p] = "exiting" /\ \A o \in Procs : o # p => proc'[o] = proc[o]
        BY <1>1, <1>6 DEF ModuleShutdown
    <2>2. is_init_consumers' = is_init_consumers
        BY <1>6 DEF ModuleShutdown
    <2>3. linked' # 0 => linked # 0 /\ ~is_init_consumers[p]
        BY <1>6 DEF ModuleShutdown
    <2>4. QED
        BY <2>1, <2>2, <2>3 DEF CliInv
<1>7. ASSUME NEW p \in Procs, NEW c \in Procs, Fork(p, c) PROVE CliInv'
    <2>1. /\ proc[c] = "unborn" /\ proc'[c] = "running"
          /\ \A o \in Procs : o # c => proc'[o] = proc[o] /\ is_init_consumers'[o] = is_init_consumers[o]
        BY <1>1, <1>7 DEF Fork
    <2>2. linked' = linked
        BY <1>7 DEF Fork, queueVars
    <2>3. QED
        BY <2>1, <2>2 DEF CliInv
<1>8. ASSUME NEW p \in Procs, Exit(p) PROVE CliInv'
    <2>1. /\ proc[p] = "exiting" /\ proc'[p] = "exited"
          /\ \A o \in Procs : o # p => proc'[o] = proc[o]
        BY <1>1, <1>8 DEF Exit, Die
    <2>2. UNCHANGED <<linked, is_init_consumers>>
        BY <1>8 DEF Exit, queueVars
    <2>3. QED
        BY <2>1, <2>2 DEF CliInv
<1>9. ASSUME NEW p \in Procs, NEW t \in Threads, ThreadStep(p, t) PROVE CliInv'
    <2>1. CASE linked # 0 \/ ~ConsumerOpen(p, t)
        <3>1. UNCHANGED <<proc, is_init_consumers, linked>>
            BY <1>9, <2>1 DEF ThreadStep, ConsumerOpen, ReceiveLock, Receive, Send, procVars, queueVars
        <3>2. QED
            BY <1>2, <3>1
    <2>2. CASE linked = 0 /\ ConsumerOpen(p, t)
        <3>1. linked' = 0 /\ is_init_consumers' = is_init_consumers
            BY <2>2 DEF ConsumerOpen, queueVars
        <3>2. \A o \in Procs : proc'[o] = proc[o] \/ proc'[o] = "crashed"
            BY <1>1, <2>2 DEF ConsumerOpen, Die
        <3>3. QED
            BY <3>1, <3>2 DEF CliInv
    <2>3. QED
        BY <2>1, <2>2
<1>10. ASSUME NEW p \in Procs, ExportStep(p) PROVE CliInv'
    BY <1>2, <1>10 DEF ExportStep, ExportLock, ExportSend, procVars
<1>11. ASSUME NEW p \in Procs, NEW m \in Msgs, ExportOpen(p, m) \/ Complete(p, m) PROVE CliInv'
    BY <1>2, <1>11 DEF ExportOpen, Complete, procVars, queueVars
<1>12. ASSUME NEW d \in Datagrams, Arrive(d) \/ Lose(d) PROVE CliInv'
    BY <1>2, <1>12 DEF Arrive, Lose, procVars, queueVars
<1>13. ~Reload /\ \A p \in Procs : ~Kill(p)
    BY DEF Reload, Kill
<1>14. QED
    BY <1>3, <1>4, <1>5, <1>6, <1>7, <1>8, <1>9, <1>10, <1>11, <1>12, <1>13, Zenon DEF Next

(* The queue of a script does not outlive the processes that use it, forks   *)
(* of it or not, as long as none is killed (core.cc:184).                    *)
THEOREM CliLeavesNoQueue ==
  ASSUME Cli, ~Kills
  PROVE  Spec => []NoQueueLeaked
<1>1. Init => CliInv
    BY DEF Init, CliInv
<1>2. PipeInv /\ CliInv /\ [Next]_vars => CliInv'
    BY CliInvStep
<1>3. CliInv => NoQueueLeaked
    BY DEF CliInv, NoQueueLeaked, Up
<1>4. QED
    BY <1>1, <1>2, <1>3, PipeInvAlways, PTL DEF Spec

-----------------------------------------------------------------------------
(* A request is in one place at a time. *)

ExportAlone(p) ==
    exporting[p].msg # None =>
        /\ \A o \in Procs : exporting[o].msg = exporting[p].msg => o = p
        /\ \A o \in Procs, u \in Threads : consumer[o][u].msg # exporting[p].msg
        /\ \A q \in Queues : ~InQueue(exporting[p].msg, q)

ThreadAlone(p, t) ==
    consumer[p][t].msg # None =>
        /\ \A o \in Procs, u \in Threads : consumer[o][u].msg = consumer[p][t].msg => o = p /\ u = t
        /\ \A q \in Queues : ~InQueue(consumer[p][t].msg, q)

QueuesApart ==
    \A q, r \in Queues : \A i \in 1 .. Len(content[q]), j \in 1 .. Len(content[r]) :
        content[q][i] = content[r][j] => q = r /\ i = j

PlaceInv ==
    /\ \A p \in Procs : ExportAlone(p)
    /\ \A p \in Procs, t \in Threads : ThreadAlone(p, t)
    /\ QueuesApart

(* A request a process or a queue has in hand. *)
InHand(m) ==
    \/ \E q \in Queues : InQueue(m, q)
    \/ \E p \in Procs : exporting[p].msg = m \/ \E t \in Threads : consumer[p][t].msg = m

(* A request is nowhere before its export, nothing of it is on its way while *)
(* it is in hand, and there are no more copies of a part, arrived or on their *)
(* way, than one sending makes.                                              *)
CountInv ==
    /\ \A m \in fresh : ~InHand(m)
    /\ \A d \in Datagrams : d[1] \in fresh \/ InHand(d[1]) => network[d] = 0 /\ arrivals[d] = 0
    /\ \A d \in Datagrams : network[d] + arrivals[d] <= Copies[d]

TokenInv == PlaceInv /\ CountInv

ChannelStep == [C!Next]_<<fresh, arrivals>>

LEMMA TokenInvInit == Init => TokenInv
<1> SUFFICES ASSUME Init PROVE TokenInv
    OBVIOUS
<1>1. /\ \A p \in Procs : exporting[p].msg = None
      /\ \A p \in Procs, t \in Threads : consumer[p][t].msg = None
    BY RecordTypes DEF Init
<1>2. /\ \A q \in Queues : content[q] = <<>>
      /\ \A d \in Datagrams : network[d] = 0 /\ arrivals[d] = 0 /\ Copies[d] \in Nat
      /\ fresh = Msgs
    BY CopiesType DEF Init
<1>3. \A m \in Msgs, q \in Queues : ~InQueue(m, q)
    BY <1>2 DEF InQueue
<1>4. \A m \in Msgs : ~InHand(m)
    BY <1>1, <1>2, <1>3 DEF InHand
<1>5. CountInv
    <2> HIDE DEF Datagrams
    <2>1. QED
        BY <1>2, <1>4 DEF CountInv
<1>6. PlaceInv
    BY <1>1, <1>2 DEF PlaceInv, ExportAlone, ThreadAlone, QueuesApart
<1>7. QED
    BY <1>5, <1>6 DEF TokenInv

(* A step that takes no new request in hand and sends none. *)
Fewer == network' \in [Datagrams -> Nat] /\ \A d \in Datagrams : network'[d] <= network[d]

LEMMA CountStays ==
  ASSUME TypeOK, CountInv, Fewer, UNCHANGED arrivals, fresh' \subseteq fresh,
         \A m \in Msgs : InHand(m)' => InHand(m)
  PROVE  CountInv'
<1>1. \A d \in Datagrams : d[1] \in Msgs
    BY DEF Datagrams
<1> HIDE DEF Datagrams
<1>2. \A d \in Datagrams : network[d] \in Nat /\ network'[d] \in Nat /\ arrivals[d] \in Nat /\ Copies[d] \in Nat
    BY CopiesType DEF TypeOK, Fewer
<1>3. \A m \in fresh' : ~InHand(m)'
    BY DEF CountInv, TypeOK
<1>4. ASSUME NEW d \in Datagrams, d[1] \in fresh' \/ InHand(d[1])' PROVE network'[d] = 0 /\ arrivals'[d] = 0
    <2>1. d[1] \in fresh \/ InHand(d[1])
        BY <1>1, <1>4
    <2>2. network[d] = 0 /\ arrivals[d] = 0
        BY <2>1 DEF CountInv
    <2>3. QED
        BY <1>2, <2>2 DEF Fewer
<1>5. \A d \in Datagrams : network'[d] + arrivals'[d] <= Copies[d]
    BY <1>2 DEF CountInv, Fewer
<1>6. Copies' = Copies
    BY DEF Copies
<1>7. QED
    BY <1>3, <1>4, <1>5, <1>6, Zenon DEF CountInv, Datagrams

LEMMA SameNetwork == TypeOK /\ UNCHANGED network => Fewer
<1> HIDE DEF Datagrams
<1> QED
    BY DEF TypeOK, Fewer

LEMMA TokensStay ==
  ASSUME TypeOK, TokenInv, Fewer, UNCHANGED <<content, arrivals>>, fresh' \subseteq fresh,
         \A o \in Procs : exporting'[o].msg \in {exporting[o].msg, None},
         \A o \in Procs, u \in Threads : consumer'[o][u].msg \in {consumer[o][u].msg, None}
  PROVE  TokenInv'
<1>1. \A m, q : InQueue(m, q)' <=> InQueue(m, q)
    BY DEF InQueue
<1>2. \A m \in Msgs : InHand(m)' => InHand(m)
    BY <1>1 DEF InHand
<1>3. CountInv'
    BY <1>2, CountStays DEF TokenInv
<1>4. ASSUME NEW p \in Procs PROVE ExportAlone(p)'
    BY <1>1 DEF TokenInv, PlaceInv, ExportAlone
<1>5. ASSUME NEW p \in Procs, NEW t \in Threads PROVE ThreadAlone(p, t)'
    BY <1>1 DEF TokenInv, PlaceInv, ThreadAlone
<1>6. QueuesApart'
    BY DEF TokenInv, PlaceInv, QueuesApart
<1>7. QED
    BY <1>3, <1>4, <1>5, <1>6 DEF TokenInv, PlaceInv

LEMMA ExportOpenMoves ==
  ASSUME PipeInv, TokenInv, NEW p \in Procs, NEW m \in Msgs, ExportOpen(p, m)
  PROVE  TokenInv' /\ ChannelStep
<1>1. /\ m \in fresh /\ fresh' = fresh \ {m} /\ UNCHANGED <<network, content, arrivals, consumer>>
      /\ TypeOK /\ fresh \subseteq Msgs /\ m # None
    BY DEF PipeInv, TypeOK, ExportOpen, queueVars, wireVars
<1>2. ChannelStep
    BY <1>1 DEF ChannelStep, C!Next, C!Export
<1>3. CASE linked = 0
    <2>1. exporting' = exporting
        BY <1>3 DEF ExportOpen
    <2>2. TokenInv'
        BY <1>1, <2>1, SameNetwork, TokensStay
    <2>3. QED
        BY <1>2, <2>2
<1>4. CASE linked # 0
    <2> DEFINE e == [pc |-> "opened", queue |-> linked, msg |-> m]
    <2>1. e \in Export /\ e.msg = m
        BY <1>4 DEF PipeInv, TypeOK, Queues, Export
    <2>2. ExportBecomes(p, e)
        BY <1>1, <1>4, <2>1, ExportReplaced DEF ExportOpen
    <2>3. /\ exporting'[p].msg = m
          /\ \A o \in Procs : o # p => exporting'[o].msg = exporting[o].msg
        BY <2>1, <2>2 DEF ExportBecomes
    <2> HIDE DEF e
    <2>4. \A x, q : InQueue(x, q)' <=> InQueue(x, q)
        BY <1>1 DEF InQueue
    <2>5. ~InHand(m)
        BY <1>1 DEF TokenInv, CountInv
    <2>6. /\ \A q \in Queues : ~InQueue(m, q)
          /\ \A o \in Procs : exporting[o].msg # m /\ \A u \in Threads : consumer[o][u].msg # m
        BY <2>5 DEF InHand
    <2>7. \A x \in Msgs : x # m /\ InHand(x)' => InHand(x)
        BY <1>1, <2>3, <2>4 DEF InHand
    <2>8. CountInv'
        <3>1. \A d \in Datagrams : d[1] \in Msgs
            BY DEF Datagrams
        <3> HIDE DEF Datagrams
        <3>2. \A x \in fresh' : ~InHand(x)'
            BY <1>1, <2>7 DEF TokenInv, CountInv
        <3>3. \A d \in Datagrams : d[1] \in fresh' \/ InHand(d[1])' => d[1] \in fresh \/ InHand(d[1])
            BY <1>1, <2>7, <3>1
        <3>4. Copies' = Copies /\ Datagrams' = Datagrams
            BY DEF Copies, Datagrams
        <3>5. QED
            BY <1>1, <3>2, <3>3, <3>4, Zenon DEF TokenInv, CountInv
    <2>9. ASSUME NEW o \in Procs PROVE ExportAlone(o)'
        BY <1>1, <2>3, <2>4, <2>6 DEF TokenInv, PlaceInv, ExportAlone
    <2>10. ASSUME NEW o \in Procs, NEW u \in Threads PROVE ThreadAlone(o, u)'
        BY <1>1, <2>4 DEF TokenInv, PlaceInv, ThreadAlone
    <2>11. QueuesApart'
        BY <1>1 DEF TokenInv, PlaceInv, QueuesApart
    <2>12. QED
        BY <1>2, <2>8, <2>9, <2>10, <2>11 DEF TokenInv, PlaceInv
<1>5. QED
    BY <1>3, <1>4

LEMMA ExportSendMoves ==
  ASSUME PipeInv, TokenInv, NEW p \in Procs, ExportSend(p)
  PROVE  TokenInv' /\ ChannelStep
<1> PICK q \in Queues, m \in Msgs : q = exporting[p].queue /\ m = exporting[p].msg
    BY DEF PipeInv, StageInv, ExportSend
<1>1. /\ m # None /\ fresh \subseteq Msgs
      /\ UNCHANGED <<network, fresh, arrivals, consumer>>
      /\ TypeOK
    BY DEF PipeInv, TypeOK, StageInv, ExportSend, wireVars
<1>2. ExportBecomes(p, Idle)
    BY RecordTypes, ExportReplaced, Zenon DEF PipeInv, ExportSend
<1>3. /\ exporting'[p].msg = None
      /\ \A o \in Procs : o # p => exporting'[o].msg = exporting[o].msg
    BY <1>2, RecordTypes DEF ExportBecomes
<1>4. CASE Len(content[q]) >= MaxQueueLength
    <2>1. content' = content
        BY <1>4 DEF ExportSend
    <2>2. \A o \in Procs : exporting'[o].msg \in {exporting[o].msg, None}
        BY <1>3
    <2>3. TokenInv'
        BY <1>1, <2>1, <2>2, SameNetwork, TokensStay
    <2>4. QED
        BY <1>1, <2>3 DEF ChannelStep
<1>5. CASE ~(Len(content[q]) >= MaxQueueLength)
    <2>1. content \in [Queues -> Seq(Msgs \ Oversized)]
        BY <1>1 DEF TypeOK
    <2>2. content' = [content EXCEPT ![q] = Append(content[q], m)]
        BY <1>5 DEF ExportSend
    <2>3. /\ content'[q] = Append(content[q], m)
          /\ \A r \in Queues : r # q => content'[r] = content[r]
        BY <1>1, <2>1, <2>2
    <2>4. /\ Len(content'[q]) = Len(content[q]) + 1 /\ content'[q][Len(content[q]) + 1] = m
          /\ \A i \in 1 .. Len(content[q]) : content'[q][i] = content[q][i]
          /\ Len(content[q]) \in Nat
        BY <1>1, <2>1, <2>3
    <2>6. /\ \A o \in Procs : exporting[o].msg = m => o = p
          /\ \A o \in Procs, u \in Threads : consumer[o][u].msg # m
          /\ \A r \in Queues : ~InQueue(m, r)
        BY <1>1 DEF TokenInv, PlaceInv, ExportAlone
    <2>7. ASSUME NEW x, NEW r \in Queues, x # m PROVE InQueue(x, r)' => InQueue(x, r)
        <3> SUFFICES ASSUME NEW k \in 1 .. Len(content'[r]), content'[r][k] = x PROVE InQueue(x, r)
            BY DEF InQueue
        <3>1. k \in 1 .. Len(content[r]) /\ content'[r][k] = content[r][k]
            <4>1. CASE r = q
                <5>1. k \in 1 .. Len(content[q]) + 1 /\ k # Len(content[q]) + 1
                    BY <2>4, <2>7, <4>1
                <5>2. k \in 1 .. Len(content[q])
                    BY <2>4, <5>1
                <5>3. QED
                    BY <2>4, <4>1, <5>2
            <4>2. CASE r # q
                BY <2>3, <4>2
            <4>3. QED
                BY <4>1, <4>2
        <3>2. QED
            BY <3>1 DEF InQueue
    <2>8. InHand(m)
        BY DEF InHand
    <2>9. \A x \in Msgs : InHand(x)' => InHand(x)
        BY <1>1, <1>3, <2>7, <2>8 DEF InHand
    <2>10. CountInv'
        BY <1>1, <2>9, SameNetwork, CountStays DEF TokenInv
    <2>12. ASSUME NEW o \in Procs PROVE ExportAlone(o)'
        BY <1>1, <1>3, <2>6, <2>7 DEF TokenInv, PlaceInv, ExportAlone
    <2>13. ASSUME NEW o \in Procs, NEW u \in Threads PROVE ThreadAlone(o, u)'
        BY <1>1, <2>6, <2>7 DEF TokenInv, PlaceInv, ThreadAlone
    <2>14. QueuesApart'
        <3> SUFFICES ASSUME NEW r \in Queues, NEW s \in Queues,
                            NEW i \in 1 .. Len(content'[r]), NEW j \in 1 .. Len(content'[s]),
                            content'[r][i] = content'[s][j]
                     PROVE  r = s /\ i = j
            BY DEF QueuesApart
        <3>1. ASSUME NEW x \in Queues, NEW k \in 1 .. Len(content'[x])
              PROVE  \/ x = q /\ k = Len(content[q]) + 1 /\ content'[x][k] = m
                     \/ k \in 1 .. Len(content[x]) /\ content'[x][k] = content[x][k] /\ content[x][k] # m
            <4>1. \A a \in 1 .. Len(content[x]) : content[x][a] # m
                BY <2>6 DEF InQueue
            <4>2. CASE x = q
                BY <2>4, <4>1, <4>2
            <4>3. CASE x # q
                BY <2>3, <4>1, <4>3
            <4>4. QED
                BY <4>2, <4>3
        <3>2. QED
            BY <3>1 DEF TokenInv, PlaceInv, QueuesApart
    <2>15. QED
        BY <1>1, <2>10, <2>12, <2>13, <2>14 DEF TokenInv, PlaceInv, ChannelStep
<1>6. QED
    BY <1>4, <1>5

LEMMA ReceiveMoves ==
  ASSUME PipeInv, TokenInv, NEW p \in Procs, NEW t \in Threads, Receive(p, t)
  PROVE  TokenInv' /\ ChannelStep
<1> PICK q \in Queues : q = consumer[p][t].queue
    BY DEF PipeInv, StageInv, Receive
<1>1. /\ content[q] # <<>> /\ TypeOK /\ consumer[p][t] \in Thread
      /\ fresh \subseteq Msgs
      /\ UNCHANGED <<network, fresh, arrivals, exporting>>
    BY ThreadTyped DEF PipeInv, TypeOK, StageInv, MutexInv, ReceivesAlone, Receive, wireVars
<1>2. content \in [Queues -> Seq(Msgs \ Oversized)]
    BY <1>1 DEF TypeOK
<1> PICK m \in Msgs : m = Head(content[q])
    BY <1>1, <1>2
<1>3. /\ m = content[q][1] /\ Len(content[q]) \in Nat /\ Len(content[q]) >= 1
      /\ Len(Tail(content[q])) = Len(content[q]) - 1
      /\ \A i \in 1 .. Len(content[q]) - 1 : Tail(content[q])[i] = content[q][i + 1]
    BY <1>1, <1>2
<1>4. content'[q] = Tail(content[q]) /\ \A r \in Queues : r # q => content'[r] = content[r]
    BY <1>1, <1>2 DEF Receive
<1>5. InQueue(m, q)
    BY <1>3 DEF InQueue
<1> DEFINE e == [consumer[p][t] EXCEPT !.pc = "sending", !.msg = m]
<1>6. ThreadBecomes(p, t, e) /\ e.msg = m
    <2>1. e \in Thread /\ e.msg = m
        BY <1>1, <1>3 DEF Thread
    <2>2. consumer' = [consumer EXCEPT ![p] = [consumer[p] EXCEPT ![t] = e]]
        BY DEF PipeInv, TypeOK, Receive
    <2> HIDE DEF e
    <2>3. QED
        BY <1>1, <2>1, <2>2, ThreadReplaced
<1>7. /\ consumer'[p][t].msg = m
      /\ \A o \in Procs, u \in Threads : o # p \/ u # t => consumer'[o][u].msg = consumer[o][u].msg
    BY <1>6 DEF ThreadBecomes
<1>8. ASSUME NEW r \in Queues, NEW k \in 1 .. Len(content'[r])
      PROVE  \/ r # q /\ k \in 1 .. Len(content[r]) /\ content'[r][k] = content[r][k]
             \/ r = q /\ k + 1 \in 1 .. Len(content[r]) /\ content'[r][k] = content[r][k + 1] /\ k # 0
    <2>1. CASE r = q
        <3>1. /\ Len(content'[q]) = Len(content[q]) - 1
              /\ \A i \in 1 .. Len(content[q]) - 1 : content'[q][i] = content[q][i + 1]
            BY <1>3, <1>4
        <3>2. k \in 1 .. Len(content[q]) - 1
            BY <2>1, <3>1
        <3>3. k + 1 \in 1 .. Len(content[q]) /\ k # 0
            BY <1>3, <3>2
        <3>4. content'[q][k] = content[q][k + 1]
            BY <3>1, <3>2
        <3>5. QED
            BY <2>1, <3>3, <3>4
    <2>2. CASE r # q
        BY <1>4, <2>2
    <2>3. QED
        BY <2>1, <2>2
<1>9. \A x : \A r \in Queues : InQueue(x, r)' => InQueue(x, r)
    BY <1>8 DEF InQueue
<1>10. \A r \in Queues : ~InQueue(m, r)'
    <2> SUFFICES ASSUME NEW r \in Queues, NEW k \in 1 .. Len(content'[r]), content'[r][k] = m
                 PROVE  FALSE
        BY DEF InQueue
    <2>1. 1 \in 1 .. Len(content[q]) /\ content[q][1] = m
        BY <1>3
    <2>2. PICK i \in 1 .. Len(content[r]) : content[r][i] = m /\ (r # q \/ (i = k + 1 /\ k # 0))
        BY <1>8
    <2>3. r = q /\ i = 1
        BY <2>1, <2>2 DEF TokenInv, PlaceInv, QueuesApart
    <2>4. QED
        BY <2>2, <2>3
<1>11. /\ m # None
       /\ \A o \in Procs : exporting[o].msg # m
       /\ \A o \in Procs, u \in Threads : consumer[o][u].msg # m
    BY <1>1, <1>3, <1>5 DEF TokenInv, PlaceInv, ExportAlone, ThreadAlone
<1>12. InHand(m)
    BY <1>1, <1>5 DEF InHand
<1> HIDE DEF e
<1>13. \A x \in Msgs : InHand(x)' => InHand(x)
    BY <1>1, <1>7, <1>9, <1>12 DEF InHand
<1>14. CountInv'
    BY <1>1, <1>13, SameNetwork, CountStays DEF TokenInv
<1>16. ASSUME NEW o \in Procs PROVE ExportAlone(o)'
    BY <1>1, <1>7, <1>9, <1>11 DEF TokenInv, PlaceInv, ExportAlone
<1>17. ASSUME NEW o \in Procs, NEW u \in Threads PROVE ThreadAlone(o, u)'
    BY <1>7, <1>9, <1>10, <1>11 DEF TokenInv, PlaceInv, ThreadAlone
<1>18. QueuesApart'
    <2> SUFFICES ASSUME NEW r \in Queues, NEW s \in Queues,
                        NEW i \in 1 .. Len(content'[r]), NEW j \in 1 .. Len(content'[s]),
                        content'[r][i] = content'[s][j]
                 PROVE  r = s /\ i = j
        BY DEF QueuesApart
    <2>1. \A x, y \in Queues : \A a \in 1 .. Len(content[x]), b \in 1 .. Len(content[y]) :
              content[x][a] = content[y][b] => x = y /\ a = b
        BY DEF TokenInv, PlaceInv, QueuesApart
    <2>2. CASE r = q /\ s = q
        <3>1. i + 1 \in 1 .. Len(content[q]) /\ j + 1 \in 1 .. Len(content[q])
              /\ content[q][i + 1] = content[q][j + 1]
            BY <1>8, <2>2
        <3>2. i + 1 = j + 1
            BY <1>1, <2>1, <3>1
        <3>3. QED
            BY <2>2, <3>2
    <2>3. CASE r # q /\ s # q
        BY <1>8, <2>1, <2>3
    <2>4. CASE (r = q) # (s = q)
        BY <1>8, <2>1, <2>4
    <2>5. QED
        BY <2>2, <2>3, <2>4
<1>19. QED
    BY <1>1, <1>14, <1>16, <1>17, <1>18 DEF TokenInv, PlaceInv, ChannelStep

LEMMA SendMoves ==
  ASSUME PipeInv, TokenInv, NEW p \in Procs, NEW t \in Threads, Send(p, t)
  PROVE  TokenInv' /\ ChannelStep
<1> PICK m \in Msgs : m = consumer[p][t].msg
    BY DEF PipeInv, StageInv, Send
<1>1. /\ TypeOK /\ consumer[p][t] \in Thread /\ m # None
      /\ fresh \subseteq Msgs /\ network' = NetworkWith(m)
      /\ UNCHANGED <<content, fresh, arrivals, exporting>>
    BY ThreadTyped DEF PipeInv, TypeOK, Send, queueVars
<1>2. /\ consumer'[p][t].msg = None
      /\ \A o \in Procs, u \in Threads : o # p \/ u # t => consumer'[o][u].msg = consumer[o][u].msg
    <2> DEFINE e == [consumer[p][t] EXCEPT !.pc = "receiving", !.msg = None]
    <2>1. e \in Thread /\ e.msg = None
        BY <1>1 DEF Thread
    <2>2. consumer' = [consumer EXCEPT ![p] = [consumer[p] EXCEPT ![t] = e]]
        BY <1>1 DEF TypeOK, Send
    <2> HIDE DEF e
    <2>3. ThreadBecomes(p, t, e)
        BY <1>1, <2>1, <2>2, ThreadReplaced
    <2>4. QED
        BY <2>1, <2>3 DEF ThreadBecomes
<1>3. \A x, q : InQueue(x, q)' <=> InQueue(x, q)
    BY <1>1 DEF InQueue
<1>4. /\ \A o \in Procs : exporting[o].msg # m
      /\ \A o \in Procs, u \in Threads : consumer[o][u].msg = m => o = p /\ u = t
      /\ \A q \in Queues : ~InQueue(m, q)
    BY <1>1 DEF TokenInv, PlaceInv, ExportAlone, ThreadAlone
<1>5. InHand(m) /\ ~InHand(m)'
    BY <1>1, <1>2, <1>3, <1>4 DEF InHand
<1>6. \A x \in Msgs : InHand(x)' => InHand(x)
    BY <1>1, <1>2, <1>3, <1>5 DEF InHand
<1>7. CountInv'
    <2>1. \A d \in Datagrams : d[1] \in Msgs
        BY DEF Datagrams
    <2>2. \A d \in Datagrams : network'[d] = network[d] + (IF d[1] = m THEN Copies[d] ELSE 0)
        BY <1>1, NetworkWithType, Zenon
    <2>3. Copies' = Copies /\ Datagrams' = Datagrams
        BY DEF Copies, Datagrams
    <2> HIDE DEF Datagrams
    <2>4. \A d \in Datagrams : network[d] \in Nat /\ arrivals[d] \in Nat /\ Copies[d] \in Nat
        BY <1>1, CopiesType DEF TypeOK
    <2>5. \A x \in fresh' : ~InHand(x)'
        BY <1>1, <1>6 DEF TokenInv, CountInv
    <2>6. m \notin fresh
        BY <1>5 DEF TokenInv, CountInv
    <2>7. ASSUME NEW d \in Datagrams, d[1] \in fresh' \/ InHand(d[1])' PROVE network'[d] = 0 /\ arrivals'[d] = 0
        <3>1. d[1] # m /\ (d[1] \in fresh \/ InHand(d[1]))
            BY <1>1, <1>5, <1>6, <2>1, <2>6, <2>7
        <3>2. network[d] = 0 /\ arrivals[d] = 0
            BY <3>1 DEF TokenInv, CountInv
        <3>3. QED
            BY <1>1, <2>2, <2>4, <3>1, <3>2
    <2>8. ASSUME NEW d \in Datagrams PROVE network'[d] + arrivals'[d] <= Copies[d]
        <3>1. d[1] = m => network[d] = 0 /\ arrivals[d] = 0
            BY <1>5 DEF TokenInv, CountInv
        <3>2. network[d] + arrivals[d] <= Copies[d]
            BY DEF TokenInv, CountInv
        <3>3. QED
            BY <1>1, <2>2, <2>4, <3>1, <3>2
    <2>9. QED
        BY <2>3, <2>5, <2>7, <2>8, Zenon DEF CountInv
<1>9. ASSUME NEW o \in Procs PROVE ExportAlone(o)'
    BY <1>1, <1>2, <1>3 DEF TokenInv, PlaceInv, ExportAlone
<1>10. ASSUME NEW o \in Procs, NEW u \in Threads PROVE ThreadAlone(o, u)'
    BY <1>2, <1>3 DEF TokenInv, PlaceInv, ThreadAlone
<1>11. QueuesApart'
    BY <1>1 DEF TokenInv, PlaceInv, QueuesApart
<1>12. QED
    BY <1>1, <1>7, <1>9, <1>10, <1>11 DEF TokenInv, PlaceInv, ChannelStep

LEMMA ArriveMoves ==
  ASSUME PipeInv, TokenInv, NEW d \in Datagrams, Arrive(d)
  PROVE  TokenInv' /\ ChannelStep
<1>0. d[1] \in Msgs /\ Datagrams' = Datagrams /\ Copies' = Copies /\ C!Datagrams = Datagrams
    BY DEF Datagrams, Copies, C!Datagrams
<1> HIDE DEF Datagrams
<1>1. /\ TypeOK /\ network[d] > 0
      /\ network' = [network EXCEPT ![d] = network[d] - 1]
      /\ arrivals' = [arrivals EXCEPT ![d] = arrivals[d] + 1]
      /\ UNCHANGED <<content, fresh, exporting, consumer>>
    BY DEF PipeInv, Arrive, queueVars
<1>2. \A e \in Datagrams : network[e] \in Nat /\ arrivals[e] \in Nat /\ Copies[e] \in Nat
    BY <1>1, CopiesType DEF TypeOK
<1>3. /\ network'[d] = network[d] - 1 /\ arrivals'[d] = arrivals[d] + 1
      /\ \A e \in Datagrams : e # d => network'[e] = network[e] /\ arrivals'[e] = arrivals[e]
    BY <1>1 DEF TypeOK
<1>4. \A m : InHand(m)' <=> InHand(m)
    BY <1>1 DEF InHand, InQueue
<1>5. d[1] \notin fresh /\ ~InHand(d[1]) /\ arrivals[d] < Copies[d]
    BY <1>1, <1>2 DEF TokenInv, CountInv
<1>6. CountInv'
    <2>1. \A m \in fresh' : ~InHand(m)'
        BY <1>1, <1>4 DEF TokenInv, CountInv
    <2>2. ASSUME NEW e \in Datagrams, e[1] \in fresh' \/ InHand(e[1])' PROVE network'[e] = 0 /\ arrivals'[e] = 0
        <3>1. e # d /\ (e[1] \in fresh \/ InHand(e[1]))
            BY <1>1, <1>4, <1>5, <2>2
        <3>2. QED
            BY <1>3, <3>1 DEF TokenInv, CountInv
    <2>3. ASSUME NEW e \in Datagrams PROVE network'[e] + arrivals'[e] <= Copies[e]
        BY <1>2, <1>3 DEF TokenInv, CountInv
    <2>4. QED
        BY <1>0, <2>1, <2>2, <2>3, Zenon DEF CountInv
<1>7. PlaceInv'
    BY <1>1 DEF TokenInv, PlaceInv, ExportAlone, ThreadAlone, QueuesApart, InQueue
<1>8. ChannelStep
    BY <1>0, <1>1, <1>5 DEF ChannelStep, C!Next, C!Arrive
<1>9. QED
    BY <1>6, <1>7, <1>8 DEF TokenInv

(* All other steps move no request. *)
Stays ==
    /\ Fewer /\ UNCHANGED <<content, arrivals, fresh>>
    /\ \A o \in Procs : exporting'[o].msg \in {exporting[o].msg, None}
    /\ \A o \in Procs, u \in Threads : consumer'[o][u].msg \in {consumer[o][u].msg, None}

LEMMA StaysMoves ==
  ASSUME PipeInv, TokenInv, Stays
  PROVE  TokenInv' /\ ChannelStep
BY TokensStay DEF Stays, PipeInv, ChannelStep

LEMMA DieStays ==
  ASSUME PipeInv, NEW p \in Procs, NEW how, Die(p, how), UNCHANGED <<queueVars, wireVars, fresh>>
  PROVE  Stays
<1>1. ExportBecomes(p, Idle) /\ ThreadsBecome(p, NoThread)
    BY DeathFacts DEF PipeInv
<1>2. QED
    BY <1>1, RecordTypes, SameNetwork DEF PipeInv, Stays, ExportBecomes, ThreadsBecome, queueVars, wireVars

LEMMA ConsumerStays ==
  ASSUME PipeInv, NEW p \in Procs, NEW t \in Threads, ConsumerOpen(p, t) \/ ReceiveLock(p, t)
  PROVE  Stays
<1>1. TypeOK /\ consumer[p][t] \in Thread
    BY ThreadTyped DEF PipeInv
<1>2. ASSUME UNCHANGED <<network, content, arrivals, fresh, exporting>>,
             NEW r, r.msg = consumer[p][t].msg,
             consumer' = [consumer EXCEPT ![p] = [consumer[p] EXCEPT ![t] = r]]
      PROVE  Stays
    BY <1>1, <1>2, SameNetwork DEF Stays, TypeOK
<1>3. CASE ReceiveLock(p, t)
    <2> DEFINE r == [consumer[p][t] EXCEPT !.pc = "locked"]
    <2>1. r.msg = consumer[p][t].msg
        BY <1>1 DEF Thread
    <2>2. consumer' = [consumer EXCEPT ![p] = [consumer[p] EXCEPT ![t] = r]]
        BY <1>1, <1>3 DEF TypeOK, ReceiveLock
    <2> HIDE DEF r
    <2>3. QED
        BY <1>2, <1>3, <2>1, <2>2 DEF ReceiveLock, wireVars
<1>4. CASE ConsumerOpen(p, t)
    <2>1. UNCHANGED <<queueVars, wireVars, fresh>>
        BY <1>4 DEF ConsumerOpen
    <2>2. CASE UNCHANGED exporting
               /\ consumer' = [consumer EXCEPT ![p][t].pc = "receiving", ![p][t].queue = linked]
        <3> DEFINE r == [consumer[p][t] EXCEPT !.pc = "receiving", !.queue = linked]
        <3>1. r.msg = consumer[p][t].msg
            BY <1>1 DEF Thread
        <3>2. consumer' = [consumer EXCEPT ![p] = [consumer[p] EXCEPT ![t] = r]]
            BY <1>1, <2>2 DEF TypeOK
        <3> HIDE DEF r
        <3>3. QED
            BY <1>2, <2>1, <2>2, <3>1, <3>2 DEF queueVars, wireVars
    <2>3. CASE UNCHANGED exporting /\ consumer' = [consumer EXCEPT ![p][t].pc = "returned"]
        <3> DEFINE r == [consumer[p][t] EXCEPT !.pc = "returned"]
        <3>1. r.msg = consumer[p][t].msg
            BY <1>1 DEF Thread
        <3>2. consumer' = [consumer EXCEPT ![p] = [consumer[p] EXCEPT ![t] = r]]
            BY <1>1, <2>3 DEF TypeOK
        <3> HIDE DEF r
        <3>3. QED
            BY <1>2, <2>1, <2>3, <3>1, <3>2 DEF queueVars, wireVars
    <2>4. CASE Die(p, "crashed")
        BY <2>1, <2>4, DieStays
    <2>5. QED
        BY <1>4, <2>2, <2>3, <2>4, Zenon DEF ConsumerOpen
<1>5. QED
    BY <1>3, <1>4

LEMMA ProcessStays ==
  ASSUME PipeInv, NEW p \in Procs,
         \/ InitClean(p) \/ InitOpen(p) \/ ExportLock(p) \/ ModuleShutdown(p) \/ Exit(p) \/ Kill(p)
         \/ \E c \in Procs : Fork(p, c)
         \/ \E m \in Msgs : Complete(p, m)
  PROVE  Stays
<1>1. ASSUME UNCHANGED <<exporting, consumer, content, network, arrivals, fresh>> PROVE Stays
    BY <1>1, SameNetwork DEF Stays, PipeInv
<1>2. CASE InitClean(p) \/ ModuleShutdown(p)
    BY <1>1, <1>2 DEF InitClean, ModuleShutdown, wireVars
<1>3. CASE \/ \E c \in Procs : Fork(p, c)
           \/ \E m \in Msgs : Complete(p, m)
    BY <1>1, <1>3 DEF Fork, Complete, queueVars, wireVars
<1>4. CASE InitOpen(p)
    <2>1. consumer' = consumer \/ ThreadsBecome(p, Started)
        BY <1>4, RecordTypes, ThreadsReplaced, Zenon DEF PipeInv, InitOpen
    <2>2. QED
        BY <1>4, <2>1, RecordTypes, SameNetwork DEF PipeInv, InitOpen, Stays, ThreadsBecome, wireVars
<1>5. CASE ExportLock(p)
    <2>1. exporting[p] \in Export /\ exporting \in [Procs -> Export]
        BY DEF PipeInv, TypeOK, Export
    <2>2. \/ exporting' = [exporting EXCEPT ![p] = Idle]
          \/ exporting' = [exporting EXCEPT ![p].pc = "locked"]
        BY <1>5 DEF ExportLock
    <2>3. exporting'[p].msg \in {exporting[p].msg, None}
        BY <2>1, <2>2, RecordTypes DEF Export
    <2>4. \A o \in Procs : o # p => exporting'[o] = exporting[o]
        BY <2>1, <2>2
    <2>5. QED
        BY <1>5, <2>3, <2>4, SameNetwork DEF PipeInv, Stays, ExportLock, wireVars
<1>6. CASE Exit(p) \/ Kill(p)
    BY <1>6, DieStays DEF Exit, Kill
<1>7. QED
    BY <1>2, <1>3, <1>4, <1>5, <1>6

LEMMA TokenInvStep ==
  ASSUME PipeInv, TokenInv, [Next]_vars
  PROVE  TokenInv' /\ ChannelStep
<1>1. CASE UNCHANGED vars
    <2>1. Stays
        BY <1>1, SameNetwork DEF PipeInv, Stays, vars, queueVars, wireVars
    <2>2. QED
        BY <2>1, StaysMoves
<1>2. ASSUME NEW p \in Procs, \/ InitClean(p) \/ InitOpen(p) \/ ExportStep(p) \/ ModuleShutdown(p)
                              \/ Exit(p) \/ Kill(p)
      PROVE  TokenInv' /\ ChannelStep
    BY <1>2, ProcessStays, StaysMoves, ExportSendMoves, Zenon DEF ExportStep
<1>3. ASSUME NEW p \in Procs, NEW m \in Msgs, ExportOpen(p, m) \/ Complete(p, m)
      PROVE  TokenInv' /\ ChannelStep
    BY <1>3, ProcessStays, StaysMoves, ExportOpenMoves, Zenon
<1>4. ASSUME NEW p \in Procs, NEW t \in Threads, ThreadStep(p, t) PROVE TokenInv' /\ ChannelStep
    BY <1>4, ConsumerStays, StaysMoves, ReceiveMoves, SendMoves, Zenon DEF ThreadStep
<1>5. ASSUME NEW p \in Procs, NEW c \in Procs, Fork(p, c) PROVE TokenInv' /\ ChannelStep
    BY <1>5, ProcessStays, StaysMoves, Zenon
<1>6. ASSUME NEW d \in Datagrams, Arrive(d) PROVE TokenInv' /\ ChannelStep
    BY <1>6, ArriveMoves
<1>7. ASSUME NEW d \in Datagrams, Lose(d) PROVE TokenInv' /\ ChannelStep
    <2> HIDE DEF Datagrams
    <2>1. Fewer
        BY <1>7 DEF PipeInv, TypeOK, Fewer, Lose
    <2>2. Stays
        BY <1>7, <2>1 DEF Stays, Lose, queueVars
    <2>3. QED
        BY <2>2, StaysMoves
<1>8. CASE Reload
    <2>1. Stays
        BY <1>8, DieStays DEF Reload
    <2>2. QED
        BY <2>1, StaysMoves
<1>9. QED
    BY <1>1, <1>2, <1>3, <1>4, <1>5, <1>6, <1>7, <1>8, Zenon DEF Next

(* Whatever forks, reloads, kills and missed deadlines there are, a request   *)
(* is handed on and sent by one thread once: over gRPC, and over udp if it    *)
(* fits into a datagram, it reaches the collector at most once, and no part   *)
(* of a longer one more than the two times it is sent (core.cc consumer,      *)
(* otel_exporter.cc sendAsyncTracer, sendTracerByUDP).                        *)
THEOREM NothingArrivesTooOften == Spec => AtMostOnce
<1>1. Init => C!Init
    BY DEF Init, C!Init, Datagrams, C!Datagrams
<1>2. PipeInv /\ TokenInv /\ [Next]_vars => TokenInv' /\ [C!Next]_<<fresh, arrivals>>
    BY TokenInvStep DEF ChannelStep
<1>3. QED
    BY <1>1, <1>2, PipeInvInit, PipeInvStep, TokenInvInit, PTL DEF Spec, AtMostOnce, C!Spec
=============================================================================
