------------------------------- MODULE CTimer -------------------------------
(***************************************************************************)
(* The timer that repeats the DNS lookup of the udp exporter: a thread that *)
(* sleeps and runs a task, and its owner, who starts, cancels and deletes   *)
(* it.  They share atomic flags and no lock: every load that decides and    *)
(* every store is a step of its own here.                                   *)
(***************************************************************************)
EXTENDS Integers

CONSTANT CountLimit     \* where m_nCount stops counting in the model

ASSUME CountAssumption == CountLimit \in Nat \ {0}

VARIABLES
    m_bExpired,     \* the loaded task has run out
    m_bTryExpired,  \* it is asked to
    m_bLoop,        \* it repeats
    m_nCount,       \* how often it ran
    m_Thread,       \* the pointer is not null
    thread,         \* "none", "looping" (at the loop's test), "waiting", "task" (past the
                    \* second test), "leaving", "resetting" or "done"
    owner,          \* "idle", "replacing" (in Start, joining the old thread), "sleeping"
                    \* (in a synchronous Start), "cancelling" (past Cancel's test),
                    \* "deleting" or "deleted"
    tooLate         \* history: the last Cancel stored its flag after the task ran out

flags == <<m_bExpired, m_bTryExpired, m_bLoop>>
vars == <<flags, m_nCount, m_Thread, thread, owner, tooLate>>

Ended == thread \in {"none", "done"}

Init ==
    /\ m_bExpired = TRUE
    /\ m_bTryExpired = FALSE
    /\ m_bLoop = FALSE
    /\ m_nCount = 0
    /\ m_Thread = FALSE
    /\ thread = "none"
    /\ owner = "idle"
    /\ tooLate = FALSE

-----------------------------------------------------------------------------
(* The owner. *)

(* Start refuses when the test fails, and changes nothing. *)
Start(loop, async) ==
    /\ owner = "idle"
    /\ m_bExpired /\ ~m_bTryExpired
    /\ m_bExpired' = FALSE
    /\ m_bLoop' = loop
    /\ m_nCount' = 0
    /\ owner' = IF async THEN "replacing" ELSE "sleeping"
    /\ UNCHANGED <<m_bTryExpired, m_Thread, thread, tooLate>>

StartThread ==
    /\ owner = "replacing" /\ Ended
    /\ m_Thread' = TRUE
    /\ thread' = "looping"
    /\ owner' = "idle"
    /\ UNCHANGED <<flags, m_nCount, tooLate>>

StartSync ==
    /\ owner = "sleeping"
    /\ m_bExpired' = TRUE
    /\ m_bTryExpired' = FALSE
    /\ owner' = "idle"
    /\ UNCHANGED <<m_bLoop, m_nCount, m_Thread, thread, tooLate>>

Cancel ==
    /\ owner = "idle"
    /\ ~m_bExpired /\ ~m_bTryExpired /\ m_Thread
    /\ owner' = "cancelling"
    /\ UNCHANGED <<flags, m_nCount, m_Thread, thread, tooLate>>

CancelStore ==
    /\ owner = "cancelling"
    /\ m_bTryExpired' = TRUE
    /\ owner' = "idle"
    /\ UNCHANGED <<m_bExpired, m_bLoop, m_nCount, m_Thread, thread>>
    /\ tooLate' = m_bExpired

(* A definition marked "mutant" is a wrong version of the next one. *)
(* mutant: the destructor does not ask the task to run out. *)
DeleteUnasked ==
    /\ owner = "idle"
    /\ owner' = "deleting"
    /\ UNCHANGED <<flags, m_nCount, m_Thread, thread, tooLate>>

(* The destructor. *)
Delete ==
    /\ owner = "idle"
    /\ m_bTryExpired' = TRUE
    /\ owner' = "deleting"
    /\ UNCHANGED <<m_bExpired, m_bLoop, m_nCount, m_Thread, thread, tooLate>>

(* mutant: the thread is not joined. *)
DeleteUnjoined ==
    /\ owner = "deleting"
    /\ m_Thread' = FALSE
    /\ owner' = "deleted"
    /\ UNCHANGED <<flags, m_nCount, thread, tooLate>>

(* DeleteThread under the destructor: join. *)
DeleteThread ==
    /\ owner = "deleting" /\ Ended
    /\ m_Thread' = FALSE
    /\ owner' = "deleted"
    /\ UNCHANGED <<flags, m_nCount, thread, tooLate>>

-----------------------------------------------------------------------------
(* The thread. *)

(* mutant: the flag is left for the next task. *)
ResetForgotten ==
    /\ thread = "resetting"
    /\ thread' = "done"
    /\ UNCHANGED <<flags, m_nCount, m_Thread, owner, tooLate>>

(* mutant: while (true). *)
LoopForever ==
    /\ thread = "looping"
    /\ thread' = "waiting"
    /\ UNCHANGED <<flags, m_nCount, m_Thread, owner, tooLate>>

Loop ==
    /\ thread = "looping"
    /\ thread' = IF m_bTryExpired THEN "leaving" ELSE "waiting"
    /\ UNCHANGED <<flags, m_nCount, m_Thread, owner, tooLate>>

(* wait_for returns, after msTime or early: Cancel does not notify.          *)
Wake ==
    /\ thread = "waiting"
    /\ thread' = IF m_bTryExpired THEN "looping" ELSE "task"
    /\ UNCHANGED <<flags, m_nCount, m_Thread, owner, tooLate>>

(* mutant: every task repeats. *)
TaskRepeats ==
    /\ thread = "task"
    /\ m_nCount' = IF m_nCount < CountLimit THEN m_nCount + 1 ELSE m_nCount
    /\ thread' = "looping"
    /\ UNCHANGED <<flags, m_Thread, owner, tooLate>>

Task ==
    /\ thread = "task"
    /\ m_nCount' = IF m_nCount < CountLimit THEN m_nCount + 1 ELSE m_nCount
    /\ thread' = IF m_bLoop THEN "looping" ELSE "leaving"
    /\ UNCHANGED <<flags, m_Thread, owner, tooLate>>

Leave ==
    /\ thread = "leaving"
    /\ m_bExpired' = TRUE
    /\ thread' = "resetting"
    /\ UNCHANGED <<m_bTryExpired, m_bLoop, m_nCount, m_Thread, owner, tooLate>>

Reset ==
    /\ thread = "resetting"
    /\ m_bTryExpired' = FALSE
    /\ thread' = "done"
    /\ UNCHANGED <<m_bExpired, m_bLoop, m_nCount, m_Thread, owner, tooLate>>

-----------------------------------------------------------------------------
ThreadStep == Loop \/ Wake \/ Task \/ Leave \/ Reset

Next ==
    \/ \E loop, async \in BOOLEAN : Start(loop, async)
    \/ StartThread \/ StartSync \/ Cancel \/ CancelStore \/ Delete \/ DeleteThread
    \/ ThreadStep

Spec == Init /\ [][Next]_vars

(* The thread is scheduled and its task returns; an owner inside a call      *)
(* goes on.  What to call, and whether, is the owner's choice.               *)
FairSpec == Spec /\ WF_vars(ThreadStep) /\ WF_vars(CancelStore)
                 /\ WF_vars(StartThread) /\ WF_vars(DeleteThread)

-----------------------------------------------------------------------------
(* A task started to run once runs once (Timer.h:27, "default once"), even   *)
(* if the timer is used again while its last thread is going away.           *)
OnceRunsOnce == ~m_bLoop => m_nCount <= 1

(* The task, which holds a pointer to the exporter, does not run after the   *)
(* destructor (Timer.cc:15-18).                                              *)
NoTaskOnceDeleted == owner = "deleted" => Ended

(* A cancelled task runs out: the flag is not lost between the thread's two  *)
(* tests (Timer.cc:39-47).                                                   *)
CancelEnds == owner = "cancelling" ~> m_bExpired

(* The destructor returns: the flag it sets is not reset by a thread that    *)
(* then keeps on looping (Timer.cc:15-18, 73-80).                            *)
DeleteEnds == owner = "deleting" ~> owner = "deleted"

(* Once no thread is left the timer can be started again ("to load a task    *)
(* again next time", Timer.cc:51), but for the one interleaving in which the *)
(* thread ran out between the two halves of Cancel: then Start refuses for   *)
(* ever.                                                                     *)
ReusableUnlessTooLate == owner = "idle" /\ Ended /\ ~tooLate => m_bExpired /\ ~m_bTryExpired
=============================================================================
