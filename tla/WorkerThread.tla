---------------------------- MODULE WorkerThread ----------------------------
(***************************************************************************)
(* lib/workerthread.cpp: a worker thread that executes the callbacks       *)
(* posted to a queue, and a timer thread that posts MSG_TIMER to the same  *)
(* queue.                                                                  *)
(*                                                                         *)
(* Every access to m_queue happens under m_mutex, so a critical section is *)
(* one step, whichever thread runs it (the callers, the callbacks          *)
(* themselves and the timer thread all post).  A thread inside m_cv.wait   *)
(* is in state "wait": it leaves it through a notify or a spurious wakeup, *)
(* and then takes the mutex and tests the queue again.                     *)
(*                                                                         *)
(* A callback is identified by its number in the order in which PostMsg    *)
(* accepted it.  Every message carries the number n of the last callback   *)
(* accepted when it was pushed: for a POST_USER_DATA message that is the   *)
(* callback itself, for the others it only records their place.            *)
(***************************************************************************)
EXTENDS Naturals, Sequences, FiniteSets

CONSTANTS MaxPosts,          \* bound on the calls of PostMsg
          MaxExits,          \* bound on the calls of ExitThread
          MaxPendingTimers   \* bound on the MSG_TIMER messages in the queue

ASSUME BoundsAssumption ==
    /\ MaxPosts \in Nat
    /\ MaxExits \in Nat
    /\ MaxPendingTimers \in Nat

VARIABLES m_thread,     \* m_thread is not null
          m_queue,      \* the messages pushed and not yet popped
          m_timerExit,  \* the flag TimerThread polls
          process,      \* where the worker thread is in Process()
          timer,        \* where the timer thread is in TimerThread()
          owner,        \* what the thread that owns the object is doing
          used,         \* a thread has used the object after its destructor
          accepted,     \* how many callbacks PostMsg has accepted
          lastRun,      \* the callback that was started last
          exits         \* how many times ExitThread was called

vars == <<m_thread, m_queue, m_timerExit, process, timer, owner, used,
          accepted, lastRun, exits>>

MsgType == {"POST_USER_DATA", "TIMER", "EXIT_THREAD"}

ThreadMsg == [type : MsgType, n : Nat]

ProcessState == {"none",      \* CreateThread was not called
                 "start",     \* the thread was created, Process() has not begun
                 "fetch",     \* about to take the mutex and look at the queue
                 "wait",      \* inside m_cv.wait
                 "callback",  \* inside msg->_callbackFnc()
                 "join",      \* inside timerThread.join()
                 "drain",     \* about to empty the queue
                 "exited"}    \* Process() has returned

TimerState == {"none", "check", "sleep", "done"}

OwnerState == {"alive",      \* the destructor has not begun
               "joining",    \* inside m_thread->join()
               "destroyed",  \* the destructor has returned
               "leaked"}     \* it has returned, but its join() has thrown

TypeOK ==
    /\ m_thread \in BOOLEAN
    /\ m_queue \in Seq(ThreadMsg)
    /\ m_timerExit \in BOOLEAN
    /\ process \in ProcessState
    /\ timer \in TimerState
    /\ owner \in OwnerState
    /\ used \in BOOLEAN
    /\ accepted \in Nat
    /\ lastRun \in Nat
    /\ exits \in Nat

\* m_timerExit is a std::atomic<bool> that nothing initialises before
\* Process() stores to it: it may hold either value.
Init ==
    /\ m_thread = FALSE
    /\ m_queue = <<>>
    /\ m_timerExit \in BOOLEAN
    /\ process = "none"
    /\ timer = "none"
    /\ owner = "alive"
    /\ used = FALSE
    /\ accepted = 0
    /\ lastRun = 0
    /\ exits = 0

-----------------------------------------------------------------------------
(* Operations of the object, called by any thread.                         *)

ObjectExists == owner \in {"alive", "joining"}

IsUser(msg) == msg.type = "POST_USER_DATA"

\* Mutant of Push: m_cv.notify_one is forgotten.
Push_NoNotify(msg) ==
    /\ m_queue' = Append(m_queue, msg)
    /\ UNCHANGED process

\* m_queue.push followed by m_cv.notify_one, both under m_mutex.  Only the
\* worker thread ever waits on m_cv.
Push(msg) ==
    /\ m_queue' = Append(m_queue, msg)
    /\ process' = IF process = "wait" THEN "fetch" ELSE process

\* A second call finds m_thread set and does nothing.
CreateThread ==
    /\ owner = "alive"
    /\ ~m_thread
    /\ m_thread' = TRUE
    /\ process' = "start"
    /\ UNCHANGED <<m_queue, m_timerExit, timer, owner, used, accepted, lastRun, exits>>

\* Mutant of PostMsg: the message goes to the front of the queue.
PostMsg_Front ==
    /\ ObjectExists
    /\ accepted < MaxPosts
    /\ accepted' = accepted + 1
    /\ m_queue' = <<[type |-> "POST_USER_DATA", n |-> accepted + 1]>> \o m_queue
    /\ process' = IF process = "wait" THEN "fetch" ELSE process
    /\ UNCHANGED <<m_thread, m_timerExit, timer, owner, used, lastRun, exits>>

PostMsg ==
    /\ ObjectExists
    /\ accepted < MaxPosts
    /\ accepted' = accepted + 1
    /\ Push([type |-> "POST_USER_DATA", n |-> accepted + 1])
    /\ UNCHANGED <<m_thread, m_timerExit, timer, owner, used, lastRun, exits>>

\* Mutant of ExitThread: the type of the message is not initialised.
ExitThread_NoType ==
    /\ ObjectExists
    /\ exits < MaxExits
    /\ exits' = exits + 1
    /\ \E type \in MsgType \cup {"garbage"} : Push([type |-> type, n |-> accepted])
    /\ UNCHANGED <<m_thread, m_timerExit, timer, owner, used, accepted, lastRun>>

\* Mutant of ExitThread: the exit request overtakes what is queued.
ExitThread_Front ==
    /\ ObjectExists
    /\ exits < MaxExits
    /\ exits' = exits + 1
    /\ m_queue' = <<[type |-> "EXIT_THREAD", n |-> accepted]>> \o m_queue
    /\ process' = IF process = "wait" THEN "fetch" ELSE process
    /\ UNCHANGED <<m_thread, m_timerExit, timer, owner, used, accepted, lastRun>>

ExitThread ==
    /\ ObjectExists
    /\ exits < MaxExits
    /\ exits' = exits + 1
    /\ Push([type |-> "EXIT_THREAD", n |-> accepted])
    /\ UNCHANGED <<m_thread, m_timerExit, timer, owner, used, accepted, lastRun>>

\* The destructor, run by a thread other than the worker, joins the worker
\* thread if there is one.
BeginDestructor ==
    /\ owner = "alive"
    /\ owner' = IF m_thread THEN "joining" ELSE "destroyed"
    /\ UNCHANGED <<m_thread, m_queue, m_timerExit, process, timer,
                   used, accepted, lastRun, exits>>

\* join() returns once Process() has.
EndDestructor ==
    /\ owner = "joining"
    /\ process = "exited"
    /\ owner' = "destroyed"
    /\ UNCHANGED <<m_thread, m_queue, m_timerExit, process, timer,
                   used, accepted, lastRun, exits>>

\* The destructor, run by a callback and so by the worker itself: a thread
\* cannot join itself, join() throws, and the exception is swallowed.  The
\* destructor returns with both threads running and m_thread not deleted.
DestructorOnWorker ==
    /\ owner = "alive"
    /\ process = "callback"
    /\ owner' = "leaked"
    /\ UNCHANGED <<m_thread, m_queue, m_timerExit, process, timer,
                   used, accepted, lastRun, exits>>

-----------------------------------------------------------------------------
(* The worker thread: Process().                                           *)

StartProcess ==
    /\ process = "start"
    /\ m_timerExit' = FALSE
    /\ timer' = "check"
    /\ process' = "fetch"
    /\ UNCHANGED <<m_thread, m_queue, owner, used, accepted, lastRun, exits>>

WaitForMsg ==
    /\ process = "fetch"
    /\ m_queue = <<>>
    /\ process' = "wait"
    /\ UNCHANGED <<m_thread, m_queue, m_timerExit, timer, owner, used,
                   accepted, lastRun, exits>>

SpuriousWakeup ==
    /\ ObjectExists
    /\ process = "wait"
    /\ process' = "fetch"
    /\ UNCHANGED <<m_thread, m_queue, m_timerExit, timer, owner, used,
                   accepted, lastRun, exits>>

\* The front of the queue is popped under the mutex and dispatched on its
\* type; the switch touches nothing that another thread sees before the
\* callback starts or m_timerExit is stored.
PopFront(type) ==
    /\ process = "fetch"
    /\ m_queue # <<>>
    /\ Head(m_queue).type = type
    /\ m_queue' = Tail(m_queue)

HandleUserData ==
    /\ PopFront("POST_USER_DATA")
    /\ lastRun' = Head(m_queue).n
    /\ process' = "callback"
    /\ UNCHANGED <<m_thread, m_timerExit, timer, owner, used, accepted, exits>>

CallbackReturns ==
    /\ process = "callback"
    /\ process' = "fetch"
    /\ UNCHANGED <<m_thread, m_queue, m_timerExit, timer, owner, used,
                   accepted, lastRun, exits>>

\* Mutant of HandleTimer: a pending timer message swallows the message after
\* it.
HandleTimer_PopsTwo ==
    /\ process = "fetch"
    /\ m_queue # <<>>
    /\ Head(m_queue).type = "TIMER"
    /\ m_queue' = IF Len(m_queue) > 1 THEN Tail(Tail(m_queue)) ELSE <<>>
    /\ UNCHANGED <<m_thread, m_timerExit, process, timer, owner, used,
                   accepted, lastRun, exits>>

HandleTimer ==
    /\ PopFront("TIMER")
    /\ UNCHANGED <<m_thread, m_timerExit, process, timer, owner, used,
                   accepted, lastRun, exits>>

\* Mutant of HandleExit: the timer thread is not told to end.
HandleExit_NoTimerExit ==
    /\ PopFront("EXIT_THREAD")
    /\ process' = "join"
    /\ UNCHANGED <<m_thread, m_timerExit, timer, owner, used, accepted, lastRun, exits>>

HandleExit ==
    /\ PopFront("EXIT_THREAD")
    /\ m_timerExit' = TRUE
    /\ process' = "join"
    /\ UNCHANGED <<m_thread, timer, owner, used, accepted, lastRun, exits>>

\* Mutant of JoinTimerThread: the timer thread is detached, not joined.
JoinTimerThread_Detached ==
    /\ process = "join"
    /\ process' = "drain"
    /\ UNCHANGED <<m_thread, m_queue, m_timerExit, timer, owner, used,
                   accepted, lastRun, exits>>

JoinTimerThread ==
    /\ process = "join"
    /\ timer = "done"
    /\ process' = "drain"
    /\ UNCHANGED <<m_thread, m_queue, m_timerExit, timer, owner, used,
                   accepted, lastRun, exits>>

\* Everything still queued is deleted under the mutex, then Process returns.
DrainQueue ==
    /\ process = "drain"
    /\ m_queue' = <<>>
    /\ process' = "exited"
    /\ UNCHANGED <<m_thread, m_timerExit, timer, owner, used, accepted, lastRun, exits>>

-----------------------------------------------------------------------------
(* The timer thread: TimerThread().                                        *)

TimerCheck ==
    /\ timer = "check"
    /\ timer' = IF m_timerExit THEN "done" ELSE "sleep"
    /\ UNCHANGED <<m_thread, m_queue, m_timerExit, process, owner, used,
                   accepted, lastRun, exits>>

PendingTimers == {i \in DOMAIN m_queue : m_queue[i].type = "TIMER"}

\* The sleep ends and a MSG_TIMER is pushed.  The flag is not looked at again
\* before the push, so one more message may follow the exit request.  The
\* bound does not apply then: it would keep the thread from being joined.
TimerPush ==
    /\ timer = "sleep"
    /\ m_timerExit \/ Cardinality(PendingTimers) < MaxPendingTimers
    /\ Push([type |-> "TIMER", n |-> accepted])
    /\ timer' = "check"
    /\ UNCHANGED <<m_thread, m_timerExit, owner, used, accepted, lastRun, exits>>

-----------------------------------------------------------------------------

WorkerRuns == process \notin {"none", "exited"}

TimerRuns == timer \notin {"none", "done"}

\* A thread that still runs goes on with m_queue, m_mutex or m_timerExit of an
\* object that is gone.  What that does is undefined: the model records it and
\* says nothing of what follows.
UseAfterDestruction ==
    /\ ~ObjectExists
    /\ WorkerRuns \/ TimerRuns
    /\ used' = TRUE
    /\ UNCHANGED <<m_thread, m_queue, m_timerExit, process, timer, owner,
                   accepted, lastRun, exits>>

Owner == CreateThread \/ BeginDestructor \/ EndDestructor \/ DestructorOnWorker

Caller == PostMsg \/ ExitThread

Process ==
    /\ ObjectExists
    /\ \/ StartProcess
       \/ WaitForMsg
       \/ HandleUserData
       \/ CallbackReturns
       \/ HandleTimer
       \/ HandleExit
       \/ JoinTimerThread
       \/ DrainQueue

TimerThread == ObjectExists /\ (TimerCheck \/ TimerPush)

\* The object is gone: either both threads have ended, or nothing is known of
\* what they do.
Terminated == ~ObjectExists /\ UNCHANGED vars

Next ==
    \/ Owner
    \/ Caller
    \/ Process
    \/ SpuriousWakeup
    \/ TimerThread
    \/ UseAfterDestruction
    \/ Terminated

Spec == Init /\ [][Next]_vars

\* The scheduler runs both threads and callbacks return; the destructor's
\* join returns once the thread has ended.  Nobody is obliged to post, to
\* call ExitThread or to destroy the object.
Fairness ==
    /\ WF_vars(Process)
    /\ WF_vars(TimerThread)
    /\ WF_vars(EndDestructor)

FairSpec == Spec /\ Fairness

-----------------------------------------------------------------------------
(* Properties.                                                             *)

\* The worker thread has not taken an exit message.
Open == process \notin {"join", "drain", "exited"}

\* The worker never sleeps in m_cv.wait while a message is queued: a push
\* between its test of m_queue.empty() and the wait is not missed
\* (workerthread.cpp:102-104 against 53-54, 70-71 and 86-87).
NoLostWakeup == process = "wait" => m_queue = <<>>

\* Until the exit message is taken no accepted callback disappears: each one
\* has been started or is still in the queue (workerthread.cpp:67-72, 109-110).
NoCallLost ==
    Open => \A k \in (lastRun + 1)..accepted :
              \E i \in DOMAIN m_queue :
                m_queue[i] = [type |-> "POST_USER_DATA", n |-> k]

\* When the destructor has returned from its join(), both threads have ended;
\* a thread that uses the object later is one that the destructor could not
\* join, because it ran on that very thread.
NoThreadOutlivesObject ==
    /\ owner = "destroyed" => ~WorkerRuns /\ ~TimerRuns
    /\ used => owner = "leaked"

\* Once Process() has returned the queue holds no MSG_TIMER, the one pushed
\* after the exit request included.
NoTimerMsgLeft == process = "exited" => PendingTimers = {}

\* Shutdown leaves nothing behind, unless the destructor is run by one of the
\* callbacks, where the failure of join() is swallowed: the worker has left
\* Process() and the timer thread was joined before the destructor returns,
\* although it polls m_timerExit only once per period, no thread uses the
\* object afterwards, and what a finished worker has in its queue was posted
\* too late by a caller, never by the timer (workerthread.cpp:30-40, 77-88,
\* 133-143).
CleanExit == NoThreadOutlivesObject /\ NoTimerMsgLeft

\* The exit message is taken only when every callback accepted before it has
\* been started: ExitThread is not a cancellation (workerthread.cpp:50-55,
\* 109-110, 131-133).
ExitAfterBacklog ==
    [][process = "fetch" /\ process' = "join" => lastRun = Head(m_queue).n]_vars

\* The worker thread implements the serial executor: callbacks run one at a
\* time, each once, in the order of acceptance, and none after the exit
\* message (workerthread.cpp:91-153).
Executor == INSTANCE SerialExecutor
              WITH started <- lastRun,
                   busy    <- process = "callback",
                   closed  <- ~Open

ImplementsSerialExecutor == Executor!Spec

\* A callback queued with no exit message before it or in the worker's hands
\* is eventually started, however many timer messages are queued around it,
\* unless a callback destroys the object (workerthread.cpp:97-129).
Due(k) ==
    /\ Open
    /\ \E i \in DOMAIN m_queue :
         /\ m_queue[i] = [type |-> "POST_USER_DATA", n |-> k]
         /\ \A j \in 1..(i - 1) : m_queue[j].type # "EXIT_THREAD"

DueCallsRun ==
    \A k \in 1..MaxPosts : (m_thread /\ Due(k)) ~> (lastRun >= k \/ owner = "leaked")

\* After ExitThread a created worker ends, and with it the timer thread: the
\* join of the timer inside the worker cannot deadlock with the timer's push,
\* unless a callback destroys the object.
\* So the destructor returns if ExitThread was called, before or during it
\* (workerthread.cpp:30-40, 131-143).
ShutdownCompletes ==
    /\ (m_thread /\ exits > 0) 
         ~> ((process = "exited" /\ timer = "done") \/ owner = "leaked")
    /\ (owner = "joining" /\ exits > 0) ~> (owner = "destroyed")
=============================================================================
