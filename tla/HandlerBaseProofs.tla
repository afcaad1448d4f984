-------------------------- MODULE HandlerBaseProofs --------------------------
(***************************************************************************)
(* Proofs about WorkerThread, for every value of its bounds, and about     *)
(* HandlerBase, for any calls, clients, registered signatures and depth of *)
(* nesting.  Every step of a handler is a step of its worker thread or     *)
(* leaves it alone, so that the inductive invariant of the thread (IInv)   *)
(* is a part of the one of the handler (HandlerInv).                       *)
(***************************************************************************)
EXTENDS HandlerBase, SequenceLemmas

-----------------------------------------------------------------------------
(* The worker thread: the inductive invariant.                             *)

\* Where the two threads are with respect to each other.
ThreadsInStep ==
    /\ m_thread <=> process # "none"
    /\ process \in {"none", "start"} => timer = "none"
    /\ process \in {"fetch", "wait", "callback"} =>
         timer \in {"check", "sleep"} /\ ~m_timerExit
    /\ process = "join" => timer # "none" /\ m_timerExit
    /\ process \in {"drain", "exited"} => timer = "done"

\* How much the number carried by a message exceeds the one before it.
Advance(msg) == IF IsUser(msg) THEN 1 ELSE 0

\* The numbers in the queue count the callbacks without gaps, from the one
\* that was started last to the one that was accepted last.
QueueNumbered ==
    /\ \A i \in 1..(Len(m_queue) - 1) :
         m_queue[i + 1].n = m_queue[i].n + Advance(m_queue[i + 1])
    /\ m_queue # <<>> => m_queue[Len(m_queue)].n = accepted
    /\ \A i \in 1..Len(m_queue) : m_queue[i].n <= accepted
    /\ Open => IF m_queue = <<>>
               THEN lastRun = accepted
               ELSE m_queue[1].n = lastRun + Advance(m_queue[1])

IInv ==
    /\ TypeOK
    /\ ThreadsInStep
    /\ QueueNumbered
    /\ NoLostWakeup
    /\ NoCallLost
    /\ NoThreadOutlivesObject
    /\ NoTimerMsgLeft

-----------------------------------------------------------------------------
(* What pushing and popping a message does to the numbering.               *)

\* A message pushed with the number of the last accepted callback, advanced
\* when the message is itself a callback, keeps the queue numbered.
LEMMA PushKeepsNumbering ==
    ASSUME TypeOK, QueueNumbered,
           NEW msg \in ThreadMsg,
           m_queue' = Append(m_queue, msg),
           accepted' = accepted + Advance(msg),
           msg.n = accepted',
           lastRun' = lastRun,
           Open' <=> Open
    PROVE  QueueNumbered'
<1> DEFINE q == m_queue
<1>1. /\ q \in Seq(ThreadMsg) /\ Len(q) \in Nat
      /\ Len(q') = Len(q) + 1
      /\ \A i \in 1..Len(q) : q'[i] = q[i]
      /\ q'[Len(q) + 1] = msg
      /\ q' # <<>>
  BY AppendProperties, LenProperties DEF TypeOK
<1>2. q = <<>> <=> Len(q) = 0
  BY <1>1, EmptySeq
<1>3. Advance(msg) \in Nat /\ accepted \in Nat /\ lastRun \in Nat
  BY DEF Advance, TypeOK
<1>4. ASSUME NEW i \in 1..(Len(q') - 1)
      PROVE  q'[i + 1].n = q'[i].n + Advance(q'[i + 1])
  <2>1. CASE i < Len(q)
    BY <1>1, <1>4, <2>1 DEF QueueNumbered
  <2>2. CASE i = Len(q)
    BY <1>1, <1>2, <1>3, <1>4, <2>2 DEF QueueNumbered
  <2> QED
    BY <1>1, <1>4, <2>1, <2>2
<1>5. q'[Len(q')].n = accepted'
  BY <1>1
<1>6. ASSUME Open'
      PROVE  q'[1].n = lastRun' + Advance(q'[1])
  BY <1>1, <1>2, <1>3, <1>6 DEF QueueNumbered
<1>7. ASSUME NEW i \in 1..Len(q')
      PROVE  q'[i].n <= accepted'
  <2>1. CASE i <= Len(q)
    <3>1. i \in 1..Len(q)
      BY <1>1, <1>7, <2>1
    <3>2. q[i] \in ThreadMsg
      BY <1>1, <3>1, ElementOfSeq
    <3>3. q[i].n \in Nat /\ q[i].n <= accepted
      BY <3>1, <3>2 DEF QueueNumbered, ThreadMsg
    <3> QED
      BY <1>1, <1>3, <1>7, <2>1, <3>3
  <2>2. CASE i = Len(q) + 1
    BY <1>1, <1>3, <2>2
  <2> QED
    BY <1>1, <1>7, <2>1, <2>2
<1> QED
  BY <1>1, <1>4, <1>5, <1>6, <1>7 DEF QueueNumbered, Advance, IsUser

\* Popping the front leaves the rest numbered, and continuing from the number
\* of the popped message.
LEMMA PopKeepsNumbering ==
    ASSUME TypeOK, QueueNumbered, Open,
           m_queue # <<>>,
           m_queue' = Tail(m_queue),
           accepted' = accepted,
           lastRun' = lastRun + Advance(m_queue[1])
    PROVE  QueueNumbered'
<1> DEFINE q == m_queue
<1>1. /\ q \in Seq(ThreadMsg) /\ Len(q) \in Nat /\ Len(q) > 0
      /\ q' \in Seq(ThreadMsg)
      /\ Len(q') = Len(q) - 1
      /\ \A i \in 1..Len(q') : q'[i] = q[i + 1]
  BY HeadTailProperties, LenProperties, EmptySeq DEF TypeOK
<1>2. q' = <<>> <=> Len(q') = 0
  BY <1>1, EmptySeq
<1>3. q[1].n = lastRun'
  BY DEF QueueNumbered
<1>4. ASSUME NEW i \in 1..(Len(q') - 1)
      PROVE  q'[i + 1].n = q'[i].n + Advance(q'[i + 1])
  BY <1>1, <1>4 DEF QueueNumbered
<1>5. q' # <<>> => q'[Len(q')].n = accepted'
  BY <1>1, <1>2 DEF QueueNumbered
<1>6. IF q' = <<>> THEN lastRun' = accepted'
      ELSE q'[1].n = lastRun' + Advance(q'[1])
  <2>1. CASE q' = <<>>
    BY <1>1, <1>2, <1>3, <2>1 DEF QueueNumbered
  <2>2. CASE q' # <<>>
    BY <1>1, <1>2, <1>3, <2>2 DEF QueueNumbered
  <2> QED
    BY <2>1, <2>2
<1>7. \A i \in 1..Len(q') : q'[i].n <= accepted'
  BY <1>1 DEF QueueNumbered
<1> QED
  BY <1>4, <1>5, <1>6, <1>7 DEF QueueNumbered, Advance, IsUser

\* A push keeps every callback that was accepted and not started queued.
LEMMA PushKeepsCalls ==
    ASSUME TypeOK, NoCallLost,
           NEW msg \in ThreadMsg,
           m_queue' = Append(m_queue, msg),
           \/ accepted' = accepted
           \/ /\ accepted' = accepted + 1
              /\ msg = [type |-> "POST_USER_DATA", n |-> accepted + 1],
           lastRun' = lastRun,
           Open' <=> Open
    PROVE  NoCallLost'
<1> SUFFICES ASSUME Open', NEW k \in (lastRun' + 1)..accepted'
             PROVE  \E i \in DOMAIN m_queue' :
                      m_queue'[i] = [type |-> "POST_USER_DATA", n |-> k]
  BY DEF NoCallLost
<1>1. /\ Len(m_queue) \in Nat
      /\ DOMAIN m_queue = 1..Len(m_queue)
      /\ DOMAIN m_queue' = 1..(Len(m_queue) + 1)
      /\ \A i \in 1..Len(m_queue) : m_queue'[i] = m_queue[i]
      /\ m_queue'[Len(m_queue) + 1] = msg
  BY AppendProperties, LenProperties DEF TypeOK
<1>2. CASE k <= accepted
  <2>1. PICK i \in DOMAIN m_queue :
          m_queue[i] = [type |-> "POST_USER_DATA", n |-> k]
    BY <1>2 DEF NoCallLost, TypeOK
  <2> QED
    BY <1>1, <2>1
<1>3. CASE k > accepted
  <2>1. msg = [type |-> "POST_USER_DATA", n |-> k]
    BY <1>3 DEF TypeOK
  <2> QED
    BY <1>1, <2>1
<1> QED
  BY <1>2, <1>3 DEF TypeOK

\* A pop only removes the callback that it starts.
LEMMA PopKeepsCalls ==
    ASSUME TypeOK, QueueNumbered, NoCallLost, Open,
           m_queue # <<>>,
           m_queue' = Tail(m_queue),
           accepted' = accepted,
           lastRun' = lastRun + Advance(m_queue[1])
    PROVE  NoCallLost'
<1> SUFFICES ASSUME NEW k \in (lastRun' + 1)..accepted'
             PROVE  \E i \in DOMAIN m_queue' :
                      m_queue'[i] = [type |-> "POST_USER_DATA", n |-> k]
  BY DEF NoCallLost
<1>1. /\ Len(m_queue) \in Nat /\ Len(m_queue) > 0
      /\ DOMAIN m_queue = 1..Len(m_queue)
      /\ DOMAIN m_queue' = 1..(Len(m_queue) - 1)
      /\ \A i \in 1..(Len(m_queue) - 1) : m_queue'[i] = m_queue[i + 1]
  BY HeadTailProperties, LenProperties, EmptySeq DEF TypeOK
<1>2. k \in (lastRun + 1)..accepted
  BY DEF Advance, TypeOK
<1>3. PICK i \in DOMAIN m_queue :
        m_queue[i] = [type |-> "POST_USER_DATA", n |-> k]
  BY <1>2 DEF NoCallLost
<1>4. i # 1
  <2>1. m_queue[1].n = lastRun'
    BY DEF QueueNumbered
  <2> QED
    BY <1>3, <2>1 DEF TypeOK, Advance
<1>5. i - 1 \in DOMAIN m_queue' /\ m_queue'[i - 1] = m_queue[i]
  BY <1>1, <1>4
<1> QED
  BY <1>3, <1>5

-----------------------------------------------------------------------------
(* The invariant holds initially and every step preserves it.              *)

\* Before CreateThread there are no threads and no messages.
LEMMA InitIInv == Init => IInv
<1> SUFFICES ASSUME Init PROVE IInv
  OBVIOUS
<1>1. m_queue \in Seq(ThreadMsg) /\ Len(m_queue) = 0
  BY EmptySeq DEF Init
<1>2. TypeOK /\ ThreadsInStep
  BY <1>1 DEF Init, TypeOK, ThreadsInStep, ProcessState, TimerState, OwnerState
<1>3. QueueNumbered /\ NoCallLost
  BY <1>1 DEF Init, QueueNumbered, NoCallLost, Open
<1>4. NoLostWakeup /\ NoThreadOutlivesObject /\ NoTimerMsgLeft
  BY DEF Init, NoLostWakeup, NoThreadOutlivesObject, NoTimerMsgLeft, WorkerRuns, TimerRuns
<1> QED
  BY <1>2, <1>3, <1>4 DEF IInv

\* A step that pushes a message: PostMsg, ExitThread and TimerPush.
LEMMA PushPreserves ==
    ASSUME IInv,
           NEW msg \in ThreadMsg,
           Push(msg),
           accepted' = accepted + Advance(msg),
           msg.n = accepted',
           lastRun' = lastRun
    PROVE  /\ m_queue' \in Seq(ThreadMsg)
           /\ accepted' \in Nat
           /\ process' \in ProcessState
           /\ QueueNumbered' /\ NoCallLost' /\ NoLostWakeup'
<1>1. Open' <=> Open
  BY DEF Push, Open
<1>2. m_queue' \in Seq(ThreadMsg) /\ accepted' \in Nat /\ process' \in ProcessState
  BY AppendProperties DEF IInv, TypeOK, Push, Advance, ProcessState
<1>3. QueueNumbered'
  BY <1>1, PushKeepsNumbering DEF IInv, Push
<1>4. \/ accepted' = accepted
      \/ /\ accepted' = accepted + 1
         /\ msg = [type |-> "POST_USER_DATA", n |-> accepted + 1]
  BY DEF Advance, IsUser, ThreadMsg, IInv, TypeOK
<1>5. NoCallLost'
  BY <1>1, <1>4, PushKeepsCalls DEF IInv, Push
<1>6. NoLostWakeup'
  BY DEF Push, NoLostWakeup
<1> QED
  BY <1>2, <1>3, <1>5, <1>6

\* A step that pops the front of the queue: the four cases of the switch.
LEMMA PopPreserves ==
    ASSUME IInv,
           NEW type, PopFront(type),
           accepted' = accepted,
           lastRun' = lastRun + Advance(m_queue[1])
    PROVE  /\ m_queue' \in Seq(ThreadMsg)
           /\ lastRun' \in Nat
           /\ QueueNumbered' /\ NoCallLost'
<1>1. m_queue # <<>> /\ m_queue' = Tail(m_queue) /\ Open
  BY DEF PopFront, Open
<1>2. m_queue' \in Seq(ThreadMsg) /\ lastRun' \in Nat
  BY <1>1, HeadTailProperties DEF IInv, TypeOK, Advance
<1>3. QueueNumbered' /\ NoCallLost'
  BY <1>1, PopKeepsNumbering, PopKeepsCalls DEF IInv
<1> QED
  BY <1>2, <1>3

\* The message popped by a case of the switch, and the number it carries.
LEMMA FrontOfQueue ==
    ASSUME IInv, NEW type, PopFront(type)
    PROVE  /\ m_queue[1].type = type
           /\ Head(m_queue) = m_queue[1]
           /\ m_queue[1].n = lastRun + Advance(m_queue[1])
           /\ type = "POST_USER_DATA" => Advance(m_queue[1]) = 1
           /\ type # "POST_USER_DATA" => Advance(m_queue[1]) = 0
<1>1. Head(m_queue) = m_queue[1]
  BY DEF IInv, TypeOK, PopFront
<1>2. Open /\ m_queue # <<>>
  BY DEF PopFront, Open
<1> QED
  BY <1>1, <1>2 DEF IInv, QueueNumbered, PopFront, Advance, IsUser

\* Pushing anything but a timer message leaves no timer message behind in the
\* queue of a thread that has ended.
LEMMA PushOfNoTimer ==
    ASSUME TypeOK, NoTimerMsgLeft,
           NEW msg \in ThreadMsg, msg.type # "TIMER", Push(msg)
    PROVE  NoTimerMsgLeft'
<1>1. /\ Len(m_queue) \in Nat
      /\ DOMAIN m_queue = 1..Len(m_queue)
      /\ DOMAIN m_queue' = 1..(Len(m_queue) + 1)
      /\ \A i \in 1..Len(m_queue) : m_queue'[i] = m_queue[i]
      /\ m_queue'[Len(m_queue) + 1] = msg
  BY AppendProperties, LenProperties DEF TypeOK, Push
<1>2. process' = "exited" => process = "exited"
  BY DEF Push
<1> QED
  BY <1>1, <1>2 DEF NoTimerMsgLeft, PendingTimers

\* A step that leaves the queue alone and neither closes nor reopens the
\* worker keeps the parts of the invariant that are about the queue.
LEMMA UnchangedQueue ==
    ASSUME IInv,
           UNCHANGED <<m_queue, accepted, lastRun>>,
           \/ process' = process
           \/ /\ Open' <=> Open
              /\ process' # "exited"
              /\ process' = "wait" => m_queue = <<>>
    PROVE  QueueNumbered' /\ NoCallLost' /\ NoLostWakeup' /\ NoTimerMsgLeft'
<1>1. Open' <=> Open
  BY DEF Open
<1>2. QueueNumbered' /\ NoCallLost'
  BY <1>1 DEF IInv, QueueNumbered, NoCallLost, Advance, IsUser
<1>3. NoLostWakeup' /\ NoTimerMsgLeft'
  BY DEF IInv, NoLostWakeup, NoTimerMsgLeft, PendingTimers
<1> QED
  BY <1>2, <1>3

\* Every step keeps the invariant.
LEMMA NextIInv == IInv /\ [Next]_vars => IInv'
<1> SUFFICES ASSUME IInv, [Next]_vars PROVE IInv'
  OBVIOUS
<1> USE DEF IInv
<1>1. CASE CreateThread
  <2>1. TypeOK' /\ ThreadsInStep'
    BY <1>1 DEF CreateThread, TypeOK, ThreadsInStep, ProcessState
  <2>2. Open' /\ Open
    BY <1>1 DEF CreateThread, Open, ThreadsInStep
  <2>3. QueueNumbered' /\ NoCallLost'
    BY <1>1, <2>2 DEF CreateThread, QueueNumbered, NoCallLost, Advance, IsUser
  <2> QED
    BY <1>1, <2>1, <2>3 DEF CreateThread, NoLostWakeup, NoThreadOutlivesObject,
                            NoTimerMsgLeft, WorkerRuns, TimerRuns
<1>2. CASE PostMsg
  <2> DEFINE msg == [type |-> "POST_USER_DATA", n |-> accepted + 1]
  <2>1. msg \in ThreadMsg /\ Advance(msg) = 1
    BY DEF ThreadMsg, MsgType, TypeOK, Advance, IsUser
  <2>2. /\ Push(msg) /\ accepted' = accepted + Advance(msg)
        /\ msg.n = accepted' /\ lastRun' = lastRun
    BY <1>2, <2>1 DEF PostMsg
  <2>3. /\ m_queue' \in Seq(ThreadMsg) /\ accepted' \in Nat
        /\ process' \in ProcessState
        /\ QueueNumbered' /\ NoCallLost' /\ NoLostWakeup'
    BY <2>1, <2>2, PushPreserves
  <2>4. TypeOK' /\ ThreadsInStep'
    BY <1>2, <2>2, <2>3 DEF PostMsg, Push, TypeOK, ThreadsInStep
  <2>5. NoThreadOutlivesObject'
    BY <1>2 DEF PostMsg, Push, ObjectExists, NoThreadOutlivesObject, WorkerRuns, TimerRuns
  <2>6. NoTimerMsgLeft'
    BY <1>2, <2>1, <2>2, PushOfNoTimer DEF Push
  <2> QED
    BY <2>3, <2>4, <2>5, <2>6
<1>3. CASE ExitThread
  <2> DEFINE msg == [type |-> "EXIT_THREAD", n |-> accepted]
  <2>1. msg \in ThreadMsg /\ Advance(msg) = 0
    BY DEF ThreadMsg, MsgType, TypeOK, Advance, IsUser
  <2>2. /\ Push(msg) /\ accepted' = accepted + Advance(msg)
        /\ msg.n = accepted' /\ lastRun' = lastRun
    BY <1>3, <2>1 DEF ExitThread, TypeOK
  <2>3. /\ m_queue' \in Seq(ThreadMsg) /\ accepted' \in Nat
        /\ process' \in ProcessState
        /\ QueueNumbered' /\ NoCallLost' /\ NoLostWakeup'
    BY <2>1, <2>2, PushPreserves
  <2>4. TypeOK' /\ ThreadsInStep'
    BY <1>3, <2>2, <2>3 DEF ExitThread, Push, TypeOK, ThreadsInStep
  <2>5. NoThreadOutlivesObject'
    BY <1>3 DEF ExitThread, Push, ObjectExists, NoThreadOutlivesObject, WorkerRuns,
                TimerRuns
  <2>6. NoTimerMsgLeft'
    BY <2>1, <2>2, PushOfNoTimer
  <2> QED
    BY <2>3, <2>4, <2>5, <2>6
<1>4. CASE BeginDestructor
  <2>1. TypeOK' /\ ThreadsInStep'
    BY <1>4 DEF BeginDestructor, TypeOK, ThreadsInStep, OwnerState
  <2>2. NoThreadOutlivesObject'
    BY <1>4 DEF BeginDestructor, NoThreadOutlivesObject, ThreadsInStep, WorkerRuns,
                TimerRuns
  <2> QED
    BY <1>4, <2>1, <2>2, UnchangedQueue DEF BeginDestructor
<1>5. CASE EndDestructor
  <2>1. TypeOK' /\ ThreadsInStep'
    BY <1>5 DEF EndDestructor, TypeOK, ThreadsInStep, OwnerState
  <2>2. NoThreadOutlivesObject'
    BY <1>5 DEF EndDestructor, NoThreadOutlivesObject, ThreadsInStep, WorkerRuns, TimerRuns
  <2> QED
    BY <1>5, <2>1, <2>2, UnchangedQueue DEF EndDestructor
<1>6. CASE StartProcess
  <2>1. TypeOK' /\ ThreadsInStep'
    BY <1>6 DEF StartProcess, TypeOK, ThreadsInStep, ProcessState, TimerState
  <2>2. NoThreadOutlivesObject'
    BY <1>6 DEF StartProcess, NoThreadOutlivesObject, WorkerRuns, TimerRuns
  <2>3. Open /\ Open' /\ process' = "fetch"
    BY <1>6 DEF StartProcess, Open
  <2> QED
    BY <1>6, <2>1, <2>2, <2>3, UnchangedQueue DEF StartProcess
<1>7. CASE WaitForMsg
  <2>1. TypeOK' /\ ThreadsInStep'
    BY <1>7 DEF WaitForMsg, TypeOK, ThreadsInStep, ProcessState
  <2>2. NoThreadOutlivesObject'
    BY <1>7 DEF WaitForMsg, NoThreadOutlivesObject, WorkerRuns, TimerRuns
  <2>3. Open /\ Open' /\ NoLostWakeup'
    BY <1>7 DEF WaitForMsg, Open, NoLostWakeup
  <2> QED
    BY <1>7, <2>1, <2>2, <2>3, UnchangedQueue DEF WaitForMsg
<1>8. CASE SpuriousWakeup
  <2>1. TypeOK' /\ ThreadsInStep'
    BY <1>8 DEF SpuriousWakeup, TypeOK, ThreadsInStep, ProcessState
  <2>2. NoThreadOutlivesObject'
    BY <1>8 DEF SpuriousWakeup, NoThreadOutlivesObject, WorkerRuns, TimerRuns
  <2>3. Open /\ Open' /\ process' = "fetch"
    BY <1>8 DEF SpuriousWakeup, Open
  <2> QED
    BY <1>8, <2>1, <2>2, <2>3, UnchangedQueue DEF SpuriousWakeup
<1>9. CASE HandleUserData
  <2>1. PopFront("POST_USER_DATA") /\ lastRun' = Head(m_queue).n /\ accepted' = accepted
    BY <1>9 DEF HandleUserData
  <2>2. lastRun' = lastRun + Advance(m_queue[1])
    BY <2>1, FrontOfQueue
  <2>3. /\ m_queue' \in Seq(ThreadMsg) /\ lastRun' \in Nat
        /\ QueueNumbered' /\ NoCallLost'
    BY <2>1, <2>2, PopPreserves
  <2>4. TypeOK' /\ ThreadsInStep'
    BY <1>9, <2>3 DEF HandleUserData, PopFront, TypeOK, ThreadsInStep, ProcessState
  <2>5. NoLostWakeup' /\ NoThreadOutlivesObject' /\ NoTimerMsgLeft'
    BY <1>9 DEF HandleUserData, PopFront, NoLostWakeup, NoThreadOutlivesObject,
                NoTimerMsgLeft, WorkerRuns, TimerRuns
  <2> QED
    BY <2>3, <2>4, <2>5
<1>10. CASE CallbackReturns
  <2>1. TypeOK' /\ ThreadsInStep'
    BY <1>10 DEF CallbackReturns, TypeOK, ThreadsInStep, ProcessState
  <2>2. NoThreadOutlivesObject'
    BY <1>10 DEF CallbackReturns, NoThreadOutlivesObject, WorkerRuns, TimerRuns
  <2>3. Open /\ Open' /\ process' = "fetch"
    BY <1>10 DEF CallbackReturns, Open
  <2> QED
    BY <1>10, <2>1, <2>2, <2>3, UnchangedQueue DEF CallbackReturns
<1>11. CASE HandleTimer
  <2>1. PopFront("TIMER") /\ lastRun' = lastRun /\ accepted' = accepted
    BY <1>11 DEF HandleTimer
  <2>2. lastRun' = lastRun + Advance(m_queue[1])
    BY <2>1, FrontOfQueue DEF TypeOK
  <2>3. /\ m_queue' \in Seq(ThreadMsg) /\ lastRun' \in Nat
        /\ QueueNumbered' /\ NoCallLost'
    BY <2>1, <2>2, PopPreserves
  <2>4. TypeOK' /\ ThreadsInStep'
    BY <1>11, <2>3 DEF HandleTimer, PopFront, TypeOK, ThreadsInStep
  <2>5. NoLostWakeup' /\ NoThreadOutlivesObject' /\ NoTimerMsgLeft'
    BY <1>11 DEF HandleTimer, PopFront, NoLostWakeup, NoThreadOutlivesObject,
                 NoTimerMsgLeft, WorkerRuns, TimerRuns
  <2> QED
    BY <2>3, <2>4, <2>5
<1>12. CASE HandleExit
  <2>1. PopFront("EXIT_THREAD") /\ lastRun' = lastRun /\ accepted' = accepted
    BY <1>12 DEF HandleExit
  <2>2. lastRun' = lastRun + Advance(m_queue[1])
    BY <2>1, FrontOfQueue DEF TypeOK
  <2>3. /\ m_queue' \in Seq(ThreadMsg)
        /\ QueueNumbered' /\ NoCallLost'
    BY <2>1, <2>2, PopPreserves
  <2>4. TypeOK' /\ ThreadsInStep'
    BY <1>12, <2>3 DEF HandleExit, PopFront, TypeOK, ThreadsInStep, ProcessState
  <2>5. NoLostWakeup' /\ NoThreadOutlivesObject' /\ NoTimerMsgLeft'
    BY <1>12 DEF HandleExit, PopFront, NoLostWakeup, NoThreadOutlivesObject,
                 NoTimerMsgLeft, WorkerRuns, TimerRuns
  <2> QED
    BY <2>3, <2>4, <2>5
<1>13. CASE JoinTimerThread
  <2>1. TypeOK' /\ ThreadsInStep'
    BY <1>13 DEF JoinTimerThread, TypeOK, ThreadsInStep, ProcessState
  <2>2. NoThreadOutlivesObject'
    BY <1>13 DEF JoinTimerThread, NoThreadOutlivesObject, WorkerRuns, TimerRuns
  <2>3. ~Open /\ ~Open' /\ process' = "drain"
    BY <1>13 DEF JoinTimerThread, Open
  <2> QED
    BY <1>13, <2>1, <2>2, <2>3, UnchangedQueue DEF JoinTimerThread
<1>14. CASE DrainQueue
  <2>1. m_queue' \in Seq(ThreadMsg) /\ m_queue' = <<>> /\ Len(m_queue') = 0
    BY <1>14, EmptySeq DEF DrainQueue
  <2>2. TypeOK' /\ ThreadsInStep'
    BY <1>14, <2>1 DEF DrainQueue, TypeOK, ThreadsInStep, ProcessState
  <2>3. ~Open'
    BY <1>14 DEF DrainQueue, Open
  <2>4. QueueNumbered' /\ NoCallLost'
    BY <2>1, <2>3 DEF QueueNumbered, NoCallLost
  <2>5. NoTimerMsgLeft'
    BY <2>1 DEF NoTimerMsgLeft, PendingTimers
  <2>6. NoLostWakeup' /\ NoThreadOutlivesObject'
    BY <1>14 DEF DrainQueue, NoLostWakeup, NoThreadOutlivesObject, WorkerRuns, TimerRuns
  <2> QED
    BY <2>2, <2>4, <2>5, <2>6
<1>15. CASE TimerCheck
  <2>1. TypeOK' /\ ThreadsInStep'
    BY <1>15 DEF TimerCheck, TypeOK, ThreadsInStep, ProcessState, TimerState
  <2>2. NoThreadOutlivesObject'
    BY <1>15 DEF TimerCheck, NoThreadOutlivesObject, ThreadsInStep, TypeOK, ProcessState,
                 WorkerRuns, TimerRuns
  <2> QED
    BY <1>15, <2>1, <2>2, UnchangedQueue DEF TimerCheck
<1>16. CASE TimerPush
  <2> DEFINE msg == [type |-> "TIMER", n |-> accepted]
  <2>1. msg \in ThreadMsg /\ Advance(msg) = 0
    BY DEF ThreadMsg, MsgType, TypeOK, Advance, IsUser
  <2>2. /\ Push(msg) /\ accepted' = accepted + Advance(msg)
        /\ msg.n = accepted' /\ lastRun' = lastRun
    BY <1>16, <2>1 DEF TimerPush, TypeOK
  <2>3. /\ m_queue' \in Seq(ThreadMsg) /\ accepted' \in Nat
        /\ process' \in ProcessState
        /\ QueueNumbered' /\ NoCallLost' /\ NoLostWakeup'
    BY <2>1, <2>2, PushPreserves
  <2>4. TypeOK' /\ ThreadsInStep'
    BY <1>16, <2>2, <2>3 DEF TimerPush, Push, TypeOK, ThreadsInStep, TimerState,
                             ProcessState
  <2>5. process \notin {"none", "drain", "exited"}
    BY <1>16 DEF TimerPush, ThreadsInStep
  <2>6. NoThreadOutlivesObject' /\ NoTimerMsgLeft'
    BY <1>16, <2>2, <2>5 DEF TimerPush, Push, NoThreadOutlivesObject, NoTimerMsgLeft,
                             WorkerRuns, TimerRuns
  <2> QED
    BY <2>3, <2>4, <2>6
<1>17. CASE DestructorOnWorker
  <2>1. TypeOK' /\ ThreadsInStep'
    BY <1>17 DEF DestructorOnWorker, TypeOK, ThreadsInStep, OwnerState
  <2>2. NoThreadOutlivesObject'
    BY <1>17 DEF DestructorOnWorker, NoThreadOutlivesObject, WorkerRuns, TimerRuns
  <2> QED
    BY <1>17, <2>1, <2>2, UnchangedQueue DEF DestructorOnWorker
<1>18. CASE UseAfterDestruction
  <2>1. TypeOK' /\ ThreadsInStep'
    BY <1>18 DEF UseAfterDestruction, TypeOK, ThreadsInStep
  <2>2. owner = "leaked"
    BY <1>18 DEF UseAfterDestruction, ObjectExists, NoThreadOutlivesObject, TypeOK,
                 OwnerState
  <2>3. NoThreadOutlivesObject'
    BY <1>18, <2>2 DEF UseAfterDestruction, NoThreadOutlivesObject, WorkerRuns, TimerRuns
  <2> QED
    BY <1>18, <2>1, <2>3, UnchangedQueue DEF UseAfterDestruction
<1>19. CASE UNCHANGED vars
  <2>1. TypeOK' /\ ThreadsInStep' /\ NoThreadOutlivesObject'
    BY <1>19 DEF vars, TypeOK, ThreadsInStep, NoThreadOutlivesObject, WorkerRuns, TimerRuns
  <2> QED
    BY <1>19, <2>1, UnchangedQueue DEF vars
<1> QED
  BY <1>1, <1>2, <1>3, <1>4, <1>5, <1>6, <1>7, <1>8, <1>9, <1>10, <1>11,
     <1>12, <1>13, <1>14, <1>15, <1>16, <1>17,
     <1>18, <1>19
     DEF Next, Owner, Caller, Process, TimerThread, Terminated

-----------------------------------------------------------------------------
(* The worker thread: theorems.                                            *)

\* The strengthened invariant holds in every reachable state.
THEOREM Invariance == Spec => []IInv
  BY InitIInv, NextIInv, PTL DEF Spec

\* Every variable keeps its type, whatever the callers, the worker and the
\* timer thread do: in particular no message of an unknown type reaches the
\* switch of Process().
THEOREM TypeCorrect == Spec => []TypeOK
<1>1. IInv => TypeOK
  BY DEF IInv
<1> QED
  BY <1>1, Invariance, PTL

\* The worker never sleeps on a queue that holds a message.
THEOREM WakeupNotLost == Spec => []NoLostWakeup
<1>1. IInv => NoLostWakeup
  BY DEF IInv
<1> QED
  BY <1>1, Invariance, PTL

\* No accepted callback disappears before the exit message is taken.
THEOREM CallsNotLost == Spec => []NoCallLost
<1>1. IInv => NoCallLost
  BY DEF IInv
<1> QED
  BY <1>1, Invariance, PTL

\* After a destructor that could join the worker no thread of the object is
\* running, only a destructor run by a callback leaves threads that use the
\* object, and the exiting worker has freed every timer message
\* (workerthread.cpp:30-40, 77-88, 133-143).
THEOREM CleanShutdown == Spec => []CleanExit
<1>1. IInv => CleanExit
  BY DEF IInv, CleanExit
<1> QED
  BY <1>1, Invariance, PTL

\* The exit message is taken only when the backlog before it was executed.
THEOREM ExitDrainsBacklog == Spec => ExitAfterBacklog
<1>1. IInv /\ [Next]_vars =>
        [process = "fetch" /\ process' = "join" => lastRun = Head(m_queue).n]_vars
  <2> SUFFICES ASSUME IInv, Next, process = "fetch", process' = "join"
               PROVE  lastRun = Head(m_queue).n
    BY DEF vars
  <2>1. HandleExit
    BY DEF Next, Owner, Caller, Process, TimerThread, Terminated, CreateThread,
           PostMsg, ExitThread, BeginDestructor, EndDestructor,
           DestructorOnWorker, UseAfterDestruction, StartProcess,
           WaitForMsg, SpuriousWakeup, HandleUserData, CallbackReturns,
           HandleTimer, JoinTimerThread, DrainQueue, TimerCheck, TimerPush,
           Push, vars
  <2>2. PopFront("EXIT_THREAD")
    BY <2>1 DEF HandleExit
  <2> QED
    BY <2>2, FrontOfQueue DEF IInv, TypeOK
<1> QED
  BY <1>1, Invariance, PTL DEF Spec, ExitAfterBacklog

\* What a step of the worker does to the state of the serial executor.
LEMMA StepRefines ==
    ASSUME IInv, Next
    PROVE  Executor!Next \/ UNCHANGED Executor!vars
<1> DEFINE busy == process = "callback"
           closed == ~Open
<1>1. CASE PostMsg
  <2>1. accepted' = accepted + 1 /\ lastRun' = lastRun
    BY <1>1 DEF PostMsg
  <2>2. busy' = busy /\ closed' = closed
    BY <1>1 DEF PostMsg, Push, Open
  <2> QED
    BY <2>1, <2>2 DEF Executor!Next, Executor!Accept
<1>2. CASE HandleUserData
  <2>1. PopFront("POST_USER_DATA")
    BY <1>2 DEF HandleUserData
  <2>2. m_queue[1].n = lastRun + 1 /\ lastRun' = lastRun + 1
    BY <1>2, <2>1, FrontOfQueue DEF HandleUserData
  <2>3. 1 \in 1..Len(m_queue)
    BY <2>1, EmptySeq, LenProperties DEF PopFront, IInv, TypeOK
  <2>4. lastRun < accepted
    BY <2>2, <2>3 DEF IInv, QueueNumbered, TypeOK
  <2>5. ~busy /\ busy' /\ ~closed /\ closed' = closed /\ accepted' = accepted
    BY <1>2 DEF HandleUserData, PopFront, Open
  <2> QED
    BY <2>2, <2>4, <2>5 DEF Executor!Next, Executor!Start
<1>3. CASE CallbackReturns
  <2>1. busy /\ ~busy' /\ closed' = closed
    BY <1>3 DEF CallbackReturns, Open
  <2> QED
    BY <1>3, <2>1 DEF CallbackReturns, Executor!Next, Executor!Finish
<1>4. CASE HandleExit
  <2>1. busy' = busy /\ ~busy /\ ~closed /\ closed'
    BY <1>4 DEF HandleExit, PopFront, Open
  <2> QED
    BY <1>4, <2>1 DEF HandleExit, Executor!Next, Executor!Close
<1>5. CASE CreateThread \/ StartProcess \/ WaitForMsg \/ SpuriousWakeup
           \/ JoinTimerThread \/ DrainQueue \/ HandleTimer
  <2>1. busy' = busy /\ closed' = closed
    BY <1>5 DEF CreateThread, StartProcess, WaitForMsg, SpuriousWakeup,
                JoinTimerThread, DrainQueue, HandleTimer, PopFront, Open,
                IInv, ThreadsInStep
  <2>2. UNCHANGED <<accepted, lastRun>>
    BY <1>5 DEF CreateThread, StartProcess, WaitForMsg, SpuriousWakeup,
                JoinTimerThread, DrainQueue, HandleTimer
  <2> QED
    BY <2>1, <2>2 DEF Executor!vars
<1>6. CASE ExitThread \/ TimerPush
  <2>1. busy' = busy /\ closed' = closed
    BY <1>6 DEF ExitThread, TimerPush, Push, Open
  <2> QED
    BY <1>6, <2>1 DEF ExitThread, TimerPush, Executor!vars
<1>7. CASE BeginDestructor \/ EndDestructor \/ DestructorOnWorker
           \/ UseAfterDestruction \/ TimerCheck \/ Terminated
  <2>1. busy' = busy /\ closed' = closed
    BY <1>7 DEF BeginDestructor, EndDestructor, DestructorOnWorker, UseAfterDestruction,
                TimerCheck, Terminated, vars, Open
  <2> QED
    BY <1>7, <2>1 DEF BeginDestructor, EndDestructor, DestructorOnWorker,
                      UseAfterDestruction,
                      TimerCheck, Terminated, vars, Executor!vars
<1> QED
  BY <1>1, <1>2, <1>3, <1>4, <1>5, <1>6, <1>7
     DEF Next, Owner, Caller, Process, TimerThread

\* The worker thread implements the serial executor: every step of the queue
\* protocol is a step of the executor or leaves it alone.
THEOREM Refinement == Spec => ImplementsSerialExecutor
<1>1. Init => Executor!Init
  BY DEF Init, Executor!Init, Open
<1>2. IInv /\ [Next]_vars => [Executor!Next]_(Executor!vars)
  <2> SUFFICES ASSUME IInv, [Next]_vars
               PROVE  Executor!Next \/ UNCHANGED Executor!vars
    OBVIOUS
  <2>1. CASE Next
    BY <2>1, StepRefines
  <2>2. CASE UNCHANGED vars
    <3>1. (process = "callback")' = (process = "callback") /\ (~Open)' = (~Open)
      BY <2>2 DEF vars, Open
    <3> QED
      BY <2>2, <3>1 DEF vars, Executor!vars
  <2> QED
    BY <2>1, <2>2
<1> QED
  BY <1>1, <1>2, Invariance, PTL DEF Spec, ImplementsSerialExecutor, Executor!Spec

-----------------------------------------------------------------------------
(* The handler: the inductive invariant.                                   *)

\* The posted calls are the callbacks that PostMsg accepted.
CallsCounted ==
    /\ Len(calls) = accepted
    /\ lastRun <= accepted
    /\ process = "callback" => lastRun \in DOMAIN calls

\* The outermost activation executes the callback that was started last, the
\* others are nested, and each but the innermost has made its nested call.
FramesInStep ==
    /\ \A i \in DOMAIN frames :
         /\ frames[i].n = IF i = 1 THEN lastRun ELSE 0
         /\ i < Len(frames) => frames[i].nested
    /\ frames # <<>> =>
         /\ process = "callback"
         /\ frames[1].client = calls[lastRun].client
         /\ calls[lastRun].sig \in functions_

\* Only callbacks that were started are answered, and the running one is not.
AnswersInStep ==
    \A i \in DOMAIN answers :
        /\ answers[i].n <= lastRun
        /\ frames # <<>> => answers[i].n # lastRun

\* When its activation has ended, so is the call: answered if it was known.
LastCallSettled ==
    fault = "none" /\ process = "callback" /\ frames = <<>> =>
        (Answered(lastRun) <=> calls[lastRun].sig \in functions_)

HandlerInv ==
    /\ IInv
    /\ HandlerTypeOK
    /\ CallsCounted
    /\ FramesInStep
    /\ AnswersInStep
    /\ LastCallSettled
    /\ OwnNetInfo
    /\ AnswersMatchCalls
    /\ OnlyUnknownUnanswered

-----------------------------------------------------------------------------
(* The handler: the steps.                                                 *)

\* There are no calls.
LEMMA InitHandlerInv == HandlerInit => HandlerInv
<1> SUFFICES ASSUME HandlerInit PROVE HandlerInv
  OBVIOUS
<1>1. IInv
  BY InitIInv DEF HandlerInit
<1>2. calls = <<>> /\ frames = <<>> /\ answers = <<>> /\ fault = "none" /\ object = "alive"
  BY DEF HandlerInit
<1>3. accepted = 0 /\ lastRun = 0 /\ process = "none"
  BY DEF HandlerInit, Init
<1>4. HandlerTypeOK
  BY <1>1, <1>2 DEF HandlerInit, HandlerTypeOK, IInv
<1>5. DOMAIN calls = {} /\ DOMAIN frames = {} /\ DOMAIN answers = {} /\ Len(calls) = 0
  BY <1>2
<1>6. CallsCounted /\ FramesInStep /\ AnswersInStep /\ LastCallSettled
  BY <1>2, <1>3, <1>5 DEF CallsCounted, FramesInStep, AnswersInStep, LastCallSettled
<1>7. OwnNetInfo /\ AnswersMatchCalls /\ OnlyUnknownUnanswered
  BY <1>2, <1>5 DEF OwnNetInfo, AnswersMatchCalls, OnlyUnknownUnanswered
<1> QED
  BY <1>1, <1>4, <1>6, <1>7 DEF HandlerInv

\* To the worker thread, every step is one of its own steps or none.
LEMMA HandlerStepsAreWorkerSteps ==
    ASSUME HandlerNext \/ UNCHANGED <<vars, handlerVars>>
    PROVE  [Next]_vars
<1>1. CASE UNCHANGED vars
  BY <1>1
<1>2. CASE Construct
  BY <1>2 DEF Construct, Next, Owner
<1>3. ASSUME NEW c \in Call, HandleCall(c) PROVE [Next]_vars
  BY <1>3 DEF HandleCall, Next, Caller
<1>4. CASE DestroyMembers
  BY <1>4, <1>1 DEF DestroyMembers
<1>5. CASE DestroyThreadedClass
  BY <1>5 DEF DestroyThreadedClass, Next, Caller
<1>6. CASE DestroyThread
  BY <1>6 DEF DestroyThread, Next, Owner
<1>7. ASSUME NEW c \in Call, NestedCall(c) PROVE [Next]_vars
  BY <1>7, <1>1 DEF NestedCall
<1>8. CASE ObjectExists /\ Worker
  <2>1. CASE RunCall
    BY <1>8, <2>1 DEF RunCall, Next, Process
  <2>2. CASE BodyReturns
    BY <2>2, <1>1 DEF BodyReturns
  <2>3. CASE CallDone
    BY <1>8, <2>3 DEF CallDone, Next, Process
  <2>4. CASE RestOfProcess
    BY <1>8, <2>4 DEF RestOfProcess, Next, Process
  <2> QED
    BY <1>8, <2>1, <2>2, <2>3, <2>4 DEF Worker
<1>9. CASE Timer
  BY <1>9 DEF Timer, Next
<1>10. CASE SpuriousWakeup
  BY <1>10 DEF Next
<1>11. CASE UseDestroyedThread
  BY <1>11 DEF UseDestroyedThread, Next
<1> QED
  BY <1>1, <1>2, <1>3, <1>4, <1>5, <1>6, <1>7, <1>8, <1>9, <1>10, <1>11 DEF HandlerNext

\* A step that makes no call and ends none, or ends the program.
LEMMA KeptHandlerInv ==
    ASSUME HandlerInv, IInv',
           UNCHANGED <<calls, frames, answers, accepted, lastRun>>,
           process' = "callback" <=> process = "callback",
           object' \in {"alive", "members destroyed", "exiting"},
           fault' \in {"none", "terminate", "use after destruction"},
           currNetInfo_' \in DefaultNetInfo,
           fault' = "none" => fault = "none" /\ currNetInfo_' = currNetInfo_
    PROVE  HandlerInv'
<1>1. HandlerTypeOK'
  BY DEF HandlerInv, HandlerTypeOK, IInv
<1>2. CallsCounted' /\ FramesInStep' /\ AnswersInStep'
  BY DEF HandlerInv, CallsCounted, FramesInStep, AnswersInStep
<1>3. LastCallSettled'
  BY DEF HandlerInv, LastCallSettled, Answered
<1>4. OwnNetInfo' /\ AnswersMatchCalls'
  BY DEF HandlerInv, OwnNetInfo, AnswersMatchCalls
<1>5. OnlyUnknownUnanswered'
  BY DEF HandlerInv, OnlyUnknownUnanswered, Answered, Executed
<1> QED
  BY <1>1, <1>2, <1>3, <1>4, <1>5 DEF HandlerInv

\* A call from another thread is posted.
LEMMA HandleCallInv ==
    ASSUME HandlerInv, IInv', NEW c \in Call, HandleCall(c)
    PROVE  HandlerInv'
<1>1. /\ accepted' = accepted + 1 /\ calls' = Append(calls, c) /\ lastRun' = lastRun
      /\ process' = IF process = "wait" THEN "fetch" ELSE process
      /\ UNCHANGED <<frames, currNetInfo_, answers, object, fault>>
  BY DEF HandleCall, PostMsg, Push
<1>2. calls \in Seq(Call) /\ accepted \in Nat /\ lastRun \in Nat /\ lastRun <= accepted /\ Len(calls) = accepted
  BY DEF HandlerInv, HandlerTypeOK, TypeOK, CallsCounted
<1>3. calls' \in Seq(Call) /\ Len(calls') = accepted + 1
  BY <1>1, <1>2, AppendProperties
<1>4. /\ DOMAIN calls = 1..accepted /\ DOMAIN calls' = 1..(accepted + 1)
      /\ \A k \in 1..accepted : calls'[k] = calls[k]
  <2>1. DOMAIN calls = 1..Len(calls) /\ DOMAIN calls' = 1..Len(calls')
    BY <1>2, <1>3, LenProperties
  <2>2. \A k \in 1..Len(calls) : calls'[k] = calls[k]
    BY <1>1, <1>2, AppendFacts
  <2> QED
    BY <1>2, <1>3, <2>1, <2>2
<1>5. \A k \in DOMAIN calls : k \in DOMAIN calls' /\ calls'[k] = calls[k]
  BY <1>2, <1>4
<1>6. HandlerTypeOK'
  BY <1>1, <1>3 DEF HandlerInv, HandlerTypeOK, IInv
<1>7. CallsCounted'
  BY <1>1, <1>2, <1>3, <1>5 DEF HandlerInv, CallsCounted
<1>8. FramesInStep'
  BY <1>1, <1>5 DEF HandlerInv, FramesInStep, CallsCounted
<1>9. AnswersInStep' /\ OwnNetInfo'
  BY <1>1 DEF HandlerInv, AnswersInStep, OwnNetInfo
<1>10. LastCallSettled'
  <2>1. process = "callback" => lastRun \in DOMAIN calls
    BY DEF HandlerInv, CallsCounted
  <2> QED
    BY <1>1, <1>5, <2>1 DEF HandlerInv, LastCallSettled, Answered
<1>11. AnswersMatchCalls'
  BY <1>1, <1>5 DEF HandlerInv, AnswersMatchCalls
<1>12. OnlyUnknownUnanswered'
  <2> SUFFICES ASSUME fault = "none", NEW k \in DOMAIN calls', Executed(k)'
               PROVE  Answered(k) <=> calls'[k].sig \in functions_
    BY <1>1 DEF OnlyUnknownUnanswered, Answered
  <2>1. k \in DOMAIN calls /\ Executed(k)
    BY <1>1, <1>2, <1>4 DEF Executed
  <2> QED
    BY <1>5, <2>1 DEF HandlerInv, OnlyUnknownUnanswered
<1> QED
  BY <1>6, <1>7, <1>8, <1>9, <1>10, <1>11, <1>12 DEF HandlerInv
\* The worker takes the next posted call: no activation was left, and the
\* calls before it are settled.
LEMMA RunCallInv ==
    ASSUME HandlerInv, IInv', RunCall, fault = "none"
    PROVE  HandlerInv'
<1> DEFINE n == lastRun + 1
           c == calls[n]
           top == [n |-> n, client |-> c.client, nested |-> FALSE]
<1>1. /\ process = "fetch" /\ process' = "callback" /\ accepted' = accepted
      /\ lastRun' = Head(m_queue).n /\ PopFront("POST_USER_DATA")
      /\ UNCHANGED <<calls, answers, object>>
  BY DEF RunCall, HandleUserData, PopFront
<1>2. /\ calls \in Seq(Call) /\ frames \in Seq(Frame) /\ currNetInfo_ \in DefaultNetInfo
      /\ answers \in Seq([n : Nat, client : DefaultNetInfo])
      /\ accepted \in Nat /\ lastRun \in Nat /\ Len(calls) = accepted
      /\ HandlerTypeOK /\ CallsCounted /\ FramesInStep /\ AnswersInStep /\ IInv
  BY DEF HandlerInv, HandlerTypeOK, TypeOK, CallsCounted
<1>3. lastRun' = n /\ n \in 1..accepted
  <2>1. lastRun' = n
    BY <1>1, <1>2, FrontOfQueue
  <2>2. 1 \in 1..Len(m_queue)
    BY <1>1, <1>2 DEF PopFront, IInv, TypeOK
  <2>3. m_queue[1].n <= accepted /\ Head(m_queue) = m_queue[1]
    BY <1>1, <1>2, <2>2, FrontOfQueue DEF IInv, QueueNumbered
  <2> QED
    BY <1>1, <1>2, <2>1, <2>3
<1>4. n \in DOMAIN calls /\ c \in Call
  BY <1>2, <1>3, LenProperties, ElementOfSeq
<1>5. c.client \in Client /\ c.wellFormed \in BOOLEAN
  BY <1>4, CallAssumption
<1>6. frames = <<>>
  BY <1>1, <1>2 DEF FramesInStep
<1>7. Enter(c, n, frames)
  BY <1>1, <1>3 DEF RunCall
<1>8. /\ frames' = <<>> \/ frames' = Append(<<>>, top)
      /\ currNetInfo_' \in DefaultNetInfo
      /\ fault' \in {"none", "terminate", "use after destruction"}
  BY <1>2, <1>5, <1>6, <1>7 DEF Enter, DefaultNetInfo
<1>9. fault' = "none" => (frames' = <<>> <=> c.sig \notin functions_)
  BY <1>6, <1>7 DEF Enter
<1>10. /\ fault' = "none" /\ frames' # <<>> => currNetInfo_' = c.client
       /\ frames' # <<>> => c.sig \in functions_
  BY <1>6, <1>7 DEF Enter
<1>11. top.n = n /\ top.client = c.client
  OBVIOUS
<1>12. top \in Frame
  BY <1>3, <1>5 DEF Frame
<1> HIDE DEF n, c, top
<1>13. frames' \in {<<>>, <<top>>}
  <2>1. Append(<<>>, top) = <<top>>
    OBVIOUS
  <2> QED
    BY <1>8, <2>1
<1>14. HandlerTypeOK'
  <2>1. <<>> \in Seq(Frame) /\ <<top>> \in Seq(Frame)
    BY <1>12
  <2>2. frames' \in Seq(Frame)
    BY <1>13, <2>1
  <2> QED
    BY <1>1, <1>2, <1>8, <2>2 DEF HandlerTypeOK, IInv
<1>15. CallsCounted'
  BY <1>1, <1>2, <1>3, <1>4 DEF CallsCounted
<1>16. FramesInStep'
  <2>1. CASE frames' = <<>>
    BY <2>1 DEF FramesInStep
  <2>2. CASE frames' = <<top>>
    <3>1. DOMAIN frames' = 1..1 /\ Len(frames') = 1 /\ frames'[1] = top /\ frames' # <<>>
      BY <2>2
    <3>2. frames'[1].n = lastRun' /\ frames'[1].client = calls'[lastRun'].client
      BY <1>1, <1>3, <1>11, <3>1 DEF c
    <3>3. calls'[lastRun'].sig \in functions_
      BY <1>1, <1>3, <1>10, <3>1 DEF c
    <3> QED
      BY <1>1, <3>1, <3>2, <3>3 DEF FramesInStep
  <2> QED
    BY <1>13, <2>1, <2>2
<1>17. \A i \in DOMAIN answers : answers[i].n \in Nat /\ answers[i].n <= lastRun /\ answers[i].n < n
  <2>1. \A i \in DOMAIN answers : answers[i] \in [n : Nat, client : DefaultNetInfo]
    BY <1>2, LenProperties, ElementOfSeq
  <2> QED
    BY <1>2, <2>1 DEF AnswersInStep, n
<1>18. AnswersInStep'
  BY <1>1, <1>3, <1>17 DEF AnswersInStep
<1>19. LastCallSettled'
  <2>1. \A i \in DOMAIN answers' : answers'[i].n # lastRun'
    BY <1>1, <1>3, <1>17
  <2>2. ~Answered(lastRun)'
    BY <2>1 DEF Answered
  <2>3. fault' = "none" /\ frames' = <<>> => calls'[lastRun'].sig \notin functions_
    BY <1>1, <1>3, <1>9 DEF c
  <2> QED
    BY <2>2, <2>3 DEF LastCallSettled
<1>20. OwnNetInfo'
  <2>1. frames' # <<>> => Last(frames').client = c.client
    BY <1>11, <1>13 DEF Last
  <2> QED
    BY <1>10, <2>1 DEF OwnNetInfo
<1>21. AnswersMatchCalls'
  BY <1>1 DEF HandlerInv, AnswersMatchCalls
<1>22. OnlyUnknownUnanswered'
  <2> SUFFICES ASSUME NEW k \in DOMAIN calls, Executed(k)'
               PROVE  Answered(k) <=> calls[k].sig \in functions_
    BY <1>1 DEF OnlyUnknownUnanswered, Answered
  <2>1. k \in Nat
    BY <1>2, LenProperties
  <2>2. Executed(k)
    BY <1>1, <1>2, <1>3, <2>1 DEF Executed, n
  <2> QED
    BY <2>2 DEF HandlerInv, OnlyUnknownUnanswered
<1> QED
  BY <1>14, <1>15, <1>16, <1>18, <1>19, <1>20, <1>21, <1>22 DEF HandlerInv

\* A method calls handleCall on its own thread.
LEMMA NestedCallInv ==
    ASSUME HandlerInv, IInv', NEW c \in Call, NestedCall(c), fault = "none"
    PROVE  HandlerInv'
<1> DEFINE m == Len(frames)
           stack == [frames EXCEPT ![m].nested = TRUE]
           top == [n |-> 0, client |-> c.client, nested |-> FALSE]
<1>1. /\ frames # <<>> /\ Enter(c, 0, stack)
      /\ UNCHANGED <<calls, answers, object, vars>>
  BY DEF NestedCall
<1>2. UNCHANGED <<accepted, lastRun, process>>
  BY <1>1 DEF vars
<1>3. /\ frames \in Seq(Frame) /\ currNetInfo_ \in DefaultNetInfo
      /\ HandlerTypeOK /\ CallsCounted /\ FramesInStep /\ AnswersInStep
  BY DEF HandlerInv, HandlerTypeOK
<1>4. c.client \in Client /\ c.wellFormed \in BOOLEAN
  BY CallAssumption
<1>5. stack \in Seq(Frame) /\ Len(stack) = m /\ m \in Nat
  <2>1. m \in Nat /\ DOMAIN frames = 1..m
    BY <1>3, LenProperties
  <2>2. \A i \in 1..m : frames[i] \in Frame
    BY <1>3, <2>1, ElementOfSeq
  <2>3. \A f \in Frame : [f EXCEPT !.nested = TRUE] \in Frame
    BY DEF Frame
  <2>4. frames \in [1..m -> Frame]
    BY <1>3, <2>1, <2>2
  <2>5. stack \in [1..m -> Frame]
    BY <2>2, <2>3, <2>4
  <2> HIDE DEF stack, m
  <2> QED
    BY <2>1, <2>5, FunctionIsSeq
<1>6. CASE frames' = frames
  <2>1. /\ currNetInfo_' \in DefaultNetInfo
        /\ fault' \in {"none", "terminate", "use after destruction"}
    BY <1>1, <1>3, <1>4 DEF Enter, DefaultNetInfo
  <2>2. fault' = "none" => currNetInfo_' = currNetInfo_
    <3>1. Len(Append(stack, top)) = m + 1 /\ m \in Nat
      BY <1>5, AppendFacts
    <3>2. frames # Append(stack, top)
      BY <3>1
    <3> QED
      BY <1>1, <1>6, <3>2 DEF Enter
  <2>3. object' \in {"alive", "members destroyed", "exiting"}
    BY <1>1, <1>3 DEF HandlerTypeOK
  <2> QED
    BY <1>1, <1>2, <1>6, <2>1, <2>2, <2>3, KeptHandlerInv
<1>7. CASE frames' # frames
  <2>1. frames' = Append(stack, top) /\ currNetInfo_' = c.client /\ fault' = fault
    BY <1>1, <1>7 DEF Enter
  <2>2. m \in Nat \ {0} /\ DOMAIN frames = 1..m
    BY <1>1, <1>3
  <2>3. \A i \in 1..m : frames[i] \in Frame
    BY <1>3, <2>2, ElementOfSeq
  <2>4. stack \in Seq(Frame) /\ Len(stack) = m
    BY <1>5
  <2>5. \A i \in 1..m : /\ stack[i].n = frames[i].n /\ stack[i].client = frames[i].client
                        /\ stack[i].nested = IF i = m THEN TRUE ELSE frames[i].nested
    <3> SUFFICES ASSUME NEW i \in 1..m
                 PROVE  /\ stack[i].n = frames[i].n /\ stack[i].client = frames[i].client
                        /\ stack[i].nested = IF i = m THEN TRUE ELSE frames[i].nested
      OBVIOUS
    <3>1. stack[i] = IF i = m THEN [frames[i] EXCEPT !.nested = TRUE] ELSE frames[i]
      BY <2>2
    <3>2. frames[i] \in Frame
      BY <2>3
    <3> HIDE DEF stack
    <3> QED
      BY <3>1, <3>2 DEF Frame
  <2>6. top \in Frame
    BY <1>4 DEF Frame
  <2> HIDE DEF stack, m
  <2>7. /\ frames' \in Seq(Frame) /\ DOMAIN frames' = 1..(m + 1) /\ Len(frames') = m + 1
        /\ \A i \in 1..m : frames'[i] = stack[i]
        /\ frames'[m + 1] = top
    <3>1. frames' \in Seq(Frame) /\ Len(frames') = m + 1
      BY <2>1, <2>2, <2>4, <2>6, AppendProperties
    <3>2. DOMAIN frames' = 1..(m + 1)
      BY <3>1, LenProperties
    <3> QED
      BY <2>1, <2>4, <3>1, <3>2, AppendFacts
  <2>8. frames' # <<>>
    BY <2>2, <2>7
  <2>9. HandlerTypeOK'
    BY <1>1, <1>3, <1>4, <2>1, <2>7 DEF HandlerTypeOK, IInv, DefaultNetInfo
  <2>10. CallsCounted' /\ AnswersInStep' /\ LastCallSettled'
    BY <1>1, <1>2, <1>3, <2>8 DEF CallsCounted, AnswersInStep, LastCallSettled
  <2>11. FramesInStep'
    <3>1. ASSUME NEW i \in 1..(m + 1)
          PROVE  /\ frames'[i].n = IF i = 1 THEN lastRun ELSE 0
                 /\ i < m + 1 => frames'[i].nested
      <4>1. CASE i = m + 1
        BY <2>2, <2>7, <4>1
      <4>2. CASE i \in 1..m
        <5>1. frames'[i].n = frames[i].n /\ frames'[i].nested = IF i = m THEN TRUE ELSE frames[i].nested
          BY <2>5, <2>7, <4>2
        <5>2. frames[i].n = IF i = 1 THEN lastRun ELSE 0
          BY <1>3, <2>2, <4>2 DEF FramesInStep
        <5>3. i # m => frames[i].nested
          BY <1>3, <2>2, <4>2 DEF FramesInStep, m
        <5> QED
          BY <5>1, <5>2, <5>3
      <4> QED
        BY <2>2, <4>1, <4>2
    <3>2. frames'[1].client = frames[1].client
      <4>1. 1 \in 1..m
        BY <2>2
      <4>2. frames'[1] = stack[1] /\ stack[1].client = frames[1].client
        BY <2>5, <2>7, <4>1
      <4> QED
        BY <4>2
    <3> QED
      BY <1>1, <1>2, <1>3, <2>7, <3>1, <3>2 DEF FramesInStep
  <2>12. OwnNetInfo'
    BY <2>1, <2>7 DEF OwnNetInfo, Last
  <2>13. AnswersMatchCalls'
    BY <1>1 DEF HandlerInv, AnswersMatchCalls
  <2>14. OnlyUnknownUnanswered'
    BY <1>1, <1>2, <2>1 DEF HandlerInv, OnlyUnknownUnanswered, Answered, Executed
  <2> QED
    BY <2>9, <2>10, <2>11, <2>12, <2>13, <2>14 DEF HandlerInv
<1> QED
  BY <1>6, <1>7
\* A method returns: its client is answered, and the activation ends.
LEMMA BodyReturnsInv ==
    ASSUME HandlerInv, IInv', BodyReturns, fault = "none"
    PROVE  HandlerInv'
<1> DEFINE m == Len(frames)
           top == frames[m]
           answer == [n |-> top.n, client |-> top.client]
<1>1. frames # <<>> /\ UNCHANGED <<vars, calls, object>>
  BY DEF BodyReturns
<1>2. UNCHANGED <<accepted, lastRun, process>>
  BY <1>1 DEF vars
<1>3. /\ frames \in Seq(Frame) /\ answers \in Seq([n : Nat, client : DefaultNetInfo])
      /\ currNetInfo_ \in DefaultNetInfo /\ lastRun \in Nat
      /\ HandlerTypeOK /\ CallsCounted /\ FramesInStep /\ AnswersInStep /\ AnswersMatchCalls
      /\ object' \in {"alive", "members destroyed", "exiting"}
  BY <1>1 DEF HandlerInv, HandlerTypeOK, TypeOK
<1>4. CASE UNCHANGED <<frames, currNetInfo_, answers>> /\ fault' \in {"terminate", "use after destruction"}
  BY <1>1, <1>2, <1>3, <1>4, KeptHandlerInv
<1>5. CASE /\ answers' = Append(answers, answer)
           /\ currNetInfo_' \in DefaultNetInfo
           /\ frames' = Front(frames)
           /\ fault' = fault
  <2>1. frames \in Seq(Frame) /\ lastRun \in Nat /\ FramesInStep
    BY <1>3
  <2>2. m \in Nat \ {0} /\ m \in Nat /\ DOMAIN frames = 1..m
    BY <1>1, <2>1
  <2>3. top \in Frame
    BY <2>1, <2>2, ElementOfSeq
  <2>4. /\ top.n = IF m = 1 THEN lastRun ELSE 0
        /\ frames[1].client = calls[lastRun].client /\ calls[lastRun].sig \in functions_
        /\ process = "callback" /\ lastRun \in DOMAIN calls
    <3>1. m \in DOMAIN frames
      BY <2>2
    <3>2. top.n = IF m = 1 THEN lastRun ELSE 0
      BY <2>1, <3>1 DEF FramesInStep
    <3>3. /\ frames[1].client = calls[lastRun].client /\ calls[lastRun].sig \in functions_
          /\ process = "callback"
      BY <1>1, <2>1 DEF FramesInStep
    <3> QED
      BY <1>3, <3>2, <3>3 DEF CallsCounted
  <2>5. answer \in [n : Nat, client : DefaultNetInfo] /\ answer.n = top.n /\ answer.client = top.client
    BY <2>3 DEF Frame, DefaultNetInfo
  <2>6. \A i \in 1..(m - 1) : /\ frames[i].n = IF i = 1 THEN lastRun ELSE 0
                              /\ frames[i].nested
    <3>1. \A i \in 1..(m - 1) : i \in DOMAIN frames /\ i < Len(frames)
      BY <2>2
    <3> QED
      BY <2>1, <3>1 DEF FramesInStep
  <2> HIDE DEF answer, top
  <2>7. /\ frames' \in Seq(Frame) /\ Len(frames') = m - 1 /\ DOMAIN frames' = 1..(m - 1)
        /\ \A i \in 1..(m - 1) : frames'[i] = frames[i]
    <3>1. frames' = SubSeq(frames, 1, m - 1)
      BY <1>5 DEF Front
    <3>2. /\ SubSeq(frames, 1, m - 1) \in Seq(Frame)
          /\ Len(SubSeq(frames, 1, m - 1)) = m - 1
          /\ \A i \in 1..(m - 1) : SubSeq(frames, 1, m - 1)[i] = frames[i]
      BY <2>1, <2>2, SubSeqProperties
    <3> QED
      BY <3>1, <3>2, LenProperties
  <2>8. /\ Len(answers) \in Nat /\ DOMAIN answers = 1..Len(answers)
        /\ answers' \in Seq([n : Nat, client : DefaultNetInfo])
        /\ DOMAIN answers' = 1..(Len(answers) + 1)
        /\ \A i \in 1..Len(answers) : answers'[i] = answers[i]
        /\ answers'[Len(answers) + 1] = answer
    <3>1. /\ answers' \in Seq([n : Nat, client : DefaultNetInfo])
          /\ Len(answers') = Len(answers) + 1
      BY <1>3, <1>5, <2>5, AppendProperties
    <3>2. answers \in Seq([n : Nat, client : DefaultNetInfo])
      BY <1>3
    <3>3. /\ \A i \in 1..Len(answers) : answers'[i] = answers[i]
          /\ answers'[Len(answers) + 1] = answer
      BY <1>5, <3>2, AppendFacts
    <3>4. Len(answers) \in Nat /\ DOMAIN answers = 1..Len(answers) /\ DOMAIN answers' = 1..Len(answers')
      BY <3>1, <3>2, LenProperties
    <3> QED
      BY <3>1, <3>3, <3>4
  <2>9. frames' = <<>> <=> m = 1
    <3>1. Len(frames') = 0 <=> frames' = <<>>
      BY <2>7
    <3> QED
      BY <2>2, <2>7, <3>1
  <2>10. \A i \in DOMAIN answers : answers[i].n \in Nat /\ answers[i].n < lastRun
    <3>1. \A i \in DOMAIN answers : answers[i] \in [n : Nat, client : DefaultNetInfo]
      BY <1>3, <2>8, ElementOfSeq
    <3>2. \A i \in DOMAIN answers : answers[i].n <= lastRun /\ answers[i].n # lastRun
      BY <1>1, <1>3 DEF AnswersInStep
    <3>3. \A i \in DOMAIN answers : answers[i].n \in Nat
      BY <3>1
    <3> QED
      BY <2>1, <3>2, <3>3
  <2>11. /\ \A i \in DOMAIN answers : i \in DOMAIN answers' /\ answers'[i].n = answers[i].n
         /\ Len(answers) + 1 \in DOMAIN answers'
         /\ \A i \in DOMAIN answers' : i \in DOMAIN answers \/ i = Len(answers) + 1
         /\ answers'[Len(answers) + 1].n = IF m = 1 THEN lastRun ELSE 0
    BY <2>4, <2>5, <2>8
  <2>12. HandlerTypeOK'
    BY <1>1, <1>3, <1>5, <2>7, <2>8 DEF HandlerTypeOK, IInv
  <2>13. CallsCounted'
    BY <1>1, <1>2, <1>3 DEF CallsCounted
  <2>14. FramesInStep'
    <3>1. frames' # <<>> => frames'[1] = frames[1]
      BY <2>2, <2>7, <2>9
    <3> QED
      BY <1>1, <1>2, <2>4, <2>7, <2>6, <3>1 DEF FramesInStep
  <2>15. AnswersInStep'
    <3> SUFFICES ASSUME NEW i \in DOMAIN answers'
                 PROVE  answers'[i].n <= lastRun /\ (frames' # <<>> => answers'[i].n # lastRun)
      BY <1>2 DEF AnswersInStep
    <3>1. CASE i \in DOMAIN answers
      BY <2>1, <2>10, <2>11, <3>1
    <3>2. CASE i = Len(answers) + 1
      <4>1. answers'[i].n = IF m = 1 THEN lastRun ELSE 0
        BY <2>4, <2>5, <2>8, <3>2
      <4>2. lastRun # 0
        <5>1. DOMAIN calls = 1..Len(calls)
          BY <1>3, LenProperties DEF HandlerTypeOK
        <5> QED
          BY <2>4, <5>1
      <4> QED
        BY <2>1, <2>9, <4>1, <4>2
    <3> QED
      BY <2>8, <3>1, <3>2
  <2>16. \A k : k # 0 => (Answered(k)' <=> Answered(k) \/ (m = 1 /\ k = lastRun))
    BY <2>11 DEF Answered
  <2>17. LastCallSettled'
    <3>1. lastRun # 0
      <4>1. DOMAIN calls = 1..Len(calls)
        BY <1>3, LenProperties DEF HandlerTypeOK
      <4> QED
        BY <2>4, <4>1
    <3>2. m = 1 => Answered(lastRun)'
      BY <1>2, <2>4, <2>5, <2>8 DEF Answered
    <3> QED
      BY <1>1, <1>2, <2>4, <2>9, <3>2 DEF LastCallSettled
  <2>18. OwnNetInfo'
    <3>1. frames' # <<>> => Last(frames').nested
      <4>1. frames' # <<>> => m - 1 \in 1..(m - 1) /\ m - 1 \in DOMAIN frames
        BY <2>2, <2>9
      <4>2. Last(frames') = frames'[m - 1]
        BY <2>7 DEF Last
      <4> QED
        BY <2>7, <2>6, <4>1, <4>2
    <3> QED
      BY <3>1 DEF OwnNetInfo
  <2>19. AnswersMatchCalls'
    <3>1. ASSUME NEW i \in DOMAIN answers', answers'[i].n > 0
          PROVE  /\ answers'[i].n \in DOMAIN calls
                 /\ answers'[i].client = calls[answers'[i].n].client
      <4>1. CASE i \in DOMAIN answers
        BY <1>3, <2>8, <3>1, <4>1 DEF AnswersMatchCalls
      <4>2. CASE i = Len(answers) + 1
        <5>1. answers'[i].n = lastRun /\ m = 1
          BY <2>4, <2>5, <2>8, <3>1, <4>2
        <5>2. answers'[i].client = frames[1].client
          BY <2>5, <2>8, <4>2, <5>1 DEF top
        <5> QED
          BY <2>4, <5>1, <5>2
      <4> QED
        BY <2>8, <4>1, <4>2
    <3>2. ASSUME NEW i \in DOMAIN answers', NEW j \in DOMAIN answers', i < j,
                 answers'[i].n > 0, answers'[j].n > 0
          PROVE  answers'[i].n < answers'[j].n
      <4>1. i \in DOMAIN answers
        BY <2>8, <3>2
      <4>2. CASE j \in DOMAIN answers
        BY <1>3, <2>8, <3>2, <4>1, <4>2 DEF AnswersMatchCalls
      <4>3. CASE j = Len(answers) + 1
        <5>1. answers'[j].n = lastRun
          BY <2>4, <2>5, <2>8, <3>2, <4>3
        <5> QED
          BY <2>8, <2>10, <4>1, <5>1
      <4> QED
        BY <2>8, <4>2, <4>3
    <3> QED
      BY <1>1, <3>1, <3>2 DEF AnswersMatchCalls
  <2>20. OnlyUnknownUnanswered'
    <3> SUFFICES ASSUME fault = "none", NEW k \in DOMAIN calls, Executed(k)
                 PROVE  Answered(k)' <=> calls[k].sig \in functions_
      BY <1>1, <1>2, <1>5 DEF OnlyUnknownUnanswered, Executed
    <3>1. k # 0 /\ k # lastRun
      <4>1. DOMAIN calls = 1..Len(calls) /\ Len(calls) \in Nat
        BY <1>3, LenProperties DEF HandlerTypeOK
      <4>2. k < lastRun
        BY <2>4 DEF Executed
      <4> QED
        BY <2>1, <4>1, <4>2
    <3>2. Answered(k)' <=> Answered(k)
      BY <2>16, <3>1
    <3> QED
      BY <3>2 DEF HandlerInv, OnlyUnknownUnanswered
  <2> QED
    BY <2>12, <2>13, <2>14, <2>15, <2>17, <2>18, <2>19, <2>20 DEF HandlerInv
<1> QED
  BY <1>4, <1>5 DEF BodyReturns, Last

\* The callback returns to Process() when no activation is left.
LEMMA CallDoneInv ==
    ASSUME HandlerInv, IInv', CallDone
    PROVE  HandlerInv'
<1>1. /\ frames = <<>> /\ process = "callback" /\ process' = "fetch"
      /\ UNCHANGED <<accepted, lastRun, calls, frames, currNetInfo_, answers, object, fault>>
  BY DEF CallDone, CallbackReturns, handlerVars
<1>2. HandlerTypeOK'
  BY <1>1 DEF HandlerInv, HandlerTypeOK, IInv
<1>3. CallsCounted' /\ FramesInStep' /\ AnswersInStep' /\ LastCallSettled'
  BY <1>1 DEF HandlerInv, CallsCounted, FramesInStep, AnswersInStep, LastCallSettled
<1>4. OwnNetInfo' /\ AnswersMatchCalls'
  BY <1>1 DEF HandlerInv, OwnNetInfo, AnswersMatchCalls
<1>5. OnlyUnknownUnanswered'
  <2> SUFFICES ASSUME fault = "none", NEW k \in DOMAIN calls, Executed(k)'
               PROVE  Answered(k) <=> calls[k].sig \in functions_
    BY <1>1 DEF OnlyUnknownUnanswered, Answered
  <2>1. CASE k = lastRun
    BY <1>1, <2>1 DEF HandlerInv, LastCallSettled
  <2>2. CASE k # lastRun
    <3>1. Executed(k)
      BY <1>1, <2>2 DEF Executed
    <3> QED
      BY <3>1 DEF HandlerInv, OnlyUnknownUnanswered
  <2> QED
    BY <2>1, <2>2
<1> QED
  BY <1>2, <1>3, <1>4, <1>5 DEF HandlerInv

\* Every step of the specification preserves the invariant.
LEMMA NextHandlerInv == HandlerInv /\ [HandlerNext]_<<vars, handlerVars>> => HandlerInv'
<1> SUFFICES ASSUME HandlerInv, HandlerNext \/ UNCHANGED <<vars, handlerVars>>
             PROVE  HandlerInv'
  OBVIOUS
<1>1. IInv'
  BY HandlerStepsAreWorkerSteps, NextIInv DEF HandlerInv
<1>2. /\ object \in {"alive", "members destroyed", "exiting"}
      /\ fault \in {"none", "terminate", "use after destruction"}
      /\ currNetInfo_ \in DefaultNetInfo
  BY DEF HandlerInv, HandlerTypeOK
<1>3. ASSUME UNCHANGED handlerVars, accepted' = accepted, lastRun' = lastRun,
             process' = "callback" <=> process = "callback"
      PROVE  HandlerInv'
  <2>1. UNCHANGED <<calls, frames, currNetInfo_, answers, object, fault>>
    BY <1>3 DEF handlerVars
  <2> QED
    BY <1>1, <1>2, <1>3, <2>1, KeptHandlerInv
<1>4. CASE Construct
  <2>1. process # "callback"
    BY <1>4 DEF Construct, CreateThread, HandlerInv, IInv, ThreadsInStep
  <2> QED
    BY <1>3, <1>4, <2>1 DEF Construct, CreateThread
<1>5. ASSUME NEW c \in Call, HandleCall(c) PROVE HandlerInv'
  BY <1>1, <1>5, HandleCallInv
<1>6. CASE DestroyMembers
  <2>1. UNCHANGED <<accepted, lastRun, process>>
    BY <1>6 DEF DestroyMembers, vars
  <2> QED
    BY <1>1, <1>2, <1>6, <2>1, KeptHandlerInv DEF DestroyMembers
<1>7. CASE DestroyThreadedClass
  <2>1. accepted' = accepted /\ lastRun' = lastRun /\ (process' = "callback" <=> process = "callback")
    BY <1>7 DEF DestroyThreadedClass, ExitThread, Push
  <2> QED
    BY <1>1, <1>2, <1>7, <2>1, KeptHandlerInv DEF DestroyThreadedClass
<1>8. CASE DestroyThread
  BY <1>3, <1>8 DEF DestroyThread, BeginDestructor, EndDestructor, DestructorOnWorker
<1>9. ASSUME NEW c \in Call, NestedCall(c), fault = "none" PROVE HandlerInv'
  BY <1>1, <1>9, NestedCallInv
<1>10. CASE Worker /\ fault = "none"
  <2>1. CASE RestOfProcess
    BY <1>3, <2>1 DEF RestOfProcess, StartProcess, WaitForMsg, HandleTimer, HandleExit,
                      JoinTimerThread, DrainQueue, PopFront
  <2> QED
    BY <1>1, <1>10, <2>1, RunCallInv, BodyReturnsInv, CallDoneInv DEF Worker
<1>11. CASE Timer
  BY <1>3, <1>11 DEF Timer, TimerThread, TimerCheck, TimerPush, Push
<1>12. CASE SpuriousWakeup /\ UNCHANGED handlerVars
  BY <1>3, <1>12 DEF SpuriousWakeup
<1>13. CASE UNCHANGED <<vars, handlerVars>>
  BY <1>3, <1>13 DEF vars
<1>14. CASE UseDestroyedThread
  <2>1. UNCHANGED <<accepted, lastRun, process, calls, frames, currNetInfo_, answers, object>>
    BY <1>14 DEF UseDestroyedThread, UseAfterDestruction
  <2> QED
    BY <1>1, <1>2, <1>14, <2>1, KeptHandlerInv DEF UseDestroyedThread
<1> QED
  BY <1>4, <1>5, <1>6, <1>7, <1>8, <1>9, <1>10, <1>11, <1>12, <1>13, <1>14 DEF HandlerNext

-----------------------------------------------------------------------------
(* The handler: theorems.                                                  *)

\* The invariant holds in every reachable state.
LEMMA HandlerInvariance == HandlerSpec => []HandlerInv
  BY InitHandlerInv, NextHandlerInv, PTL DEF HandlerSpec

\* The variables keep their types, those of the worker thread included
\* (handlerbase.cpp:13-30, threadedclass.h:83-91, workerthread.cpp:91-153).
THEOREM HandlerTypeCorrect == HandlerSpec => []HandlerTypeOK
<1>1. HandlerInv => HandlerTypeOK
  BY DEF HandlerInv
<1> QED
  BY <1>1, HandlerInvariance, PTL

\* A remote method that has made no nested call sees its own client in
\* currNetInfo_, at any depth of nesting (handlerbase.cpp:17-21).
THEOREM MethodsSeeTheirClient == HandlerSpec => []OwnNetInfo
<1>1. HandlerInv => OwnNetInfo
  BY DEF HandlerInv
<1> QED
  BY <1>1, HandlerInvariance, PTL

\* Answers go to the clients that made the calls, in the order of the calls
\* and never twice, for any number of calls and clients
\* (handlerbase.cpp:13-30, threadedclass.h:83-91, handlerbase.h:50-93).
THEOREM AnswersReachTheirCallers == HandlerSpec => []AnswersMatchCalls
<1>1. HandlerInv => AnswersMatchCalls
  BY DEF HandlerInv
<1> QED
  BY <1>1, HandlerInvariance, PTL

\* Of the calls that were executed exactly those with an unknown signature
\* have no answer (handlerbase.cpp:17-24).
THEOREM KnownCallsAnswered == HandlerSpec => []OnlyUnknownUnanswered
<1>1. HandlerInv => OnlyUnknownUnanswered
  BY DEF HandlerInv
<1> QED
  BY <1>1, HandlerInvariance, PTL

\* A handler uses its worker thread only through PostMsg, CreateThread,
\* ExitThread and the destructor, so whatever holds of the thread alone holds of
\* the thread of a handler (threadedclass.h:16-19, 83-91).
THEOREM HandlerUsesWorker == HandlerSpec => Spec
<1>1. HandlerInit => Init
  BY DEF HandlerInit
<1>2. [HandlerNext]_<<vars, handlerVars>> => [Next]_vars
  BY HandlerStepsAreWorkerSteps
<1> QED
  BY <1>1, <1>2, PTL DEF HandlerSpec, Spec

\* The calls of a handler are executed one at a time, each once, in the order
\* in which they were posted, and none after the exit: what HandlerManager
\* takes a handler for (handlerbase.cpp:13-30, workerthread.cpp:91-153).
THEOREM HandlerIsSerial == HandlerSpec => ImplementsSerialExecutor
BY HandlerUsesWorker, Refinement
=============================================================================
