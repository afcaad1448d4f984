----------------------------- MODULE HandlerBase -----------------------------
(***************************************************************************)
(* lib/handlerbase.{h,cpp} and lib/threadedclass.h: an object whose remote *)
(* methods run on the worker thread that it owns.                          *)
(*                                                                         *)
(* handleCall called by any other thread posts itself to the worker        *)
(* (checkThread); called on the worker it runs at once, also from inside   *)
(* the body of another remote method.  A call that runs looks its          *)
(* signature up, publishes its NetInfo in currNetInfo_, reads its          *)
(* arguments, runs the method, sends the answer and resets currNetInfo_.   *)
(*                                                                         *)
(* frames is the stack of the handleCall activations on the worker thread. *)
(* Only that thread touches frames and currNetInfo_, so the steps of an    *)
(* activation are split only where a nested call can come in between: at   *)
(* the body of the method.                                                 *)
(***************************************************************************)
EXTENDS WorkerThread, SequencesExt

CONSTANTS Call,        \* the calls that clients make: [sig, wellFormed, client]
          Client,      \* client ids
          functions_,  \* the signatures registered with REGISTER_RMI
          CanAnswer,   \* the clients whose NetInfo has a return callback
          MaxDepth     \* bound on the depth of nested calls

ASSUME CallAssumption ==
    /\ \A c \in Call : /\ DOMAIN c = {"sig", "wellFormed", "client"}
                       /\ c.wellFormed \in BOOLEAN
                       /\ c.client \in Client
    /\ CanAnswer \subseteq Client
    /\ MaxDepth \in Nat

VARIABLES calls,         \* the posted calls, by the number PostMsg gave them
          frames,        \* the activations of handleCall, innermost last
          currNetInfo_,  \* the client in currNetInfo_
          answers,       \* what sendAnswer was given, in order
          object,        \* how far the destruction of the handler has come
          fault          \* how the program was ended, if it was

handlerVars == <<calls, frames, currNetInfo_, answers, object, fault>>

\* An activation: the number of the posted call it executes (0 for a nested
\* call), its client, and whether its body has made a nested call.
Frame == [n : Nat, client : Client, nested : BOOLEAN]

\* NetInfo() leaves clientId_ uninitialised: a default NetInfo holds any id.
DefaultNetInfo == Client \cup {"garbage"}

HandlerTypeOK ==
    /\ TypeOK
    /\ calls \in Seq(Call)
    /\ frames \in Seq(Frame)
    /\ currNetInfo_ \in DefaultNetInfo
    /\ answers \in Seq([n : Nat, client : DefaultNetInfo])
    /\ object \in {"alive", "members destroyed", "exiting"}
    /\ fault \in {"none", "terminate", "use after destruction"}

HandlerInit ==
    /\ Init
    /\ calls = <<>>
    /\ frames = <<>>
    /\ currNetInfo_ \in DefaultNetInfo
    /\ answers = <<>>
    /\ object = "alive"
    /\ fault = "none"

-----------------------------------------------------------------------------
(* Construction, destruction and calls from other threads.                 *)

\* The constructor of ThreadedClass starts the worker.
Construct == CreateThread /\ UNCHANGED handlerVars

\* checkThread on a thread that is not the worker.
HandleCall(c) ==
    /\ m_thread
    /\ object = "alive"
    /\ PostMsg
    /\ calls' = Append(calls, c)
    /\ UNCHANGED <<frames, currNetInfo_, answers, object, fault>>

\* The destructors of the derived class and of HandlerBase: functions_,
\* currNetInfo_ and the members of the derived class are gone, while the
\* worker is still running.
DestroyMembers ==
    /\ m_thread
    /\ object = "alive"
    /\ object' = "members destroyed"
    /\ UNCHANGED <<vars, calls, frames, currNetInfo_, answers, fault>>

\* The destructor of ThreadedClass.
DestroyThreadedClass ==
    /\ object = "members destroyed"
    /\ ExitThread
    /\ object' = "exiting"
    /\ UNCHANGED <<calls, frames, currNetInfo_, answers, fault>>

\* The destructor of the member thread_.  If the method that is running is the
\* one that destroys the handler, the thread cannot be joined.
DestroyThread ==
    /\ object = "exiting"
    /\ \/ BeginDestructor
       \/ EndDestructor
       \/ frames # <<>> /\ DestructorOnWorker
    /\ UNCHANGED handlerVars

\* The worker, back in a method of a handler that is gone, or the timer thread.
UseDestroyedThread ==
    /\ UseAfterDestruction
    /\ fault' = "use after destruction"
    /\ UNCHANGED <<calls, frames, currNetInfo_, answers, object>>

-----------------------------------------------------------------------------
(* handleCall on the worker thread.                                        *)

\* Mutant of Enter: currNetInfo_ is not set.
Enter_NoNetInfo(c, n, stack) ==
    /\ object = "alive"
    /\ c.sig \in functions_ /\ c.wellFormed
    /\ frames' = Append(stack, [n |-> n, client |-> c.client, nested |-> FALSE])
    /\ UNCHANGED <<currNetInfo_, fault>>

\* Up to the body of the method, on top of the activations in stack.  An
\* unknown signature is ignored.  Arguments that cannot be read make readData
\* throw, and nothing catches it.
Enter(c, n, stack) ==
    \/ /\ object # "alive"
       /\ fault' = "use after destruction"
       /\ UNCHANGED <<frames, currNetInfo_>>
    \/ /\ object = "alive"
       /\ c.sig \notin functions_
       /\ UNCHANGED <<frames, currNetInfo_, fault>>
    \/ /\ object = "alive"
       /\ c.sig \in functions_
       /\ currNetInfo_' = c.client
       /\ ~c.wellFormed
       /\ fault' = "terminate"
       /\ UNCHANGED frames
    \/ /\ object = "alive"
       /\ c.sig \in functions_
       /\ currNetInfo_' = c.client
       /\ c.wellFormed
       /\ frames' = Append(stack, [n |-> n, client |-> c.client, nested |-> FALSE])
       /\ UNCHANGED fault

RunCall ==
    /\ HandleUserData
    /\ Enter(calls[lastRun'], lastRun', frames)
    /\ UNCHANGED <<calls, answers, object>>

\* The body of a method calls handleCall: same thread, so it runs inline.
\* One nested call in a body is enough to disturb it.
NestedCall(c) ==
    /\ frames # <<>>
    /\ ~Last(frames).nested
    /\ Len(frames) < MaxDepth
    /\ Enter(c, 0, [frames EXCEPT ![Len(frames)].nested = TRUE])
    /\ UNCHANGED <<vars, calls, answers, object>>

\* Mutant of BodyReturns: the answer goes to the client in currNetInfo_.
BodyReturns_CurrNetInfo ==
    /\ frames # <<>>
    /\ Last(frames).client \in CanAnswer /\ object = "alive"
    /\ answers' = Append(answers, [n |-> Last(frames).n, client |-> currNetInfo_])
    /\ currNetInfo_' \in DefaultNetInfo
    /\ frames' = Front(frames)
    /\ UNCHANGED <<vars, calls, object, fault>>

\* Mutant of BodyReturns: no answer when currNetInfo_ is not the client's.
BodyReturns_OnlyIfCurrent ==
    /\ frames # <<>>
    /\ Last(frames).client \in CanAnswer /\ object = "alive"
    /\ answers' = IF currNetInfo_ # Last(frames).client THEN answers
                  ELSE Append(answers, [n |-> Last(frames).n, client |-> currNetInfo_])
    /\ currNetInfo_' \in DefaultNetInfo
    /\ frames' = Front(frames)
    /\ UNCHANGED <<vars, calls, object, fault>>

\* The method returns, the answer is serialised and sent to the NetInfo that
\* the call came with, and currNetInfo_ is reset.  A NetInfo without a return
\* callback makes the default sendAnswer call an empty std::function.
BodyReturns ==
    /\ frames # <<>>
    /\ UNCHANGED <<vars, calls, object>>
    /\ \/ /\ object # "alive"
          /\ fault' = "use after destruction"
          /\ UNCHANGED <<frames, currNetInfo_, answers>>
       \/ /\ object = "alive"
          /\ Last(frames).client \notin CanAnswer
          /\ fault' = "terminate"
          /\ UNCHANGED <<frames, currNetInfo_, answers>>
       \/ /\ object = "alive"
          /\ Last(frames).client \in CanAnswer
          /\ answers' = Append(answers, [n |-> Last(frames).n,
                                         client |-> Last(frames).client])
          /\ currNetInfo_' \in DefaultNetInfo
          /\ frames' = Front(frames)
          /\ UNCHANGED fault

CallDone ==
    /\ frames = <<>>
    /\ CallbackReturns
    /\ UNCHANGED handlerVars

-----------------------------------------------------------------------------

\* What the worker does besides running calls.
RestOfProcess ==
    /\ \/ StartProcess
       \/ WaitForMsg
       \/ HandleTimer
       \/ HandleExit
       \/ JoinTimerThread
       \/ DrainQueue
    /\ UNCHANGED handlerVars

Worker == RunCall \/ BodyReturns \/ CallDone \/ RestOfProcess

Timer == TimerThread /\ UNCHANGED handlerVars

\* An exception that leaves a thread ends the program, and so does touching a
\* destroyed object, in the best case.
HandlerNext ==
    \/ /\ fault = "none"
       /\ \/ Construct
          \/ \E c \in Call : HandleCall(c)
          \/ DestroyMembers
          \/ DestroyThreadedClass
          \/ DestroyThread
          \/ UseDestroyedThread
          \/ ObjectExists /\ (Worker \/ \E c \in Call : NestedCall(c))
          \/ Timer
          \/ SpuriousWakeup /\ UNCHANGED handlerVars
    \/ (fault # "none" \/ owner = "destroyed") /\ UNCHANGED <<vars, handlerVars>>

HandlerSpec == HandlerInit /\ [][HandlerNext]_<<vars, handlerVars>>

\* The scheduler runs both threads and every remote method returns.
HandlerFairSpec ==
    /\ HandlerSpec
    /\ WF_<<vars, handlerVars>>(fault = "none" /\ ObjectExists /\ Worker)
    /\ WF_<<vars, handlerVars>>(fault = "none" /\ Timer)

-----------------------------------------------------------------------------
(* Properties.                                                             *)

\* A remote method that has made no nested call sees its own client in
\* currNetInfo_, whoever called before it or inside whichever call it runs
\* (handlerbase.cpp:17-21).
OwnNetInfo ==
    fault = "none" /\ frames # <<>> /\ ~Last(frames).nested =>
        currNetInfo_ = Last(frames).client

\* Every answer to a posted call goes to the client that made the call, and
\* the answers come in the order of the calls, each call at most once, nested
\* calls notwithstanding (handlerbase.cpp:13-30, threadedclass.h:83-91,
\* handlerbase.h:50-93).
AnswersMatchCalls ==
    LET Posted == {i \in DOMAIN answers : answers[i].n > 0}
    IN  /\ \A i \in Posted : /\ answers[i].n \in DOMAIN calls
                             /\ answers[i].client = calls[answers[i].n].client
        /\ \A i, j \in Posted : i < j => answers[i].n < answers[j].n

\* The calls that have been executed and have no answer are exactly those with
\* an unknown signature: nothing else is skipped (handlerbase.cpp:17-24).
Answered(k) == \E i \in DOMAIN answers : answers[i].n = k

Executed(k) == k < lastRun \/ (k = lastRun /\ process # "callback")

OnlyUnknownUnanswered ==
    fault = "none" =>
        \A k \in DOMAIN calls :
            Executed(k) => (Answered(k) <=> calls[k].sig \in functions_)

\* A posted call with a known signature is answered, unless the program ends
\* or the handler is destroyed first (handlerbase.cpp:13-30,
\* workerthread.cpp:97-129).
CallsAnswered ==
    \A k \in 1..MaxPosts :
        (k \in DOMAIN calls /\ calls[k].sig \in functions_)
            ~> (Answered(k) \/ fault # "none" \/ object # "alive")
=============================================================================
