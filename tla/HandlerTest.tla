----------------------------- MODULE HandlerTest -----------------------------
(***************************************************************************)
(* test/handlertest.cpp: AdminRemote::sendAndWait against a HandlerBase    *)
(* whose sendAnswer stores the answer in answer_.                          *)
(***************************************************************************)
EXTENDS HandlerBase

VARIABLES remote,   \* where sendAndWait is
          result    \* the call whose answer was in answer_ (0: it was empty)

remoteVars == <<remote, result>>

TestInit == HandlerInit /\ remote = "idle" /\ result = 0

SendAndWaitCalls ==
    /\ remote = "idle"
    /\ \E c \in Call : HandleCall(c)
    /\ remote' = "called"
    /\ UNCHANGED result

SendAndWaitReturns ==
    /\ remote = "called"
    /\ result' = IF answers = <<>> THEN 0 ELSE Last(answers).n
    /\ remote' = "returned"
    /\ UNCHANGED <<vars, handlerVars>>

TestNext ==
    \/ SendAndWaitCalls
    \/ SendAndWaitReturns
    \/ (Construct \/ Worker \/ Timer) /\ UNCHANGED remoteVars

TestSpec == TestInit /\ [][TestNext]_<<vars, handlerVars, remoteVars>>

-----------------------------------------------------------------------------

\* QCOMPARE(userid, 55) at handlertest.cpp:64: what sendAndWait returns is
\* the answer to the call it made.
ReadAnswerTest == remote = "returned" => result = 1
=============================================================================
