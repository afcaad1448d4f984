------------------------------- MODULE NetBase -------------------------------
(***************************************************************************)
(* lib/netbase.cpp: NetBase::Impl, which accepts connections, and the life *)
(* of each SessionImpl: handshake, one read at a time, writes, and         *)
(* "delete this" in whichever handler is given an error.                   *)
(*                                                                         *)
(* One thread calls io_context.run(), so a completion handler is one step. *)
(* Handlers are bound to a raw pointer.  Destroying a session closes its   *)
(* socket, which aborts the operations that are outstanding: their         *)
(* handlers are still called, with an error, on the deleted object.        *)
(*                                                                         *)
(* What a read delivers is in Session.  sendData is called through         *)
(* HandlerManager::sendData_ on the thread of io_context.run().  The       *)
(* messages sent to one session are numbered.                              *)
(***************************************************************************)
EXTENDS Integers, Sequences, FiniteSets, SequencesExt

CONSTANTS MaxSessions,  \* bound on the SessionImpl objects created
          MaxSends      \* bound on the messages sent to one session

ASSUME NetBaseAssumption == MaxSessions \in Nat \ {0} /\ MaxSends \in Nat

Session == 1..MaxSessions

VARIABLES io,                   \* where NetBase::start and stop are
          state,                \* the life of each session
          ops,                  \* its outstanding operations, writes excepted
          inFlight,             \* the buffers of its outstanding writes
          sessions_,            \* the vector of sessions
          clientId_,            \* the client id of each session
          clientId,             \* the static counter in handleAccept
          outBuffer_,           \* messages to write next
          outBufferProcessing_, \* messages that are being written
          sends,                \* how many messages sendData was given
          written,              \* the messages in the writes that completed
          fault                 \* a handler was called on a deleted session

vars == <<io, state, ops, inFlight, sessions_, clientId_, clientId,
          outBuffer_, outBufferProcessing_, sends, written, fault>>

writeVars == <<inFlight, outBuffer_, outBufferProcessing_, sends, written>>

Live(s) == state[s] \in {"accepting", "handshake", "open"}

Msgs == 1..MaxSends

TypeOK ==
    /\ io \in {"idle", "running", "stopped", "destroyed"}
    /\ state \in [Session -> {"unused", "accepting", "handshake", "open", "deleted"}]
    /\ ops \in [Session -> SUBSET {"accept", "handshake", "read"}]
    /\ inFlight \in [Session -> Seq(Seq(Msgs))]
    /\ sessions_ \in Seq(Session)
    /\ clientId_ \in [Session -> Int]
    /\ clientId \in Nat
    /\ outBuffer_ \in [Session -> Seq(Msgs)]
    /\ outBufferProcessing_ \in [Session -> Seq(Msgs)]
    /\ sends \in [Session -> 0..MaxSends]
    /\ written \in [Session -> SUBSET Msgs]
    /\ fault \in BOOLEAN

Init ==
    /\ io = "idle"
    /\ state = [s \in Session |-> "unused"]
    /\ ops = [s \in Session |-> {}]
    /\ inFlight = [s \in Session |-> <<>>]
    /\ sessions_ = <<>>
    /\ clientId_ = [s \in Session |-> -1]
    /\ clientId = 0
    /\ outBuffer_ = [s \in Session |-> <<>>]
    /\ outBufferProcessing_ = [s \in Session |-> <<>>]
    /\ sends = [s \in Session |-> 0]
    /\ written = [s \in Session |-> {}]
    /\ fault = FALSE

-----------------------------------------------------------------------------
(* NetBase::Impl                                                           *)

Unused == {s \in Session : state[s] = "unused"}

\* start_accept: a new session, numbered in the order of creation, waits for
\* a connection.  states and pending are the functions it is added to.
StartAccept(states, pending) ==
    /\ Unused # {}
    /\ LET new == CHOOSE s \in Unused : \A t \in Unused : s <= t
       IN  /\ state' = [states EXCEPT ![new] = "accepting"]
           /\ ops' = [pending EXCEPT ![new] = {"accept"}]

\* start() after stop() queues an accept, but run() returns at once.
Start ==
    /\ io \in {"idle", "stopped"}
    /\ io' = IF io = "idle" THEN "running" ELSE "stopped"
    /\ StartAccept(state, ops)
    /\ UNCHANGED <<writeVars, sessions_, clientId_, clientId, fault>>

\* stop() only tells run() to return, which it does between two completion
\* handlers: this step is the moment when it does, or a stop() before start().
Stop ==
    /\ io \in {"idle", "running"}
    /\ io' = "stopped"
    /\ UNCHANGED <<writeVars, state, ops, sessions_, clientId_, clientId, fault>>

\* ~NetBase, when no thread is in run(): the owner has joined the one that
\* was.  The handlers still queued are destroyed and not called.  Nobody deletes
\* the sessions.
DestroyNetBase ==
    /\ io \in {"idle", "stopped"}
    /\ io' = "destroyed"
    /\ sessions_' = <<>>
    /\ ops' = [s \in Session |-> {}]
    /\ inFlight' = [s \in Session |-> <<>>]
    /\ UNCHANGED <<state, clientId_, clientId, outBuffer_, outBufferProcessing_,
                   sends, written, fault>>

\* The completion handler of an operation of s is called.
Completes(s, op) == io = "running" /\ op \in ops[s] /\ Live(s)

HandleAccept(s) ==
    /\ Completes(s, "accept")
    /\ clientId_' = [clientId_ EXCEPT ![s] = clientId]
    /\ clientId' = clientId + 1
    /\ sessions_' = Append(sessions_, s)
    /\ StartAccept([state EXCEPT ![s] = "handshake"],
                   [ops EXCEPT ![s] = {"handshake"}])
    /\ UNCHANGED <<writeVars, io, fault>>

\* Mutant of HandleAcceptError: the next accept is not started.
HandleAcceptError_NoRestart(s) ==
    /\ Completes(s, "accept")
    /\ state' = [state EXCEPT ![s] = "deleted"]
    /\ ops' = [ops EXCEPT ![s] = {}]
    /\ UNCHANGED <<writeVars, io, sessions_, clientId_, clientId, fault>>

\* destroyedFnc_ is not set yet, so sessions_ is not touched.
HandleAcceptError(s) ==
    /\ Completes(s, "accept")
    /\ StartAccept([state EXCEPT ![s] = "deleted"], [ops EXCEPT ![s] = {}])
    /\ UNCHANGED <<writeVars, io, sessions_, clientId_, clientId, fault>>

\* Mutant of Delete: destroyedFnc_ is not called.
Delete_NotRemoved(s) ==
    /\ state' = [state EXCEPT ![s] = "deleted"]
    /\ UNCHANGED sessions_

\* Mutant of Delete: the entry of sessions_ becomes a null pointer.
Delete_Nulled(s) ==
    /\ state' = [state EXCEPT ![s] = "deleted"]
    /\ sessions_' = [i \in DOMAIN sessions_ |->
                       IF sessions_[i] = s THEN 0 ELSE sessions_[i]]

\* "delete this": ~SessionImpl calls destroyedFnc_, clientSessionDestroyed.
Delete(s) ==
    /\ state' = [state EXCEPT ![s] = "deleted"]
    /\ sessions_' = RemoveFirst(sessions_, s)

-----------------------------------------------------------------------------
(* SessionImpl                                                             *)

HandleHandshake(s) ==
    /\ Completes(s, "handshake")
    /\ state' = [state EXCEPT ![s] = "open"]
    /\ ops' = [ops EXCEPT ![s] = {"read"}]
    /\ UNCHANGED <<writeVars, io, sessions_, clientId_, clientId, fault>>

\* Mutant of HandleHandshakeError: the read is started all the same.
HandleHandshakeError_Reads(s) ==
    /\ Completes(s, "handshake")
    /\ Delete(s)
    /\ ops' = [ops EXCEPT ![s] = {"read"}]
    /\ UNCHANGED <<writeVars, io, clientId_, clientId, fault>>

HandleHandshakeError(s) ==
    /\ Completes(s, "handshake")
    /\ Delete(s)
    /\ ops' = [ops EXCEPT ![s] = {}]
    /\ UNCHANGED <<writeVars, io, clientId_, clientId, fault>>

\* A read that succeeds starts the next one; its data is handled in Session.
ProcessRead(s) ==
    /\ Completes(s, "read")
    /\ ops' = [ops EXCEPT ![s] = {"read"}]
    /\ UNCHANGED <<writeVars, io, state, sessions_, clientId_, clientId, fault>>

ProcessReadError(s) ==
    /\ Completes(s, "read")
    /\ Delete(s)
    /\ ops' = [ops EXCEPT ![s] = {}]
    /\ UNCHANGED <<writeVars, io, clientId_, clientId, fault>>

\* Mutant of SwapAndWrite: the buffers are swapped but nothing is written.
SwapAndWrite_NoWrite(s, out, others) ==
    /\ outBufferProcessing_' = [outBufferProcessing_ EXCEPT ![s] = out]
    /\ outBuffer_' = [outBuffer_ EXCEPT ![s] = outBufferProcessing_[s]]
    /\ inFlight' = [inFlight EXCEPT ![s] = others]

\* handleWrite without an error: the buffers change places, and what is now
\* in outBufferProcessing_ is written.  What was written before stays in
\* outBuffer_.  out is the contents of outBuffer_, others the writes that are
\* outstanding.
SwapAndWrite(s, out, others) ==
    /\ outBufferProcessing_' = [outBufferProcessing_ EXCEPT ![s] = out]
    /\ outBuffer_' = [outBuffer_ EXCEPT ![s] = outBufferProcessing_[s]]
    /\ inFlight' = [inFlight EXCEPT ![s] =
                      IF out = <<>> THEN others ELSE Append(others, out)]

\* Mutant of SendData: a write is started although one is outstanding.
SendData_Always(s) ==
    /\ io = "running"
    /\ Contains(sessions_, s)
    /\ sends[s] < MaxSends
    /\ sends' = [sends EXCEPT ![s] = @ + 1]
    /\ SwapAndWrite(s, Append(outBuffer_[s], sends[s] + 1), inFlight[s])
    /\ UNCHANGED <<io, state, ops, sessions_, clientId_, clientId, written, fault>>

\* The callback set with setSendCallback finds the session by its client id,
\* also while it is still in its handshake, and calls sendData.
SendData(s) ==
    /\ io = "running"
    /\ Contains(sessions_, s)
    /\ sends[s] < MaxSends
    /\ sends' = [sends EXCEPT ![s] = @ + 1]
    /\ LET out == Append(outBuffer_[s], sends[s] + 1)
       IN  \/ /\ outBufferProcessing_[s] = <<>>
              /\ SwapAndWrite(s, out, inFlight[s])
           \/ /\ outBufferProcessing_[s] # <<>>
              /\ outBuffer_' = [outBuffer_ EXCEPT ![s] = out]
              /\ UNCHANGED <<outBufferProcessing_, inFlight>>
    /\ UNCHANGED <<io, state, ops, sessions_, clientId_, clientId, written, fault>>

\* A write is complete: all of its buffer has gone to the peer.
HandleWrite(s) ==
    /\ io = "running" /\ Live(s)
    /\ inFlight[s] # <<>>
    /\ written' = [written EXCEPT ![s] = @ \cup ToSet(Head(inFlight[s]))]
    /\ SwapAndWrite(s, outBuffer_[s], Tail(inFlight[s]))
    /\ UNCHANGED <<io, state, ops, sessions_, clientId_, clientId, sends, fault>>

HandleWriteError(s) ==
    /\ io = "running" /\ Live(s)
    /\ inFlight[s] # <<>>
    /\ inFlight' = [inFlight EXCEPT ![s] = Tail(@)]
    /\ Delete(s)
    /\ UNCHANGED <<io, ops, clientId_, clientId, outBuffer_, outBufferProcessing_,
                   sends, written, fault>>

\* The handler of an aborted operation runs on a session that is gone, and
\* deletes it once more.
HandlerOnDeleted(s) ==
    /\ io = "running"
    /\ state[s] = "deleted"
    /\ ops[s] # {} \/ inFlight[s] # <<>>
    /\ fault' = TRUE
    /\ UNCHANGED <<io, state, ops, writeVars, sessions_, clientId_, clientId>>

-----------------------------------------------------------------------------

WriteCompletes(s) == HandleWrite(s) \/ HandleWriteError(s)

Next ==
    \/ /\ ~fault
       /\ \/ Start
          \/ Stop
          \/ DestroyNetBase
          \/ \E s \in Session :
               \/ HandleAccept(s)
               \/ HandleAcceptError(s)
               \/ HandleHandshake(s)
               \/ HandleHandshakeError(s)
               \/ ProcessRead(s)
               \/ ProcessReadError(s)
               \/ SendData(s)
               \/ WriteCompletes(s)
               \/ HandlerOnDeleted(s)
    \/ (fault \/ io \in {"stopped", "destroyed"}) /\ UNCHANGED vars

Spec == Init /\ [][Next]_vars

\* The network completes every write, with or without an error.
FairSpec == Spec /\ \A s \in Session : WF_vars(~fault /\ WriteCompletes(s))

-----------------------------------------------------------------------------
(* Properties.                                                             *)

\* sessions_ lists exactly the sessions that were accepted and not deleted,
\* each once and with a client id of its own: a lookup by client id can find
\* neither a deleted session nor the session of another client
\* (netbase.cpp:27-30, 155-162, 173-196).
SessionsTracked ==
    io # "destroyed" =>
        /\ IsInjective(sessions_)
        /\ ToSet(sessions_) = {s \in Session : state[s] \in {"handshake", "open"}}
        /\ \A s, t \in ToSet(sessions_) :
             s # t => clientId_[s] # clientId_[t]

\* As long as the server runs exactly one session waits for a connection:
\* a failed accept does not stop the server (netbase.cpp:165-196).
OneAcceptPending ==
    io = "running" => Cardinality({s \in Session : "accept" \in ops[s]}) = 1

\* A session to which nothing was sent is never touched after its deletion: no
\* handler is outstanding when it deletes itself (netbase.cpp:37-90).
NoOpOnDeleted ==
    \A s \in Session :
        state[s] = "deleted" /\ sends[s] = 0 => ops[s] = {} /\ inFlight[s] = <<>>

\* Every message of buf comes after all those that were sent before it: they
\* are in done, or earlier in buf.
InTurn(buf, done) ==
    \A i \in DOMAIN buf : \A m \in 1..(buf[i] - 1) :
        m \in done \/ \E j \in 1..(i - 1) : buf[j] = m

\* The writes of a session keep its messages apart and in order, however
\* sendData and completions interleave: at most one write is outstanding, the
\* buffer it was given is not touched before it completes, and messages first
\* reach the peer in the order in which they were sent with none skipped, also
\* if the write is cut short; what the swapped buffers send again comes later
\* (netbase.cpp:97-121).
WritesInTurn ==
    \A s \in Session :
        /\ Live(s) /\ io # "destroyed" =>
             inFlight[s] = IF outBufferProcessing_[s] = <<>> THEN <<>>
                           ELSE <<outBufferProcessing_[s]>>
        /\ \A k \in DOMAIN inFlight[s] : InTurn(inFlight[s][k], written[s])

\* Every message is written, unless the session or the server ends first
\* (netbase.cpp:97-121).
SendsWritten ==
    \A s \in Session, m \in 1..MaxSends :
        (sends[s] >= m) ~> (\/ m \in written[s]
                            \/ ~Live(s) \/ io # "running" \/ fault)
=============================================================================
