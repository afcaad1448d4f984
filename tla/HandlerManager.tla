--------------------------- MODULE HandlerManager ---------------------------
(***************************************************************************)
(* lib/handlermanager.{h,cpp} and lib/rmipacket.h, with what they stand    *)
(* between: the sessions of NetBase, which pass packets on from the one    *)
(* thread that runs the io_context, and the handlers, each with a worker   *)
(* thread of its own.                                                      *)
(*                                                                         *)
(* The neighbours are as abstract as their own modules allow.  A session   *)
(* delivers the packets of its connection in order (Session, for aligned   *)
(* reads).  A handler is what WorkerThread is proved to implement: an      *)
(* executor that starts the calls posted to it one at a time, in order     *)
(* (SerialExecutor).  A call on it ends as HandlerBase says.               *)
(*                                                                         *)
(* The owner calls start(), stop() and the destructors on threads of its   *)
(* own.  What it does can fall between the steps of the io thread: after a *)
(* packet was read and before its handler is called.                       *)
(***************************************************************************)
EXTENDS Integers, Sequences, FiniteSetsExt

CONSTANTS Handler,      \* handler objects
          threadName,   \* their names, not always different
          Overrides,    \* handlers with a sendAnswer of their own
          Connection,   \* connections of peers, never reused
          Packet,       \* [name, kind], see PacketAssumption
          MaxPackets    \* bound: packets received on all connections

\* The kinds of packets: one that RMIPacket cannot be read from (an empty one,
\* which is also what a session makes of a large one, or one with text in the
\* place of requestId); a call; a call with an unknown signature; and one with
\* arguments that cannot be read.
ASSUME PacketAssumption ==
    /\ \A p \in Packet : p.kind \in {"unreadable", "call", "unknown", "bad arguments"}
    /\ Overrides \subseteq Handler
    /\ MaxPackets \in Nat

VARIABLES handlers_,   \* HandlerManager::handlers_, name to handler
          registered,  \* the handlers in the order of registerHandler
          phase,       \* start() was not called, runs, or its thread was joined
          stopped,     \* stop() was called
          inHand,      \* the packet that the io thread is passing on, if any
          clientId_,   \* the id of each connection's session, or -1
          clientId,    \* the counter in handleAccept
          received,    \* the packets that its session has passed on
          calls,       \* the calls posted to each handler, as [client, packet]
          started,     \* how many of them its worker has started
          busy,        \* the worker runs one
          alive,       \* the handler object exists
          early,       \* one was destroyed while calls could reach it
          fault        \* how the program was ended, if it was

netVars == <<phase, stopped, inHand, clientId_, clientId, received>>
workerVars == <<started, busy, alive, early>>
vars == <<handlers_, registered, netVars, calls, workerVars, fault>>

TypeOK ==
    /\ registered \in Seq(Handler)
    /\ DOMAIN handlers_ = {threadName[registered[i]] : i \in DOMAIN registered}
    /\ phase \in {"setup", "running", "joined"}
    /\ stopped \in BOOLEAN
    /\ inHand \subseteq [from : Connection, packet : Packet]
    /\ clientId \in Nat
    /\ clientId_ \in [Connection -> -1..(clientId - 1)]
    /\ received \in [Connection -> Seq(Packet)]
    /\ calls \in [Handler -> Seq([client : 0..(clientId - 1), packet : Packet])]
    /\ started \in [Handler -> Nat]
    /\ \A h \in Handler : started[h] <= Len(calls[h])
    /\ busy \in [Handler -> BOOLEAN] /\ alive \in [Handler -> BOOLEAN]
    /\ early \in BOOLEAN
    /\ fault \in {"none", "terminate", "use after destruction"}

Init ==
    /\ handlers_ = <<>> /\ registered = <<>>
    /\ phase = "setup" /\ stopped = FALSE
    /\ inHand = {}
    /\ clientId_ = [c \in Connection |-> -1]
    /\ clientId = 0
    /\ received = [c \in Connection |-> <<>>]
    /\ calls = [h \in Handler |-> <<>>]
    /\ started = [h \in Handler |-> 0]
    /\ busy = [h \in Handler |-> FALSE]
    /\ alive = [h \in Handler |-> TRUE]
    /\ early = FALSE
    /\ fault = "none"

-----------------------------------------------------------------------------
(* NetBase                                                                 *)

\* Mutant of RegisterHandler: a later handler replaces one with its name.
RegisterHandler_Overwrites(h) ==
    /\ phase = "setup" /\ alive[h]
    /\ \A i \in DOMAIN registered : registered[i] # h
    /\ registered' = Append(registered, h)
    /\ handlers_' = [n \in DOMAIN handlers_ \cup {threadName[h]} |->
                       IF n = threadName[h] THEN h ELSE handlers_[n]]
    /\ UNCHANGED <<netVars, calls, workerVars, fault>>

\* map::insert keeps an entry that is there.  The map is not protected, so
\* handlers are registered before start().
RegisterHandler(h) ==
    /\ phase = "setup" /\ alive[h]
    /\ \A i \in DOMAIN registered : registered[i] # h
    /\ registered' = Append(registered, h)
    /\ handlers_' = [n \in DOMAIN handlers_ \cup {threadName[h]} |->
                       IF n \in DOMAIN handlers_ THEN handlers_[n] ELSE h]
    /\ UNCHANGED <<netVars, calls, workerVars, fault>>

\* start() runs the io_context on its thread; what was posted to the handlers
\* is run whether it runs or not.
Start ==
    /\ phase = "setup"
    /\ phase' = "running"
    /\ UNCHANGED <<handlers_, registered, stopped, inHand, clientId_, clientId,
                   received, calls, workerVars, fault>>

\* stop() only tells the io_context to begin nothing more.  It does not wait
\* for what the io thread is in the middle of, and it may come before start().
Stop ==
    /\ ~stopped
    /\ stopped' = TRUE
    /\ UNCHANGED <<handlers_, registered, phase, inHand, clientId_, clientId,
                   received, calls, workerVars, fault>>

\* Mutant of JoinIoThread: the thread that runs start() is detached.
JoinIoThread_Detached ==
    /\ phase = "running" /\ stopped
    /\ phase' = "joined"
    /\ UNCHANGED <<handlers_, registered, stopped, inHand, clientId_, clientId,
                   received, calls, workerVars, fault>>

\* run() returns from a stopped io_context between two completions, and start()
\* with it: the owner can join the thread.
JoinIoThread ==
    /\ phase = "running" /\ stopped
    /\ inHand = {}
    /\ phase' = "joined"
    /\ UNCHANGED <<handlers_, registered, stopped, inHand, clientId_, clientId,
                   received, calls, workerVars, fault>>

\* The io thread is free for a completion, and the io_context starts it.
IoThreadFree == phase = "running" /\ ~stopped /\ inHand = {}

\* Mutant of HandleAccept: the counter is not advanced.
HandleAccept_SameId(c) ==
    /\ IoThreadFree /\ clientId_[c] = -1
    /\ clientId_' = [clientId_ EXCEPT ![c] = clientId]
    /\ UNCHANGED <<handlers_, registered, phase, stopped, inHand, clientId, received,
                   calls, workerVars, fault>>

\* A peer is accepted and the handshake succeeds.  A session that ends is one
\* that receives nothing more: the calls it has made stay posted.
HandleAccept(c) ==
    /\ IoThreadFree /\ clientId_[c] = -1
    /\ clientId_' = [clientId_ EXCEPT ![c] = clientId]
    /\ clientId' = clientId + 1
    /\ UNCHANGED <<handlers_, registered, phase, stopped, inHand, received, calls,
                   workerVars, fault>>

-----------------------------------------------------------------------------
(* HandlerManager                                                          *)

\* HandlerBase::handleCall on the io thread, which is not the worker: the call
\* is posted.  handlers_ does not know that a handler was destroyed.
HandleCall(h, client, p) ==
    IF alive[h]
    THEN calls' = [calls EXCEPT ![h] = Append(@, [client |-> client, packet |-> p])]
         /\ UNCHANGED fault
    ELSE fault' = "use after destruction" /\ UNCHANGED calls

\* deserialize throws on a packet it cannot read, and nothing catches it; an
\* unknown name is ignored.  netInfos_ is never written: the NetInfo has the
\* client's id and no return callback.  requestId is not passed on.
HandlePacket(p, client) ==
    \/ /\ p.kind = "unreadable"
       /\ fault' = "terminate"
       /\ UNCHANGED calls
    \/ /\ p.kind # "unreadable" /\ p.name \notin DOMAIN handlers_
       /\ UNCHANGED <<calls, fault>>
    \/ /\ p.kind # "unreadable" /\ p.name \in DOMAIN handlers_
       /\ HandleCall(handlers_[p.name], client, p)

\* The bound counts the packets of all sessions.
TotalReceived == MapThenSumSet(LAMBDA d : Len(received[d]), Connection)

\* processRead gets a packet; the peer sends them without waiting for answers.
ProcessRead(c, p) ==
    /\ IoThreadFree /\ clientId_[c] # -1
    /\ TotalReceived < MaxPackets
    /\ inHand' = {[from |-> c, packet |-> p]}
    /\ UNCHANGED <<handlers_, registered, phase, stopped, clientId_, clientId,
                   received, calls, workerVars, fault>>

\* The packet is passed on.  By now stop() may have been called and handlers
\* may have been destroyed.
PassOn(c, p) ==
    /\ inHand = {[from |-> c, packet |-> p]}
    /\ inHand' = {}
    /\ received' = [received EXCEPT ![c] = Append(@, p)]
    /\ HandlePacket(p, clientId_[c])
    /\ UNCHANGED <<handlers_, registered, phase, stopped, clientId_, clientId, workerVars>>

-----------------------------------------------------------------------------
(* The handlers                                                            *)

\* Mutant of StartCall: a call with an unknown signature blocks the worker.
StartCall_Stuck(h) ==
    /\ ~busy[h] /\ started[h] < Len(calls[h])
    /\ calls[h][started[h] + 1].packet.kind # "unknown"
    /\ alive[h]
    /\ started' = [started EXCEPT ![h] = @ + 1] /\ busy' = [busy EXCEPT ![h] = TRUE]
    /\ UNCHANGED <<handlers_, registered, netVars, calls, alive, early, fault>>

StartCall(h) ==
    /\ ~busy[h] /\ started[h] < Len(calls[h])
    /\ \/ /\ alive[h]
          /\ started' = [started EXCEPT ![h] = @ + 1] /\ busy' = [busy EXCEPT ![h] = TRUE]
          /\ UNCHANGED fault
       \/ /\ ~alive[h]
          /\ fault' = "use after destruction"
          /\ UNCHANGED <<started, busy>>
    /\ UNCHANGED <<handlers_, registered, netVars, calls, alive, early>>

\* Unreadable arguments throw, and so does the answer of a handler that relies
\* on HandlerBase::sendAnswer: the return callback is empty.
FinishCall(h) ==
    LET kind == calls[h][started[h]].packet.kind
        throws == kind = "bad arguments" \/ (kind = "call" /\ h \notin Overrides)
    IN  /\ busy[h]
        /\ fault' = CASE ~alive[h] /\ kind # "unknown" -> "use after destruction"
                      [] alive[h] /\ throws -> "terminate"
                      [] OTHER -> "none"
        /\ busy' = [busy EXCEPT ![h] = FALSE]
        /\ UNCHANGED <<handlers_, registered, netVars, calls, started, alive, early>>

\* The owner destroys a handler that is in handlers_.  There is no way to
\* unregister it.
DestroyHandler(h) ==
    /\ alive[h]
    /\ \E n \in DOMAIN handlers_ : handlers_[n] = h
    /\ alive' = [alive EXCEPT ![h] = FALSE]
    /\ early' = (early \/ phase # "joined" \/ busy[h] \/ started[h] < Len(calls[h]))
    /\ UNCHANGED <<handlers_, registered, netVars, calls, started, busy, fault>>

-----------------------------------------------------------------------------

Worker(h) == StartCall(h) \/ FinishCall(h)

IoThread ==
    \/ \E c \in Connection : HandleAccept(c)
    \/ \E c \in Connection, p \in Packet : ProcessRead(c, p) \/ PassOn(c, p)

Next ==
    \/ /\ fault = "none"
       /\ \/ \E h \in Handler : RegisterHandler(h) \/ DestroyHandler(h) \/ Worker(h)
          \/ Start \/ Stop \/ JoinIoThread
          \/ IoThread
    \/ (fault # "none" \/ phase = "joined") /\ UNCHANGED vars

\* Every worker thread is scheduled, and the io thread goes on with a packet
\* that it has read.
Spec ==
    /\ Init /\ [][Next]_vars
    /\ \A h \in Handler : WF_vars(fault = "none" /\ Worker(h))
    /\ WF_vars(fault = "none" /\ \E c \in Connection, p \in Packet : PassOn(c, p))

-----------------------------------------------------------------------------
(* Properties.                                                             *)

\* The handler that was registered first under a name, if any.
Responsible(h, name) ==
    \E i \in DOMAIN registered :
        /\ registered[i] = h /\ threadName[h] = name
        /\ \A j \in 1..(i - 1) : threadName[registered[j]] # name

\* Where a handler has calls from a session, and where that session received
\* the packets that the handler is responsible for.
CallsFrom(h, c) == {i \in 1..Len(calls[h]) : calls[h][i].client = clientId_[c]}
PacketsFor(h, c) ==
    {j \in 1..Len(received[c]) : /\ received[c][j].kind # "unreadable"
                                 /\ Responsible(h, received[c][j].name)}

\* f lists the numbers in T by the numbers in S, all of them, in order.
InOrder(f, S, T) ==
    /\ \A i, j \in S : i < j => f[i] < f[j]
    /\ \A k \in T : \E i \in S : f[i] = k

\* The calls that a handler has from a session are those packets that the
\* session passed on and the handler is responsible for: all of them, each
\* once, in the order of the connection, under the id of no other session,
\* whoever else calls, connects again or registers the same name
\* (handlermanager.cpp:9-32, netbase.cpp:92-95, 181-196).
CallsTraceable ==
    fault = "none" =>
        \A h \in Handler, c \in Connection :
            \E f \in [CallsFrom(h, c) -> PacketsFor(h, c)] :
                /\ InOrder(f, CallsFrom(h, c), PacketsFor(h, c))
                /\ \A i \in CallsFrom(h, c) : calls[h][i].packet = received[c][f[i]]

\* An owner that stops the network, joins its thread and then destroys handlers
\* that have finished their calls never makes a thread use a destroyed handler,
\* although handlers_ keeps its pointers.  stop() alone is not enough: the io
\* thread may still be about to call the handler (handlermanager.cpp:22-27,
\* netbase.cpp:92-95, 219-228, threadedclass.h:16-19).
OrderlyShutdown == fault = "use after destruction" => early

\* A handler catches up with the calls that were posted to it, the one in the
\* hands of the io thread included, also when the network is stopped first, and
\* whatever other clients call, unless the program ends or the handler is
\* destroyed (handlermanager.cpp:16-32, handlerbase.cpp:13-25).
PacketsRun ==
    \A h \in Handler :
        []<>(\/ inHand = {} /\ started[h] = Len(calls[h])
             \/ fault # "none" \/ ~alive[h])
=============================================================================
