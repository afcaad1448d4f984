------------------------------- MODULE Server -------------------------------
(***************************************************************************)
(* lib/server.cpp: Server (init, listen and the select() loop of poll, as  *)
(* built on POSIX) and ClientConnection.                                   *)
(*                                                                         *)
(* One thread runs poll() and calls the application back; the application  *)
(* may call ClientConnection::sendData from these callbacks and, if it has *)
(* one, also from a thread of its own.  sendData takes two locks one after *)
(* the other, so it is two steps in the other thread.                      *)
(*                                                                         *)
(* The application is assumed to be careful: it calls init, listen and     *)
(* poll in this order and only after success, never starts sendData on a   *)
(* connection it was told is disconnected or of a destroyed server, and    *)
(* its Disconnected callback waits for a sendData that has begun.          *)
(*                                                                         *)
(* Only how much data waits in dataToSend matters here, so it is a number. *)
(* The socket that init() opens before any client connects has the lowest  *)
(* number.                                                                 *)
(***************************************************************************)
EXTENDS Integers, FiniteSets, FiniteSetsExt

CONSTANTS MaxConns,        \* bound on the connections accepted
          MaxFd,           \* sockets 1..MaxFd are for clients, 0 listens
          MaxSends         \* bound on the calls of sendData

ASSUME ServerAssumption ==
    MaxConns \in Nat /\ MaxFd \in Nat \ {0} /\ MaxSends \in Nat

Conn == 1..MaxConns

Fd == 1..MaxFd

ListenFd == 0

None == 0  \* a null ClientConnection*

VARIABLES pc,                  \* which call the server is in, and where
          listener,            \* what listenSocket is
          active_fd_set,       \* the client sockets select() reads from
          read_fd_set,         \* still to be serviced for reading
          write_fd_set,        \* still to be serviced for writing
          clientSockets,       \* the connection of each socket
          state,               \* the life of each ClientConnection
          fd,                  \* its socket
          dataToSend,          \* how much data it has to send
          writingSockets,      \* the connections registered for writing
          connectionsToWrite,  \* those taken over by this round
          missed,              \* those that were not writable in their round
          foreignSender,       \* another thread calls sendData, too
          sender,              \* the connection the other thread is sending to
          raced,               \* writingSockets was changed by both at once
          sends,               \* how many times sendData was called
          fault                \* how the program was ended, if it was

fdSets == <<active_fd_set, read_fd_set, write_fd_set>>
connVars == <<clientSockets, state, fd>>
sendVars == <<dataToSend, writingSockets, missed, sends>>
otherThread == <<foreignSender, sender, raced>>
vars == <<pc, listener, fdSets, connVars, sendVars, connectionsToWrite,
          otherThread, fault>>

Live == {c \in Conn : state[c] = "live"}

TypeOK ==
    /\ pc \in {"init", "listen", "poll",
               "top", "select", "service", "disconnecting",
               "returned", "destroyed"}
    /\ listener \in {"null", "invalid", "unbound", "bound", "elsewhere", "listening"}
    /\ active_fd_set \subseteq Fd
    /\ read_fd_set \subseteq Fd \cup {ListenFd}
    /\ write_fd_set \subseteq Fd
    /\ clientSockets \in [Fd -> Conn \cup {None}]
    /\ state \in [Conn -> {"unused", "live", "deleted"}]
    /\ fd \in [Conn -> Fd]
    /\ dataToSend \in [Conn -> 0..MaxSends]
    /\ writingSockets \subseteq Conn
    /\ connectionsToWrite \subseteq Conn
    /\ missed \subseteq Conn
    /\ foreignSender \in BOOLEAN
    /\ sender \in Conn \cup {None}
    /\ raced \in BOOLEAN
    /\ sends \in 0..MaxSends
    /\ fault \in {"none", "terminate", "use after free"}

Init ==
    /\ pc = "init"
    /\ listener = "null"
    /\ active_fd_set = {}
    /\ read_fd_set = {}
    /\ write_fd_set = {}
    /\ clientSockets = [f \in Fd |-> None]
    /\ state = [c \in Conn |-> "unused"]
    /\ fd = [c \in Conn |-> 1]
    /\ dataToSend = [c \in Conn |-> 0]
    /\ writingSockets = {}
    /\ connectionsToWrite = {}
    /\ missed = {}
    /\ foreignSender \in BOOLEAN
    /\ sender = None
    /\ raced = FALSE
    /\ sends = 0
    /\ fault = "none"

-----------------------------------------------------------------------------
(* ClientConnection::sendData                                              *)

\* Called by a callback on the thread of poll(), for the connections in to.
SendFromCallback(to) ==
    /\ sends + Cardinality(to) <= MaxSends
    /\ sends' = sends + Cardinality(to)
    /\ dataToSend' = [c \in Conn |-> dataToSend[c] + IF c \in to THEN 1 ELSE 0]
    /\ writingSockets' = writingSockets \cup to
    /\ missed' = missed \ to

\* Called by the other thread: the data is appended under the lock of the
\* connection ...
SendAppends(c) ==
    /\ foreignSender
    /\ sender = None
    /\ c \in Live /\ pc # "destroyed"
    /\ sends < MaxSends
    /\ sends' = sends + 1
    /\ dataToSend' = [dataToSend EXCEPT ![c] = @ + 1]
    /\ sender' = c
    /\ UNCHANGED <<pc, listener, fdSets, connVars, writingSockets,
                   connectionsToWrite, missed, foreignSender, raced, fault>>

\* ... and the connection is registered under the lock of the server.
SendRegisters ==
    /\ sender # None
    /\ writingSockets' = writingSockets \cup {sender}
    /\ missed' = missed \ {sender}
    /\ sender' = None
    /\ UNCHANGED <<pc, listener, fdSets, connVars, dataToSend,
                   connectionsToWrite, sends, foreignSender, raced, fault>>

-----------------------------------------------------------------------------
(* Server                                                                  *)

\* getaddrinfo() fails, or socket() returns 0, which is taken for a failure.
InitFails ==
    /\ pc = "init"
    /\ pc' = "returned"
    /\ UNCHANGED <<listener, fdSets, connVars, sendVars, connectionsToWrite,
                   otherThread, fault>>

\* A failure of socket() is -1 and not NULLSOCKET, one of bind() is -1 and not
\* SOCKET_ERROR: init() returns true after either.
InitServer ==
    /\ pc = "init"
    /\ listener' \in {"invalid", "unbound", "bound"}
    /\ pc' = "listen"
    /\ UNCHANGED <<fdSets, connVars, sendVars, connectionsToWrite, otherThread, fault>>

\* listen() on a socket without an address gives it a free port, which no peer
\* knows of.  A failure, -1, is not recognised here either.
Listen ==
    /\ pc = "listen"
    /\ listener' \in {listener} \cup CASE listener = "bound"   -> {"listening"}
                                      [] listener = "unbound" -> {"elsewhere"}
                                      [] OTHER -> {}
    /\ pc' = "poll"
    /\ UNCHANGED <<fdSets, connVars, sendVars, connectionsToWrite, otherThread, fault>>

\* FD_SET of socket -1 is undefined: a checking build aborts, another sets a
\* bit of a socket that is not open.
EnterPoll ==
    /\ pc = "poll"
    /\ \/ pc' = "top" /\ UNCHANGED fault
       \/ listener = "invalid" /\ fault' = "terminate" /\ UNCHANGED pc
    /\ UNCHANGED <<listener, fdSets, connVars, sendVars, connectionsToWrite, otherThread>>

\* ~Impl closes listenSocket.  Nobody deletes the connections.
DestroyServer ==
    /\ pc = "returned" /\ sender = None
    /\ pc' = "destroyed"
    /\ listener' = "null"
    /\ UNCHANGED <<fdSets, connVars, sendVars, connectionsToWrite, otherThread, fault>>

-----------------------------------------------------------------------------
(* Server::poll                                                            *)

\* The registered connections are taken over under the lock; their sockets
\* are read from the objects, which have to exist.
BeginRound ==
    /\ pc = "top"
    /\ connectionsToWrite' = writingSockets
    /\ writingSockets' = {}
    /\ missed' = missed \ writingSockets
    /\ IF writingSockets \subseteq Live
       THEN pc' = "select" /\ UNCHANGED fault
       ELSE fault' = "use after free" /\ UNCHANGED pc
    /\ UNCHANGED <<listener, fdSets, connVars, dataToSend, otherThread, sends>>

SocketsToWrite == {fd[c] : c \in connectionsToWrite}

\* Mutant of SelectReturns: the connections registered by now are forgotten.
SelectReturns_Forgets(readable, writable) ==
    /\ pc = "select"
    /\ readable \cup writable # {}
    /\ read_fd_set' = readable
    /\ write_fd_set' = writable
    /\ missed' = missed \cup {c \in connectionsToWrite : fd[c] \notin writable}
    /\ writingSockets' = {}
    /\ pc' = "service"
    /\ UNCHANGED <<listener, active_fd_set, connVars, dataToSend,
                   connectionsToWrite, otherThread, sends, fault>>

\* select() blocks until a socket is ready.  A connection that is not writable
\* now is not remembered for the next round.
SelectReturns(readable, writable) ==
    /\ pc = "select"
    /\ readable \cup writable # {}
    /\ read_fd_set' = readable
    /\ write_fd_set' = writable
    /\ missed' = missed \cup {c \in connectionsToWrite : fd[c] \notin writable}
    /\ pc' = "service"
    /\ UNCHANGED <<listener, active_fd_set, connVars, dataToSend,
                   writingSockets, connectionsToWrite, otherThread, sends,
                   fault>>

SelectFails ==
    /\ pc = "select"
    /\ pc' = "returned"
    /\ UNCHANGED <<listener, fdSets, connVars, sendVars, connectionsToWrite,
                   otherThread, fault>>

\* The loop visits the ready sockets in ascending order, each one first for
\* reading and then for writing.
Current == Min(read_fd_set \cup write_fd_set)

Reading(f) ==
    /\ pc = "service"
    /\ read_fd_set \cup write_fd_set # {}
    /\ f = Current
    /\ f \in read_fd_set

\* Mutant of Accept: the connection is given the listening socket.
Accept_WrongSocket ==
    /\ Reading(ListenFd)
    /\ listener = "listening"
    /\ \E c \in Conn, f \in Fd \ active_fd_set :
         /\ state[c] = "unused" /\ \A d \in 1..(c - 1) : state[d] # "unused"
         /\ \A g \in 1..(f - 1) : g \in active_fd_set
         /\ active_fd_set' = active_fd_set \cup {f}
         /\ state' = [state EXCEPT ![c] = "live"]
         /\ fd' = [fd EXCEPT ![c] = ListenFd]
         /\ clientSockets' = [clientSockets EXCEPT ![f] = c]
         /\ \E to \in SUBSET {d \in Conn : state'[d] = "live"} : SendFromCallback(to)
    /\ read_fd_set' = read_fd_set \ {ListenFd}
    /\ UNCHANGED <<pc, listener, write_fd_set, connectionsToWrite, otherThread,
                   fault>>

\* accept() returns the lowest free socket.
Accept ==
    /\ Reading(ListenFd)
    /\ listener = "listening"
    /\ \E c \in Conn, f \in Fd \ active_fd_set :
         /\ state[c] = "unused" /\ \A d \in 1..(c - 1) : state[d] # "unused"
         /\ \A g \in 1..(f - 1) : g \in active_fd_set
         /\ active_fd_set' = active_fd_set \cup {f}
         /\ state' = [state EXCEPT ![c] = "live"]
         /\ fd' = [fd EXCEPT ![c] = f]
         /\ clientSockets' = [clientSockets EXCEPT ![f] = c]
         /\ \E to \in SUBSET {d \in Conn : state'[d] = "live"} : SendFromCallback(to)
    /\ read_fd_set' = read_fd_set \ {ListenFd}
    /\ UNCHANGED <<pc, listener, write_fd_set, connectionsToWrite, otherThread,
                   fault>>

AcceptFails ==
    /\ Reading(ListenFd)
    /\ pc' = "returned"
    /\ UNCHANGED <<listener, fdSets, connVars, sendVars, connectionsToWrite,
                   otherThread, fault>>

\* recv() returns data; if it completes a packet, the data callback may send.
ReceiveData(f) ==
    /\ Reading(f)
    /\ f \in Fd
    /\ read_fd_set' = read_fd_set \ {f}
    /\ \E to \in SUBSET Live : SendFromCallback(to)
    /\ UNCHANGED <<pc, listener, active_fd_set, write_fd_set, connVars,
                   connectionsToWrite, otherThread, fault>>

\* recv() fails: the buffer is resized to -1, which throws, and nobody catches.
ReceiveFails(f) ==
    /\ Reading(f)
    /\ f \in Fd
    /\ fault' = "terminate"
    /\ UNCHANGED <<pc, listener, fdSets, connVars, sendVars,
                   connectionsToWrite, otherThread>>

\* Mutant of PeerClosed: the connection stays registered for writing.
PeerClosed_StaysRegistered(f) ==
    /\ Reading(f)
    /\ f \in Fd
    /\ pc' = "disconnecting"
    /\ UNCHANGED <<listener, fdSets, connVars, sendVars, connectionsToWrite,
                   otherThread, fault>>

\* writingSockets.erase while the other thread is not changing the set.
EraseAlone(c) ==
    /\ writingSockets' = writingSockets \ {c}
    /\ UNCHANGED <<missed, otherThread, fault>>

\* The erase overlaps the insert of the other thread, which is in sendData: the
\* lock that it holds does not keep the erase out.  The program crashes, or the
\* set keeps some of what was in it and what was inserted.  What else a damaged
\* set may do later is not followed.
EraseRaces ==
    /\ sender # None
    /\ writingSockets' \in SUBSET (writingSockets \cup {sender})
    /\ missed' = missed \ {sender}
    /\ sender' = None
    /\ raced' = TRUE
    /\ fault' \in {"none", "terminate"}
    /\ UNCHANGED foreignSender

\* recv() returns 0.  The connection is taken out of writingSockets, without
\* the lock and before the application is told.
PeerClosed(f) ==
    /\ Reading(f)
    /\ f \in Fd
    /\ EraseAlone(clientSockets[f]) \/ EraseRaces
    /\ pc' = "disconnecting"
    /\ UNCHANGED <<listener, fdSets, connVars, dataToSend, connectionsToWrite, sends>>

\* Mutant of Disconnect: the connection is deleted but not taken out of
\* clientSockets.
Disconnect_KeepsEntry ==
    /\ pc = "disconnecting"
    /\ sender # clientSockets[Current]
    /\ LET c == clientSockets[Current]
       IN  state' = [state EXCEPT ![c] = "deleted"]
    /\ active_fd_set' = active_fd_set \ {Current}
    /\ read_fd_set' = read_fd_set \ {Current}
    /\ write_fd_set' = write_fd_set \ {Current}
    /\ pc' = "service"
    /\ UNCHANGED <<listener, clientSockets, fd, sendVars, connectionsToWrite,
                   otherThread, fault>>

\* The connection is taken out of clientSockets (which only this thread uses),
\* the application is told (the callback may send to other connections), the
\* connection is deleted, the socket has nothing left to be serviced, and it
\* is closed.
Disconnect ==
    /\ pc = "disconnecting"
    /\ LET c == clientSockets[Current]
       IN  /\ sender # c
           /\ state' = [state EXCEPT ![c] = "deleted"]
           /\ \E to \in SUBSET (Live \ {c}) : SendFromCallback(to)
    /\ clientSockets' = [clientSockets EXCEPT ![Current] = None]
    /\ active_fd_set' = active_fd_set \ {Current}
    /\ read_fd_set' = read_fd_set \ {Current}
    /\ write_fd_set' = write_fd_set \ {Current}
    /\ pc' = "service"
    /\ UNCHANGED <<listener, fd, connectionsToWrite, otherThread, fault>>

\* sendDataToSocket: everything that waits is given to send(), which may take
\* less: the rest is dropped.
WriteData(f) ==
    /\ pc = "service"
    /\ f \in write_fd_set \ read_fd_set
    /\ f = Current
    /\ LET c == clientSockets[f]
       IN  dataToSend' = IF c = None THEN dataToSend ELSE [dataToSend EXCEPT ![c] = 0]
    /\ write_fd_set' = write_fd_set \ {f}
    /\ UNCHANGED <<pc, listener, active_fd_set, read_fd_set, connVars,
                   writingSockets, connectionsToWrite, missed, otherThread,
                   sends, fault>>

\* send() on a connection that the peer has reset raises SIGPIPE, which nobody
\* ignores or handles.
WriteRaisesSignal(f) ==
    /\ pc = "service"
    /\ f \in write_fd_set \ read_fd_set
    /\ f = Current
    /\ clientSockets[f] # None
    /\ fault' = "terminate"
    /\ UNCHANGED <<pc, listener, fdSets, connVars, sendVars,
                   connectionsToWrite, otherThread>>

\* Mutant of EndRound: what the callbacks of this round registered is lost.
EndRound_Clears ==
    /\ pc = "service"
    /\ read_fd_set \cup write_fd_set = {}
    /\ connectionsToWrite' = {}
    /\ writingSockets' = {}
    /\ pc' = "top"
    /\ UNCHANGED <<listener, fdSets, connVars, dataToSend, missed, otherThread,
                   sends, fault>>

EndRound ==
    /\ pc = "service"
    /\ read_fd_set \cup write_fd_set = {}
    /\ connectionsToWrite' = {}
    /\ pc' = "top"
    /\ UNCHANGED <<listener, fdSets, connVars, sendVars, otherThread, fault>>

-----------------------------------------------------------------------------

\* A new connection is only reported while the model has room for one.  A
\* socket that does not listen is readable at once, and accept() fails.
ListenerReadable ==
    \/ listener \in {"unbound", "bound"}
    \/ /\ listener = "listening"
       /\ active_fd_set # Fd
       /\ \E c \in Conn : state[c] = "unused"

Readable == active_fd_set \cup IF ListenerReadable THEN {ListenFd} ELSE {}

Service ==
    \/ Accept
    \/ \E f \in Fd : ReceiveData(f) \/ PeerClosed(f) \/ WriteData(f)
    \/ Disconnect
    \/ EndRound

Select ==
    /\ listener # "invalid"
    /\ \E r \in SUBSET Readable, w \in SUBSET SocketsToWrite : SelectReturns(r, w)

Failure ==
    \/ InitFails
    \/ SelectFails
    \/ AcceptFails
    \/ \E f \in Fd : ReceiveFails(f) \/ WriteRaisesSignal(f)

Setup == InitServer \/ Listen \/ EnterPoll

Poll == BeginRound \/ Select \/ Service

Sender == SendRegisters \/ \E c \in Conn : SendAppends(c)

Next ==
    \/ fault = "none" /\ (Setup \/ Poll \/ Failure \/ Sender \/ DestroyServer)
    \/ (fault # "none" \/ pc \in {"select", "destroyed"}) /\ UNCHANGED vars

Spec == Init /\ [][Next]_vars

\* The poll thread runs, and select() returns when it waits for sockets to
\* become writable: the peers read or go away.  Nobody is obliged to connect
\* or to send.
WriteReady == pc = "select" /\ SocketsToWrite # {} /\ Select

FairSpec ==
    /\ Spec
    /\ WF_vars(fault = "none" /\ (BeginRound \/ WriteReady \/ Service))

-----------------------------------------------------------------------------
(* Properties.                                                             *)

\* clientSockets and the connection objects agree: a socket that is read from
\* leads to a connection that exists and uses this socket, and every
\* connection that exists can be found, also when sockets are reused
\* (server.cpp:240-256, 262-271).
ClientSocketsLive ==
    /\ \A f \in active_fd_set :
         clientSockets[f] \in Live /\ fd[clientSockets[f]] = f
    /\ \A f \in Fd \ active_fd_set : clientSockets[f] = None
    /\ \A c \in Live : clientSockets[fd[c]] = c

\* Data that waits on a connection is forgotten only if select() found the
\* socket not writable: otherwise the connection is registered, or this round
\* will write it, or the sender is about to register it.  This holds also while
\* another thread sends, until one of its inserts meets the erase that is done
\* without the lock: then registrations of any connection may be lost
\* (server.cpp:198-206, 251, 282-290, 310-316).
Scheduled(c) ==
    \/ c \in writingSockets
    \/ pc = "select" /\ c \in connectionsToWrite
    \/ pc \in {"service", "disconnecting"} /\ fd[c] \in write_fd_set
    \/ sender = c
    \/ pc = "disconnecting" /\ clientSockets[Current] = c

PendingScheduled ==
    fault = "none" /\ ~raced /\ pc \notin {"returned", "destroyed"} =>
        \A c \in Live : dataToSend[c] > 0 => Scheduled(c) \/ c \in missed

\* When only callbacks send, no deleted connection is registered for writing,
\* so that the next round does not follow a dangling pointer
\* (server.cpp:198-206, 247-257).
NoDanglingWriter == ~foreignSender => writingSockets \subseteq Live

\* When only callbacks send, data that was given to sendData is written, unless
\* select() finds the socket not writable or the connection or the server ends
\* (server.cpp:196-273).
DataSent ==
    \A c \in Conn :
        (~foreignSender /\ dataToSend[c] > 0)
            ~> (\/ dataToSend[c] = 0 \/ c \in missed \/ c \notin Live
                \/ fault # "none" \/ pc \in {"returned", "destroyed"})
=============================================================================
