---------------------------- MODULE ServerProofs ----------------------------
(***************************************************************************)
(* Proofs about Server, for any number of connections, sockets and calls   *)
(* of sendData.                                                            *)
(***************************************************************************)
EXTENDS Server, FiniteSetTheorems, SequenceLemmas

-----------------------------------------------------------------------------
(* The inductive invariant.                                                *)

\* select() may only be given connections that exist.
SelectSound == pc = "select" => connectionsToWrite \subseteq Live

\* What a round still has to service are sockets that are in use.
RoundSound ==
    pc \in {"service", "disconnecting"} =>
        /\ read_fd_set \subseteq active_fd_set \cup {ListenFd}
        /\ write_fd_set \subseteq active_fd_set

\* The socket that is being closed is the current one, and without another
\* thread nobody registers its connection any more.
ClosingSound ==
    pc = "disconnecting" =>
        /\ Current \in Fd /\ Current \in read_fd_set
        /\ ~foreignSender => clientSockets[Current] \notin writingSockets

NoForeignSend == ~foreignSender => sender = None

\* dataToSend counts calls of sendData, and a connection that was never
\* accepted got none.
DataCounted ==
    \A c \in Conn : /\ dataToSend[c] <= sends
                    /\ state[c] = "unused" => dataToSend[c] = 0

IInv ==
    /\ TypeOK
    /\ SelectSound
    /\ RoundSound
    /\ ClosingSound
    /\ NoForeignSend
    /\ DataCounted
    /\ ClientSocketsLive
    /\ NoDanglingWriter
    /\ PendingScheduled

-----------------------------------------------------------------------------
(* What the helpers do.                                                    *)

\* The next socket to be serviced is one of those that are ready.
LEMMA CurrentReady ==
    ASSUME TypeOK, read_fd_set \cup write_fd_set # {}
    PROVE  Current \in read_fd_set \cup write_fd_set
<1> DEFINE S == read_fd_set \cup write_fd_set
<1>1. S \in SUBSET Nat /\ S # {}
  <2>1. MaxFd \in Nat
    BY ServerAssumption
  <2>2. Fd \cup {ListenFd} \subseteq Nat
    BY <2>1 DEF Fd, ListenFd
  <2> QED
    BY <2>2 DEF TypeOK
<1> HIDE DEF S
<1>2. PICK m \in S : \A k \in S : m <= k
  BY <1>1, LeastNatural
<1>3. Min(S) \in S
  BY <1>2 DEF Min
<1> QED
  BY <1>3 DEF Current, S

\* sendData of a callback: the connections in to get data and are registered.
LEMMA CallbackFacts ==
    ASSUME TypeOK, DataCounted, NEW to \in SUBSET Conn, SendFromCallback(to)
    PROVE  /\ sends' \in 0..MaxSends /\ sends <= sends'
           /\ dataToSend' \in [Conn -> 0..MaxSends]
           /\ \A c \in Conn : dataToSend'[c] <= sends'
           /\ \A c \in Conn \ to : dataToSend'[c] = dataToSend[c]
           /\ writingSockets' = writingSockets \cup to
           /\ missed' = missed \ to
<1>1. IsFiniteSet(to) /\ Cardinality(to) \in Nat
  <2>1. IsFiniteSet(Conn)
    BY ServerAssumption, FS_Interval DEF Conn
  <2> QED
    BY <2>1, FS_Subset, FS_CardinalityType
<1>2. \A c \in to : Cardinality(to) >= 1
  <2>1. Cardinality(to) = 0 <=> to = {}
    BY <1>1, FS_EmptySet
  <2> QED
    BY <1>1, <2>1
<1>3. /\ sends \in 0..MaxSends /\ MaxSends \in Nat
      /\ dataToSend \in [Conn -> 0..MaxSends]
      /\ \A c \in Conn : dataToSend[c] <= sends
  BY ServerAssumption DEF TypeOK, DataCounted
<1>4. /\ sends + Cardinality(to) <= MaxSends
      /\ sends' = sends + Cardinality(to)
      /\ dataToSend' = [c \in Conn |-> dataToSend[c] + IF c \in to THEN 1 ELSE 0]
      /\ writingSockets' = writingSockets \cup to
      /\ missed' = missed \ to
  BY DEF SendFromCallback
<1>5. ASSUME NEW c \in Conn
      PROVE  /\ dataToSend'[c] \in Nat /\ dataToSend'[c] <= sends'
             /\ c \notin to => dataToSend'[c] = dataToSend[c]
  <2>1. dataToSend'[c] = dataToSend[c] + IF c \in to THEN 1 ELSE 0
    BY <1>4
  <2>2. dataToSend[c] \in Nat /\ dataToSend[c] <= sends /\ sends \in Nat
    BY <1>3
  <2>3. CASE c \in to
    BY <1>1, <1>2, <1>4, <2>1, <2>2, <2>3
  <2>4. CASE c \notin to
    BY <1>1, <1>4, <2>1, <2>2, <2>4
  <2> QED
    BY <2>3, <2>4
<1>6. sends' \in 0..MaxSends /\ sends <= sends'
  BY <1>1, <1>3, <1>4
<1>7. \A c \in Conn : dataToSend'[c] \in 0..MaxSends
  BY <1>3, <1>5, <1>6
<1>8. dataToSend' \in [Conn -> 0..MaxSends]
  BY <1>4, <1>7
<1> QED
  BY <1>4, <1>5, <1>6, <1>8

\* A connection that exists is the one of its socket, and of no other.
LEMMA SocketsDiffer ==
    ASSUME TypeOK, ClientSocketsLive, NEW c \in Live
    PROVE  /\ fd[c] \in active_fd_set
           /\ \A f \in Fd : clientSockets[f] = c => f = fd[c]
<1>1. c \in Conn /\ c # None /\ fd[c] \in Fd
  <2>1. c \in Conn
    BY DEF Live
  <2>2. MaxConns \in Nat
    BY ServerAssumption
  <2>3. c # None
    BY <2>1, <2>2 DEF Conn, None
  <2> QED
    BY <2>1, <2>3 DEF TypeOK
<1>2. clientSockets[fd[c]] = c
  BY DEF ClientSocketsLive
<1> QED
  BY <1>1, <1>2 DEF ClientSocketsLive

-----------------------------------------------------------------------------
(* The invariant holds initially and every action preserves it.            *)

\* Nothing is set up yet: the invariant holds.
LEMMA InitIInv == Init => IInv
<1> SUFFICES ASSUME Init PROVE IInv
  OBVIOUS
<1>1. 1 \in Fd /\ 0 \in 0..MaxSends
  BY ServerAssumption DEF Fd
<1>2. TypeOK
  BY <1>1 DEF Init, TypeOK
<1>3. SelectSound /\ RoundSound /\ ClosingSound /\ NoForeignSend /\ DataCounted
  BY DEF Init, SelectSound, RoundSound, ClosingSound, NoForeignSend, DataCounted
<1>4. Live = {}
  BY DEF Init, Live
<1>5. ClientSocketsLive /\ NoDanglingWriter /\ PendingScheduled
  BY <1>4 DEF Init, ClientSocketsLive, NoDanglingWriter, PendingScheduled
<1> QED
  BY <1>2, <1>3, <1>5 DEF IInv

\* Steps outside of a round, and the failures that end the program or poll().
LEMMA KeptIInv ==
    ASSUME IInv, UNCHANGED <<fdSets, connVars, sendVars, connectionsToWrite, otherThread>>,
           listener' \in {"null", "invalid", "unbound", "bound", "elsewhere", "listening"},
           fault' \in {"none", "terminate", "use after free"},
           fault' = "none" => fault = "none",
           \/ pc' = pc
           \/ pc' \in {"returned", "destroyed"}
           \/ pc \in {"init", "listen", "poll"} /\ pc' \in {"listen", "poll", "top"}
    PROVE  IInv'
<1>1. UNCHANGED <<active_fd_set, read_fd_set, write_fd_set, clientSockets, state, fd,
                  dataToSend, writingSockets, missed, sends, connectionsToWrite,
                  foreignSender, sender, raced>>
  BY DEF fdSets, connVars, sendVars, otherThread
<1>2. Live' = Live /\ Current' = Current
  BY <1>1 DEF Live, Current
<1>3. TypeOK'
  BY <1>1 DEF IInv, TypeOK
<1>4. SelectSound' /\ RoundSound' /\ ClosingSound'
  BY <1>1, <1>2 DEF IInv, SelectSound, RoundSound, ClosingSound
<1>5. NoForeignSend' /\ DataCounted'
  BY <1>1 DEF IInv, NoForeignSend, DataCounted
<1>6. ClientSocketsLive' /\ NoDanglingWriter'
  BY <1>1, <1>2 DEF IInv, ClientSocketsLive, NoDanglingWriter
<1>7. PendingScheduled'
  BY <1>1, <1>2 DEF IInv, PendingScheduled, Scheduled
<1> QED
  BY <1>3, <1>4, <1>5, <1>6, <1>7 DEF IInv

\* The other thread appends its data.
LEMMA SendAppendsIInv ==
    ASSUME IInv, NEW c \in Conn, SendAppends(c)
    PROVE  IInv'
<1>1. /\ foreignSender /\ sender = None /\ c \in Live /\ sends < MaxSends
      /\ sends' = sends + 1
      /\ dataToSend' = [dataToSend EXCEPT ![c] = @ + 1]
      /\ sender' = c
      /\ UNCHANGED <<pc, listener, active_fd_set, read_fd_set, write_fd_set,
                     clientSockets, state, fd, writingSockets,
                     connectionsToWrite, missed, foreignSender, raced, fault>>
  BY DEF SendAppends, fdSets, connVars
<1>2. /\ sends \in 0..MaxSends /\ MaxSends \in Nat
      /\ dataToSend \in [Conn -> 0..MaxSends]
      /\ \A d \in Conn : dataToSend[d] <= sends
  BY ServerAssumption DEF IInv, TypeOK, DataCounted
<1>3. Live' = Live /\ Current' = Current
  BY <1>1 DEF Live, Current
<1>4. \A d \in Conn : dataToSend'[d] = IF d = c THEN dataToSend[c] + 1 ELSE dataToSend[d]
  BY <1>1, <1>2
<1>5. /\ sends' \in 0..MaxSends
      /\ \A d \in Conn : dataToSend'[d] \in 0..MaxSends /\ dataToSend'[d] <= sends'
  BY <1>1, <1>2, <1>4
<1>6. TypeOK'
  <2>1. dataToSend' \in [Conn -> 0..MaxSends]
    BY <1>1, <1>2, <1>5
  <2> QED
    BY <1>1, <1>5, <2>1 DEF IInv, TypeOK
<1>7. SelectSound' /\ RoundSound' /\ ClosingSound' /\ NoForeignSend'
  BY <1>1, <1>3 DEF IInv, SelectSound, RoundSound, ClosingSound, NoForeignSend
<1>8. DataCounted'
  <2>1. state[c] = "live"
    BY <1>1 DEF Live
  <2> QED
    BY <1>1, <1>4, <1>5, <2>1 DEF IInv, DataCounted
<1>9. ClientSocketsLive' /\ NoDanglingWriter'
  BY <1>1, <1>3 DEF IInv, ClientSocketsLive, NoDanglingWriter
<1>10. PendingScheduled'
  <2> SUFFICES ASSUME fault = "none", ~raced, pc \notin {"returned", "destroyed"},
                      NEW d \in Live, dataToSend'[d] > 0
               PROVE  Scheduled(d)' \/ d \in missed'
    BY <1>1, <1>3 DEF PendingScheduled
  <2>1. CASE d = c
    BY <1>1, <2>1 DEF Scheduled
  <2>2. CASE d # c
    <3>1. d \in Conn /\ dataToSend[d] > 0 /\ d # None
      BY <1>4, <2>2 DEF Live, Conn, None
    <3>2. Scheduled(d) \/ d \in missed
      BY <3>1 DEF IInv, PendingScheduled
    <3> QED
      BY <1>1, <1>3, <3>1, <3>2 DEF Scheduled
  <2> QED
    BY <2>1, <2>2
<1> QED
  BY <1>6, <1>7, <1>8, <1>9, <1>10 DEF IInv

\* The other thread registers the connection.
LEMMA SendRegistersIInv ==
    ASSUME IInv, SendRegisters
    PROVE  IInv'
<1>1. /\ sender # None
      /\ writingSockets' = writingSockets \cup {sender}
      /\ missed' = missed \ {sender}
      /\ sender' = None
      /\ UNCHANGED <<pc, listener, active_fd_set, read_fd_set, write_fd_set,
                     clientSockets, state, fd, dataToSend,
                     connectionsToWrite, sends, foreignSender, raced, fault>>
  BY DEF SendRegisters, fdSets, connVars
<1>2. foreignSender /\ sender \in Conn
  BY <1>1 DEF IInv, NoForeignSend, TypeOK
<1>3. Live' = Live /\ Current' = Current
  BY <1>1 DEF Live, Current
<1>4. TypeOK'
  BY <1>1, <1>2 DEF IInv, TypeOK
<1>5. SelectSound' /\ RoundSound' /\ ClosingSound' /\ NoForeignSend'
  BY <1>1, <1>2, <1>3 DEF IInv, SelectSound, RoundSound, ClosingSound, NoForeignSend
<1>6. DataCounted'
  BY <1>1 DEF IInv, DataCounted
<1>7. ClientSocketsLive' /\ NoDanglingWriter'
  BY <1>1, <1>2, <1>3 DEF IInv, ClientSocketsLive, NoDanglingWriter
<1>8. PendingScheduled'
  BY <1>1, <1>3 DEF IInv, PendingScheduled, Scheduled
<1> QED
  BY <1>4, <1>5, <1>6, <1>7, <1>8 DEF IInv
\* A round begins: the registered connections are taken over.
LEMMA BeginRoundIInv ==
    ASSUME IInv, BeginRound
    PROVE  IInv'
<1>1. /\ pc = "top"
      /\ connectionsToWrite' = writingSockets /\ writingSockets' = {}
      /\ missed' = missed \ writingSockets
      /\ UNCHANGED <<listener, active_fd_set, read_fd_set, write_fd_set, clientSockets,
                     state, fd, dataToSend, foreignSender, sender, raced, sends>>
  BY DEF BeginRound, fdSets, connVars, otherThread
<1>2. \/ writingSockets \subseteq Live /\ pc' = "select" /\ fault' = fault
      \/ fault' = "use after free" /\ pc' = pc
  BY DEF BeginRound
<1>3. Live' = Live
  BY <1>1 DEF Live
<1>4. TypeOK'
  BY <1>1, <1>2 DEF IInv, TypeOK
<1>5. SelectSound' /\ RoundSound' /\ ClosingSound'
  BY <1>1, <1>2, <1>3 DEF SelectSound, RoundSound, ClosingSound
<1>6. NoForeignSend' /\ DataCounted' /\ NoDanglingWriter'
  BY <1>1 DEF IInv, NoForeignSend, DataCounted, NoDanglingWriter
<1>7. ClientSocketsLive'
  BY <1>1, <1>3 DEF IInv, ClientSocketsLive
<1>8. PendingScheduled'
  BY <1>1, <1>2, <1>3 DEF IInv, PendingScheduled, Scheduled
<1> QED
  BY <1>4, <1>5, <1>6, <1>7, <1>8 DEF IInv

\* select() returns: a connection that is not writable is missed.
LEMMA SelectIInv ==
    ASSUME IInv, Select
    PROVE  IInv'
<1>1. PICK r \in SUBSET Readable, w \in SUBSET SocketsToWrite : SelectReturns(r, w)
  BY DEF Select
<1>2. /\ pc = "select" /\ read_fd_set' = r /\ write_fd_set' = w
      /\ missed' = missed \cup {c \in connectionsToWrite : fd[c] \notin w}
      /\ pc' = "service"
      /\ UNCHANGED <<listener, active_fd_set, clientSockets, state, fd, dataToSend,
                     writingSockets, connectionsToWrite, foreignSender, sender, raced, sends, fault>>
  BY <1>1 DEF SelectReturns, connVars, otherThread
<1>3. Live' = Live
  BY <1>2 DEF Live
<1>4. TypeOK /\ ClientSocketsLive /\ connectionsToWrite \subseteq Live
  BY <1>2 DEF IInv, SelectSound
<1>5. r \subseteq active_fd_set \cup {ListenFd} /\ w \subseteq active_fd_set
  <2>1. \A c \in connectionsToWrite : fd[c] \in active_fd_set
    BY <1>4, SocketsDiffer
  <2> QED
    BY <2>1 DEF Readable, SocketsToWrite
<1>6. TypeOK'
  BY <1>2, <1>4, <1>5 DEF TypeOK
<1>7. SelectSound' /\ RoundSound' /\ ClosingSound'
  BY <1>2, <1>5 DEF SelectSound, RoundSound, ClosingSound
<1>8. NoForeignSend' /\ DataCounted' /\ NoDanglingWriter'
  BY <1>2, <1>3 DEF IInv, NoForeignSend, DataCounted, NoDanglingWriter
<1>9. ClientSocketsLive'
  BY <1>2, <1>3, <1>4 DEF ClientSocketsLive
<1>10. PendingScheduled'
  BY <1>2, <1>3 DEF IInv, PendingScheduled, Scheduled
<1> QED
  BY <1>6, <1>7, <1>8, <1>9, <1>10 DEF IInv

\* A connection is accepted on a socket that was free.
LEMMA AcceptIInv ==
    ASSUME IInv, Accept
    PROVE  IInv'
<1>1. PICK c \in Conn, f \in Fd \ active_fd_set :
        /\ state[c] = "unused"
        /\ active_fd_set' = active_fd_set \cup {f}
        /\ state' = [state EXCEPT ![c] = "live"]
        /\ fd' = [fd EXCEPT ![c] = f]
        /\ clientSockets' = [clientSockets EXCEPT ![f] = c]
        /\ \E to \in SUBSET {d \in Conn : state'[d] = "live"} : SendFromCallback(to)
  BY DEF Accept
<1>2. PICK to \in SUBSET {d \in Conn : state'[d] = "live"} : SendFromCallback(to)
  BY <1>1
<1>3. /\ pc = "service"
      /\ read_fd_set' = read_fd_set \ {ListenFd}
      /\ UNCHANGED <<pc, listener, write_fd_set, connectionsToWrite, foreignSender, sender, raced, fault>>
  BY DEF Accept, Reading, otherThread
<1>4. /\ TypeOK /\ DataCounted /\ ClientSocketsLive /\ RoundSound
      /\ state \in [Conn -> {"unused", "live", "deleted"}]
      /\ fd \in [Conn -> Fd] /\ clientSockets \in [Fd -> Conn \cup {None}]
  BY DEF IInv, TypeOK
<1>5. /\ sends' \in 0..MaxSends /\ sends <= sends'
      /\ dataToSend' \in [Conn -> 0..MaxSends]
      /\ \A d \in Conn : dataToSend'[d] <= sends'
      /\ \A d \in Conn \ to : dataToSend'[d] = dataToSend[d]
      /\ writingSockets' = writingSockets \cup to
      /\ missed' = missed \ to
  <2>1. to \in SUBSET Conn
    BY <1>2
  <2> QED
    BY <1>2, <1>4, <2>1, CallbackFacts
<1>6. Live' = Live \cup {c} /\ c \notin Live /\ to \subseteq Live'
  BY <1>1, <1>2, <1>4 DEF Live
<1>7. TypeOK'
  BY <1>1, <1>2, <1>3, <1>4, <1>5 DEF TypeOK
<1>8. \A d \in Live : fd[d] \in active_fd_set /\ fd[d] # f
  BY <1>1, <1>4, SocketsDiffer
<1>9. SelectSound' /\ RoundSound' /\ ClosingSound' /\ NoForeignSend'
  BY <1>1, <1>3, <1>4 DEF IInv, SelectSound, RoundSound, ClosingSound, NoForeignSend
<1>10. DataCounted'
  <2> SUFFICES ASSUME NEW d \in Conn, state'[d] = "unused"
               PROVE  dataToSend'[d] = 0
    BY <1>5 DEF DataCounted
  <2>1. d \notin to /\ state[d] = "unused"
    BY <1>1, <1>2, <1>4
  <2> QED
    BY <1>4, <1>5, <2>1 DEF DataCounted
<1>11. ClientSocketsLive'
  <2>1. \A g \in Fd : clientSockets'[g] = IF g = f THEN c ELSE clientSockets[g]
    BY <1>1, <1>4
  <2>2. \A d \in Conn : fd'[d] = IF d = c THEN f ELSE fd[d]
    BY <1>1, <1>4
  <2>3. \A g \in active_fd_set' : clientSockets'[g] \in Live' /\ fd'[clientSockets'[g]] = g
    <3> SUFFICES ASSUME NEW g \in active_fd_set'
                 PROVE  clientSockets'[g] \in Live' /\ fd'[clientSockets'[g]] = g
      OBVIOUS
    <3>1. CASE g = f
      BY <1>1, <1>6, <2>1, <2>2, <3>1
    <3>2. CASE g # f
      <4>1. g \in active_fd_set /\ g \in Fd
        BY <1>1, <1>4, <3>2 DEF TypeOK
      <4>2. clientSockets[g] \in Live /\ fd[clientSockets[g]] = g /\ clientSockets[g] # c
        BY <1>4, <1>6, <4>1 DEF ClientSocketsLive
      <4>3. clientSockets[g] \in Conn
        BY <4>2 DEF Live
      <4> QED
        BY <1>6, <2>1, <2>2, <3>2, <4>1, <4>2, <4>3
    <3> QED
      BY <3>1, <3>2
  <2>4. \A g \in Fd \ active_fd_set' : clientSockets'[g] = None
    BY <1>1, <1>4, <2>1 DEF ClientSocketsLive
  <2>5. ASSUME NEW d \in Live'
        PROVE  clientSockets'[fd'[d]] = d
    <3>1. CASE d = c
      BY <1>1, <2>1, <2>2, <3>1
    <3>2. CASE d # c
      <4>1. d \in Live /\ d \in Conn /\ fd[d] \in Fd
        BY <1>4, <1>6, <3>2 DEF Live
      <4>2. fd'[d] = fd[d] /\ fd[d] # f /\ clientSockets[fd[d]] = d
        BY <1>4, <1>8, <2>2, <3>2, <4>1 DEF ClientSocketsLive
      <4> QED
        BY <2>1, <4>1, <4>2
    <3> QED
      BY <3>1, <3>2
  <2> QED
    BY <2>3, <2>4, <2>5 DEF ClientSocketsLive
<1>12. NoDanglingWriter'
  BY <1>3, <1>5, <1>6 DEF IInv, NoDanglingWriter
<1>13. PendingScheduled'
  <2> SUFFICES ASSUME fault = "none", ~raced, NEW d \in Live', dataToSend'[d] > 0
               PROVE  d \in writingSockets' \/ fd'[d] \in write_fd_set \/ sender = d \/ d \in missed'
    BY <1>3 DEF PendingScheduled, Scheduled
  <2>1. CASE d \in to
    BY <1>5, <2>1
  <2>2. CASE d \notin to
    <3>1. d \in Conn /\ dataToSend[d] > 0
      BY <1>5, <1>6, <2>2 DEF Live
    <3>2. d # c /\ d \in Live
      BY <1>1, <1>4, <1>6, <3>1 DEF DataCounted
    <3>3. Scheduled(d) \/ d \in missed
      BY <1>3, <3>1, <3>2 DEF IInv, PendingScheduled
    <3>4. fd'[d] = fd[d]
      BY <1>1, <1>4, <3>1, <3>2
    <3> QED
      BY <1>3, <1>5, <2>2, <3>3, <3>4 DEF Scheduled
  <2> QED
    BY <2>1, <2>2
<1> QED
  BY <1>7, <1>9, <1>10, <1>11, <1>12, <1>13 DEF IInv
\* Data is received, and the callback may send.
LEMMA ReceiveIInv ==
    ASSUME IInv, NEW f \in Fd, ReceiveData(f)
    PROVE  IInv'
<1>1. PICK to \in SUBSET Live : SendFromCallback(to)
  BY DEF ReceiveData
<1>2. /\ pc = "service"
      /\ read_fd_set' = read_fd_set \ {f}
      /\ UNCHANGED <<pc, listener, active_fd_set, write_fd_set, clientSockets, state, fd,
                     connectionsToWrite, foreignSender, sender, raced, fault>>
  BY DEF ReceiveData, Reading, connVars, otherThread
<1>3. Live' = Live /\ to \in SUBSET Conn
  BY <1>2 DEF Live
<1>4. /\ sends' \in 0..MaxSends /\ sends <= sends'
      /\ dataToSend' \in [Conn -> 0..MaxSends]
      /\ \A d \in Conn : dataToSend'[d] <= sends'
      /\ \A d \in Conn \ to : dataToSend'[d] = dataToSend[d]
      /\ writingSockets' = writingSockets \cup to
      /\ missed' = missed \ to
  BY <1>1, <1>3, CallbackFacts DEF IInv
<1>5. TypeOK'
  BY <1>2, <1>3, <1>4 DEF IInv, TypeOK
<1>6. SelectSound' /\ RoundSound' /\ ClosingSound' /\ NoForeignSend'
  BY <1>2 DEF IInv, SelectSound, RoundSound, ClosingSound, NoForeignSend
<1>7. DataCounted'
  BY <1>1, <1>2, <1>4 DEF IInv, DataCounted, Live
<1>8. ClientSocketsLive' /\ NoDanglingWriter'
  BY <1>2, <1>3, <1>4 DEF IInv, ClientSocketsLive, NoDanglingWriter
<1>9. PendingScheduled'
  <2> SUFFICES ASSUME fault = "none", ~raced, NEW d \in Live, dataToSend'[d] > 0
               PROVE  d \in writingSockets' \/ fd[d] \in write_fd_set \/ sender = d \/ d \in missed'
    BY <1>2, <1>3 DEF PendingScheduled, Scheduled
  <2>1. CASE d \in to
    BY <1>4, <2>1
  <2>2. CASE d \notin to
    <3>1. dataToSend[d] > 0
      BY <1>4, <2>2 DEF Live
    <3> QED
      BY <1>2, <1>4, <2>2, <3>1 DEF IInv, PendingScheduled, Scheduled
  <2> QED
    BY <2>1, <2>2
<1> QED
  BY <1>5, <1>6, <1>7, <1>8, <1>9 DEF IInv

\* The peer has closed: its connection is not registered any more, unless the
\* erase meets the insert of another thread.
LEMMA PeerClosedIInv ==
    ASSUME IInv, NEW f \in Fd, PeerClosed(f)
    PROVE  IInv'
<1>1. /\ pc = "service" /\ f = Current /\ f \in read_fd_set
      /\ pc' = "disconnecting"
      /\ UNCHANGED <<listener, active_fd_set, read_fd_set, write_fd_set, clientSockets,
                     state, fd, dataToSend, connectionsToWrite, foreignSender, sends>>
  BY DEF PeerClosed, Reading, fdSets, connVars, EraseAlone, EraseRaces, otherThread
<1>2. Live' = Live /\ Current' = Current
  BY <1>1 DEF Live, Current
<1>3. CASE EraseAlone(clientSockets[f])
  <2>1. /\ writingSockets' = writingSockets \ {clientSockets[f]}
        /\ UNCHANGED <<missed, sender, raced, fault>>
    BY <1>3 DEF EraseAlone, otherThread
  <2>2. TypeOK'
    BY <1>1, <2>1 DEF IInv, TypeOK
  <2>3. SelectSound' /\ RoundSound' /\ ClosingSound' /\ NoForeignSend'
    BY <1>1, <1>2, <2>1 DEF IInv, SelectSound, RoundSound, ClosingSound, NoForeignSend
  <2>4. DataCounted'
    BY <1>1 DEF IInv, DataCounted
  <2>5. ClientSocketsLive' /\ NoDanglingWriter'
    BY <1>1, <1>2, <2>1 DEF IInv, ClientSocketsLive, NoDanglingWriter
  <2>6. PendingScheduled'
    BY <1>1, <1>2, <2>1 DEF IInv, PendingScheduled, Scheduled
  <2> QED
    BY <2>2, <2>3, <2>4, <2>5, <2>6 DEF IInv
<1>4. CASE EraseRaces
  <2>1. /\ sender # None /\ sender' = None /\ raced' = TRUE
        /\ writingSockets' \in SUBSET (writingSockets \cup {sender})
        /\ missed' = missed \ {sender}
        /\ fault' \in {"none", "terminate"}
    BY <1>4 DEF EraseRaces
  <2>2. foreignSender /\ sender \in Conn
    BY <2>1 DEF IInv, NoForeignSend, TypeOK
  <2>3. TypeOK'
    BY <1>1, <2>1, <2>2 DEF IInv, TypeOK
  <2>4. SelectSound' /\ RoundSound' /\ ClosingSound' /\ NoForeignSend'
    BY <1>1, <1>2, <2>1, <2>2 DEF IInv, SelectSound, RoundSound, ClosingSound, NoForeignSend
  <2>5. DataCounted'
    BY <1>1 DEF IInv, DataCounted
  <2>6. ClientSocketsLive' /\ NoDanglingWriter' /\ PendingScheduled'
    BY <1>1, <1>2, <2>1, <2>2 DEF IInv, ClientSocketsLive, NoDanglingWriter, PendingScheduled
  <2> QED
    BY <2>3, <2>4, <2>5, <2>6 DEF IInv
<1> QED
  BY <1>3, <1>4 DEF PeerClosed

\* The connection is deleted and its socket closed.
LEMMA DisconnectIInv ==
    ASSUME IInv, Disconnect
    PROVE  IInv'
<1> DEFINE f == Current
           c == clientSockets[f]
<1>1. /\ pc = "disconnecting" /\ sender # c
      /\ state' = [state EXCEPT ![c] = "deleted"]
      /\ \E to \in SUBSET (Live \ {c}) : SendFromCallback(to)
      /\ clientSockets' = [clientSockets EXCEPT ![f] = None]
      /\ active_fd_set' = active_fd_set \ {f}
      /\ read_fd_set' = read_fd_set \ {f}
      /\ write_fd_set' = write_fd_set \ {f}
      /\ pc' = "service"
      /\ UNCHANGED <<listener, fd, connectionsToWrite, foreignSender, sender, raced, fault>>
  BY DEF Disconnect, otherThread
<1>2. PICK to \in SUBSET (Live \ {c}) : SendFromCallback(to)
  BY <1>1
<1>3. /\ TypeOK /\ DataCounted /\ ClientSocketsLive
      /\ state \in [Conn -> {"unused", "live", "deleted"}]
      /\ fd \in [Conn -> Fd] /\ clientSockets \in [Fd -> Conn \cup {None}]
  BY DEF IInv, TypeOK
<1>4. f \in Fd /\ f \in active_fd_set /\ c \in Live /\ fd[c] = f /\ c \in Conn
  <2>1. f \in Fd /\ f \in read_fd_set /\ read_fd_set \subseteq active_fd_set \cup {ListenFd}
    BY <1>1 DEF IInv, ClosingSound, RoundSound
  <2>2. f # ListenFd
    <3>1. MaxFd \in Nat
      BY ServerAssumption
    <3> QED
      BY <2>1, <3>1 DEF Fd, ListenFd
  <2>3. f \in active_fd_set
    BY <2>1, <2>2
  <2>4. c \in Live /\ fd[c] = f
    BY <1>3, <2>3 DEF ClientSocketsLive
  <2> QED
    BY <2>1, <2>3, <2>4 DEF Live
<1> HIDE DEF f, c
<1>5. /\ sends' \in 0..MaxSends /\ sends <= sends'
      /\ dataToSend' \in [Conn -> 0..MaxSends]
      /\ \A d \in Conn : dataToSend'[d] <= sends'
      /\ \A d \in Conn \ to : dataToSend'[d] = dataToSend[d]
      /\ writingSockets' = writingSockets \cup to
      /\ missed' = missed \ to
  <2>1. to \in SUBSET Conn
    BY <1>2 DEF Live
  <2> QED
    BY <1>2, <1>3, <2>1, CallbackFacts
<1>6. Live' = Live \ {c}
  BY <1>1, <1>3, <1>4 DEF Live
<1>7. TypeOK'
  <2>1. to \subseteq Conn
    BY <1>2 DEF Live
  <2> QED
    BY <1>1, <1>3, <1>4, <1>5, <2>1 DEF TypeOK
<1>8. \A d \in Live' : fd[d] \in active_fd_set /\ fd[d] # f /\ d \in Conn /\ fd[d] \in Fd
  <2> SUFFICES ASSUME NEW d \in Live, d # c
               PROVE  fd[d] \in active_fd_set /\ fd[d] # f /\ d \in Conn /\ fd[d] \in Fd
    BY <1>6
  <2>1. clientSockets[fd[d]] = d /\ d \in Conn
    BY <1>3 DEF ClientSocketsLive, Live
  <2>2. fd[d] \in active_fd_set /\ fd[d] \in Fd
    BY <1>3, <2>1, SocketsDiffer
  <2> QED
    BY <2>1, <2>2 DEF c
<1>9. SelectSound' /\ RoundSound' /\ ClosingSound' /\ NoForeignSend'
  BY <1>1 DEF IInv, SelectSound, RoundSound, ClosingSound, NoForeignSend
<1>10. DataCounted'
  <2> SUFFICES ASSUME NEW d \in Conn, state'[d] = "unused"
               PROVE  dataToSend'[d] = 0
    BY <1>5 DEF DataCounted
  <2>1. d \notin to /\ state[d] = "unused"
    BY <1>1, <1>2, <1>3, <1>4 DEF Live
  <2> QED
    BY <1>3, <1>5, <2>1 DEF DataCounted
<1>11. ClientSocketsLive'
  <2>1. \A g \in Fd : clientSockets'[g] = IF g = f THEN None ELSE clientSockets[g]
    BY <1>1, <1>3
  <2>2. ASSUME NEW g \in active_fd_set'
        PROVE  clientSockets'[g] \in Live' /\ fd'[clientSockets'[g]] = g
    <3>1. g \in active_fd_set /\ g \in Fd /\ g # f
      BY <1>1, <1>3 DEF TypeOK
    <3>2. clientSockets[g] \in Live /\ fd[clientSockets[g]] = g
      BY <1>3, <3>1 DEF ClientSocketsLive
    <3>3. clientSockets[g] # c
      BY <1>4, <3>1, <3>2
    <3> QED
      BY <1>1, <1>6, <2>1, <3>1, <3>2, <3>3
  <2>3. \A g \in Fd \ active_fd_set' : clientSockets'[g] = None
    BY <1>1, <1>3, <2>1 DEF ClientSocketsLive
  <2>4. \A d \in Live' : clientSockets'[fd'[d]] = d
    BY <1>1, <1>3, <1>6, <1>8, <2>1 DEF ClientSocketsLive
  <2> QED
    BY <2>2, <2>3, <2>4 DEF ClientSocketsLive
<1>12. NoDanglingWriter'
  <2>1. ~foreignSender => c \notin writingSockets
    BY <1>1 DEF IInv, ClosingSound, f, c
  <2> QED
    BY <1>1, <1>2, <1>5, <1>6, <2>1 DEF IInv, NoDanglingWriter
<1>13. PendingScheduled'
  <2> SUFFICES ASSUME fault = "none", ~raced, NEW d \in Live', dataToSend'[d] > 0
               PROVE  d \in writingSockets' \/ fd[d] \in write_fd_set' \/ sender = d \/ d \in missed'
    BY <1>1 DEF PendingScheduled, Scheduled
  <2>1. CASE d \in to
    BY <1>5, <2>1
  <2>2. CASE d \notin to
    <3>1. dataToSend[d] > 0 /\ d \in Live /\ d # c
      BY <1>5, <1>6, <1>8, <2>2
    <3>2. Scheduled(d) \/ d \in missed
      BY <1>1, <3>1 DEF IInv, PendingScheduled
    <3>3. fd[d] # f
      BY <1>8
    <3> QED
      BY <1>1, <1>5, <2>2, <3>1, <3>2, <3>3 DEF Scheduled, f, c
  <2> QED
    BY <2>1, <2>2
<1> QED
  BY <1>7, <1>9, <1>10, <1>11, <1>12, <1>13 DEF IInv

\* What waits on a connection is given to send().
LEMMA WriteDataIInv ==
    ASSUME IInv, NEW f \in Fd, WriteData(f)
    PROVE  IInv'
<1> DEFINE c == clientSockets[f]
<1>1. /\ pc = "service" /\ f \in write_fd_set
      /\ dataToSend' = IF c = None THEN dataToSend ELSE [dataToSend EXCEPT ![c] = 0]
      /\ write_fd_set' = write_fd_set \ {f}
      /\ UNCHANGED <<pc, listener, active_fd_set, read_fd_set, clientSockets, state, fd,
                     writingSockets, connectionsToWrite, missed, foreignSender, sender, raced,
                     sends, fault>>
  BY DEF WriteData, connVars, otherThread
<1>2. /\ TypeOK /\ DataCounted /\ ClientSocketsLive
      /\ dataToSend \in [Conn -> 0..MaxSends] /\ sends \in 0..MaxSends /\ MaxSends \in Nat
  BY ServerAssumption DEF IInv, TypeOK
<1>3. Live' = Live
  BY <1>1 DEF Live
<1>4. \A d \in Conn : dataToSend'[d] = IF c # None /\ d = c THEN 0 ELSE dataToSend[d]
  BY <1>1, <1>2
<1>5. TypeOK'
  <2>1. 0 \in 0..MaxSends
    BY <1>2
  <2>2. dataToSend' \in [Conn -> 0..MaxSends]
    BY <1>1, <1>2, <2>1
  <2> QED
    BY <1>1, <1>2, <2>2 DEF TypeOK
<1>6. SelectSound' /\ RoundSound' /\ ClosingSound' /\ NoForeignSend'
  BY <1>1 DEF IInv, SelectSound, RoundSound, ClosingSound, NoForeignSend
<1>7. DataCounted'
  BY <1>1, <1>2, <1>4 DEF DataCounted
<1>8. ClientSocketsLive' /\ NoDanglingWriter'
  BY <1>1, <1>3 DEF IInv, ClientSocketsLive, NoDanglingWriter
<1>9. PendingScheduled'
  <2> SUFFICES ASSUME fault = "none", ~raced, NEW d \in Live, dataToSend'[d] > 0
               PROVE  \/ d \in writingSockets \/ fd[d] \in write_fd_set'
                      \/ sender = d \/ d \in missed
    BY <1>1, <1>3 DEF PendingScheduled, Scheduled
  <2>1. d \in Conn /\ clientSockets[fd[d]] = d
    BY <1>2 DEF Live, ClientSocketsLive
  <2>2. d # None
    <3>1. MaxConns \in Nat
      BY ServerAssumption
    <3> QED
      BY <2>1, <3>1 DEF Conn, None
  <2>3. fd[d] # f
    BY <1>4, <2>1, <2>2
  <2>4. dataToSend[d] > 0
    BY <1>4, <2>1
  <2>5. Scheduled(d) \/ d \in missed
    BY <1>1, <2>4 DEF IInv, PendingScheduled
  <2> QED
    BY <1>1, <2>3, <2>5 DEF Scheduled
<1> QED
  BY <1>5, <1>6, <1>7, <1>8, <1>9 DEF IInv

\* Everything is serviced.
LEMMA EndRoundIInv ==
    ASSUME IInv, EndRound
    PROVE  IInv'
<1>1. /\ pc = "service" /\ write_fd_set = {}
      /\ connectionsToWrite' = {} /\ pc' = "top"
      /\ UNCHANGED <<listener, active_fd_set, read_fd_set, write_fd_set, clientSockets,
                     state, fd, dataToSend, writingSockets, missed, sends,
                     foreignSender, sender, raced, fault>>
  BY DEF EndRound, fdSets, connVars, sendVars, otherThread
<1>2. Live' = Live
  BY <1>1 DEF Live
<1>3. TypeOK'
  BY <1>1 DEF IInv, TypeOK
<1>4. SelectSound' /\ RoundSound' /\ ClosingSound' /\ NoForeignSend' /\ DataCounted'
  BY <1>1 DEF IInv, SelectSound, RoundSound, ClosingSound, NoForeignSend, DataCounted
<1>5. ClientSocketsLive' /\ NoDanglingWriter'
  BY <1>1, <1>2 DEF IInv, ClientSocketsLive, NoDanglingWriter
<1>6. PendingScheduled'
  BY <1>1, <1>2 DEF IInv, PendingScheduled, Scheduled
<1> QED
  BY <1>3, <1>4, <1>5, <1>6 DEF IInv

\* Every step of the specification preserves the invariant.
LEMMA NextIInv == IInv /\ [Next]_vars => IInv'
<1> SUFFICES ASSUME IInv, [Next]_vars PROVE IInv'
  OBVIOUS
<1>0. /\ listener \in {"null", "invalid", "unbound", "bound", "elsewhere", "listening"}
      /\ fault \in {"none", "terminate", "use after free"}
  BY DEF IInv, TypeOK
<1>1. CASE fault = "none" /\ Setup
  <2>1. CASE InitServer
    BY <1>0, <1>1, <2>1, KeptIInv DEF InitServer
  <2>2. CASE Listen
    <3>1. listener' \in {"null", "invalid", "unbound", "bound", "elsewhere", "listening"}
      BY <1>0, <2>2 DEF Listen
    <3> QED
      BY <1>0, <1>1, <2>2, <3>1, KeptIInv DEF Listen
  <2>3. CASE EnterPoll
    <3>1. /\ listener' = listener /\ fault' \in {"none", "terminate", "use after free"}
          /\ pc' = pc \/ (pc = "poll" /\ pc' = "top")
          /\ UNCHANGED <<fdSets, connVars, sendVars, connectionsToWrite, otherThread>>
      BY <1>0, <2>3 DEF EnterPoll
    <3> QED
      BY <1>0, <1>1, <3>1, KeptIInv
  <2> QED
    BY <1>1, <2>1, <2>2, <2>3 DEF Setup
<1>2. CASE BeginRound
  BY <1>2, BeginRoundIInv
<1>3. CASE Select
  BY <1>3, SelectIInv
<1>4. CASE Service
  BY <1>4, AcceptIInv, ReceiveIInv, PeerClosedIInv, DisconnectIInv, WriteDataIInv, EndRoundIInv
     DEF Service
<1>5. CASE fault = "none" /\ Failure
  <2>1. CASE InitFails
    BY <1>0, <2>1, KeptIInv DEF InitFails
  <2>2. CASE SelectFails
    BY <1>0, <2>2, KeptIInv DEF SelectFails
  <2>3. CASE AcceptFails
    BY <1>0, <2>3, KeptIInv DEF AcceptFails
  <2>4. ASSUME NEW f \in Fd, ReceiveFails(f) PROVE IInv'
    BY <1>0, <1>5, <2>4, KeptIInv DEF ReceiveFails
  <2>5. ASSUME NEW f \in Fd, WriteRaisesSignal(f) PROVE IInv'
    BY <1>0, <1>5, <2>5, KeptIInv DEF WriteRaisesSignal
  <2> QED
    BY <1>5, <2>1, <2>2, <2>3, <2>4, <2>5 DEF Failure
<1>6. CASE Sender
  BY <1>6, SendRegistersIInv, SendAppendsIInv DEF Sender
<1>7. CASE DestroyServer
  BY <1>0, <1>7, KeptIInv DEF DestroyServer
<1>8. CASE UNCHANGED vars
  <2>1. /\ listener' = listener /\ fault' = fault /\ pc' = pc
        /\ UNCHANGED <<fdSets, connVars, sendVars, connectionsToWrite, otherThread>>
    BY <1>8 DEF vars
  <2> QED
    BY <1>0, <2>1, KeptIInv
<1> QED
  BY <1>1, <1>2, <1>3, <1>4, <1>5, <1>6, <1>7, <1>8 DEF Next, Poll

-----------------------------------------------------------------------------
(* The properties.                                                         *)

\* The invariant holds in every reachable state.
LEMMA Invariance == Spec => []IInv
  BY InitIInv, NextIInv, PTL DEF Spec

\* The variables keep their types: a round only ever services client sockets
\* and the listening one, and the lists only hold connections
\* (server.cpp:186-275, 282-316).
THEOREM TypeCorrect == Spec => []TypeOK
<1>1. IInv => TypeOK
  BY DEF IInv
<1> QED
  BY <1>1, Invariance, PTL

\* For any number of connections, and sockets that are closed and given out
\* again, clientSockets and the connections agree: poll() finds a connection
\* that exists for every socket it reads from (server.cpp:240-256, 262-271).
THEOREM LookupsFindLive == Spec => []ClientSocketsLive
<1>1. IInv => ClientSocketsLive
  BY DEF IInv
<1> QED
  BY <1>1, Invariance, PTL

\* Data that waits is forgotten only when select() finds its socket not
\* writable, also while another thread sends, until one of its inserts overlaps
\* the erase done without the lock (server.cpp:198-206, 251, 282-316).
THEOREM NothingForgotten == Spec => []PendingScheduled
<1>1. IInv => PendingScheduled
  BY DEF IInv
<1> QED
  BY <1>1, Invariance, PTL

\* As long as only callbacks send, the connections registered for writing
\* exist (server.cpp:198-206, 247-257).
THEOREM WritersExist == Spec => []NoDanglingWriter
<1>1. IInv => NoDanglingWriter
  BY DEF IInv
<1> QED
  BY <1>1, Invariance, PTL
=============================================================================
