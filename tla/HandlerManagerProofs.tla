------------------------ MODULE HandlerManagerProofs ------------------------
(***************************************************************************)
(* Proofs about HandlerManager, for all handlers, names, connections and   *)
(* packets, and about the text that a packet is read from and the          *)
(* arguments of a call in it, which HandlerManager abstracts from.         *)
(***************************************************************************)
EXTENDS HandlerManager, Tokens, SequenceLemmas, FiniteSetTheorems

-----------------------------------------------------------------------------
(* The inductive invariant.                                                *)

\* A packet comes from a session that was accepted, and one is only accepted
\* when no more handlers are registered.
SessionsFirst ==
    /\ phase = "setup" => \A c \in Connection : clientId_[c] = -1
    /\ \A c \in Connection : clientId_[c] = -1 => received[c] = <<>>

\* The packet in hand came in on an accepted session, and the io thread has not
\* returned from start().
PassedOnByIoThread ==
    \A x \in inHand : phase = "running" /\ clientId_[x.from] # -1

\* No two sessions have the same id.
IdsDiffer ==
    \A c, d \in Connection : clientId_[c] = clientId_[d] => c = d \/ clientId_[c] = -1

\* handlers_ has the handler that was first registered under a name.
FirstIsFound ==
    \A h \in Handler : \A n :
        Responsible(h, n) <=> n \in DOMAIN handlers_ /\ handlers_[n] = h

HandlersKnown == \A n \in DOMAIN handlers_ : handlers_[n] \in Handler

\* Unless one was destroyed early, a destroyed handler has nothing to do, and
\* nobody can call it any more.
DestroyedIdle ==
    ~early => \A h \in Handler : ~alive[h] =>
                /\ phase = "joined" /\ ~busy[h]
                /\ started[h] = Len(calls[h])

IInv ==
    /\ TypeOK
    /\ SessionsFirst
    /\ PassedOnByIoThread
    /\ IdsDiffer
    /\ FirstIsFound
    /\ HandlersKnown
    /\ DestroyedIdle
    /\ CallsTraceable
    /\ OrderlyShutdown

\* What CallsTraceable says of one handler and one session.
Traced(h, c) ==
    \E f \in [CallsFrom(h, c) -> PacketsFor(h, c)] :
        /\ InOrder(f, CallsFrom(h, c), PacketsFor(h, c))
        /\ \A i \in CallsFrom(h, c) : calls[h][i].packet = received[c][f[i]]

-----------------------------------------------------------------------------
(* The calls and the packets of one handler and one session.               *)

\* No packets, no calls.
LEMMA NothingTraced ==
    ASSUME NEW h, NEW c, CallsFrom(h, c) = {}, PacketsFor(h, c) = {}
    PROVE  Traced(h, c)
<1> DEFINE f == [i \in CallsFrom(h, c) |-> 0]
<1>1. f \in [CallsFrom(h, c) -> PacketsFor(h, c)]
  OBVIOUS
<1> QED
  BY <1>1 DEF InOrder, Traced

\* The same of the state after a step.
LEMMA NothingTracedNext ==
    ASSUME NEW h, NEW c, CallsFrom(h, c)' = {}, PacketsFor(h, c)' = {}
    PROVE  Traced(h, c)'
<1> DEFINE f == [i \in {} |-> 0]
<1>1. f \in [CallsFrom(h, c)' -> PacketsFor(h, c)']
  OBVIOUS
<1> QED
  BY <1>1 DEF InOrder, Traced

\* A connection without a session has made no calls.
LEMMA NothingUnconnected ==
    ASSUME TypeOK, SessionsFirst, NEW h \in Handler, NEW c \in Connection,
           clientId_[c] = -1
    PROVE  CallsFrom(h, c) = {} /\ PacketsFor(h, c) = {}
<1>1. calls[h] \in Seq([client : 0..(clientId - 1), packet : Packet])
  BY DEF TypeOK
<1>2. \A i \in 1..Len(calls[h]) :
        calls[h][i] \in [client : 0..(clientId - 1), packet : Packet]
  BY <1>1, ElementOfSeq
<1>3. received[c] = <<>>
  BY DEF SessionsFirst
<1> QED
  BY <1>2, <1>3 DEF CallsFrom, PacketsFor

\* What is not touched stays traceable.
LEMMA TracedKept ==
    ASSUME NEW h, NEW c, Traced(h, c),
           UNCHANGED <<calls[h], received[c], clientId_[c], registered>>
    PROVE  Traced(h, c)'
<1>1. CallsFrom(h, c)' = CallsFrom(h, c)
  BY DEF CallsFrom
<1>2. PacketsFor(h, c)' = PacketsFor(h, c)
  BY DEF PacketsFor, Responsible
<1> QED
  BY <1>1, <1>2 DEF Traced, InOrder

\* A packet that becomes the last call extends the order by one.
LEMMA TracedExtended ==
    ASSUME TypeOK, NEW h \in Handler, NEW c \in Connection, NEW p \in Packet,
           Traced(h, c),
           UNCHANGED <<clientId_, registered>>,
           received[c]' = Append(received[c], p),
           p.kind # "unreadable", Responsible(h, p.name),
           calls[h]' = Append(calls[h], [client |-> clientId_[c], packet |-> p])
    PROVE  Traced(h, c)'
<1> DEFINE m == Len(calls[h]) + 1
           n == Len(received[c]) + 1
           S == CallsFrom(h, c)
           T == PacketsFor(h, c)
<1>0. /\ calls[h] \in Seq([client : 0..(clientId - 1), packet : Packet])
      /\ received[c] \in Seq(Packet)
  BY DEF TypeOK
<1>1. /\ Len(calls[h]) \in Nat /\ Len(calls[h])' = m
      /\ \A i \in 1..Len(calls[h]) : calls[h]'[i] = calls[h][i]
      /\ calls[h]'[m] = [client |-> clientId_[c], packet |-> p]
  BY <1>0, AppendFacts
<1>2. /\ Len(received[c]) \in Nat /\ Len(received[c])' = n
      /\ \A i \in 1..Len(received[c]) : received[c]'[i] = received[c][i]
      /\ received[c]'[n] = p
  BY <1>0, AppendFacts
<1>3. S' = S \cup {m}
  BY <1>1 DEF CallsFrom
<1>4. T' = T \cup {n}
  BY <1>2 DEF PacketsFor, Responsible
<1>5. S \subseteq 1..(m - 1) /\ T \subseteq 1..(n - 1)
  BY <1>1, <1>2 DEF CallsFrom, PacketsFor
<1>6. PICK f \in [S -> T] : InOrder(f, S, T) /\ \A i \in S : calls[h][i].packet = received[c][f[i]]
  BY DEF Traced
<1> DEFINE g == [i \in S \cup {m} |-> IF i = m THEN n ELSE f[i]]
<1>7. g \in [S' -> T']
  BY <1>3, <1>4
<1>8. m \notin S /\ m \in Nat /\ n \in Nat
  BY <1>1, <1>2, <1>5
<1>9. InOrder(g, S', T')
  <2>1. ASSUME NEW i \in S', NEW j \in S', i < j PROVE g[i] < g[j]
    BY <1>3, <1>5, <1>6, <1>8, <2>1 DEF InOrder
  <2>2. ASSUME NEW k \in T' PROVE \E i \in S' : g[i] = k
    BY <1>3, <1>4, <1>6, <1>8 DEF InOrder
  <2> QED
    BY <2>1, <2>2 DEF InOrder
<1>10. \A i \in S' : calls[h]'[i].packet = received[c]'[g[i]]
  BY <1>1, <1>2, <1>3, <1>5, <1>6, <1>8
<1> QED
  BY <1>7, <1>9, <1>10 DEF Traced, InOrder

\* A packet that the handler is not responsible for changes nothing.
LEMMA TracedSkipped ==
    ASSUME TypeOK, NEW h \in Handler, NEW c \in Connection, NEW p \in Packet,
           Traced(h, c),
           UNCHANGED <<clientId_, registered, calls[h]>>,
           received[c]' = Append(received[c], p),
           p.kind = "unreadable" \/ ~Responsible(h, p.name)
    PROVE  Traced(h, c)'
<1>0. received[c] \in Seq(Packet)
  BY DEF TypeOK
<1>1. /\ Len(received[c]) \in Nat /\ Len(received[c])' = Len(received[c]) + 1
      /\ \A i \in 1..Len(received[c]) : received[c]'[i] = received[c][i]
      /\ received[c]'[Len(received[c]) + 1] = p
  BY <1>0, AppendFacts
<1>2. CallsFrom(h, c)' = CallsFrom(h, c)
  BY DEF CallsFrom
<1>3. PacketsFor(h, c)' = PacketsFor(h, c)
  BY <1>1 DEF PacketsFor, Responsible
<1>4. \A j \in PacketsFor(h, c) : received[c]'[j] = received[c][j]
  BY <1>1 DEF PacketsFor
<1>5. PICK f \in [CallsFrom(h, c) -> PacketsFor(h, c)] :
        /\ InOrder(f, CallsFrom(h, c), PacketsFor(h, c))
        /\ \A i \in CallsFrom(h, c) : calls[h][i].packet = received[c][f[i]]
  BY DEF Traced
<1>6. \A i \in CallsFrom(h, c) : calls[h]'[i].packet = received[c]'[f[i]]
  BY <1>4, <1>5
<1>7. /\ f \in [CallsFrom(h, c)' -> PacketsFor(h, c)']
      /\ InOrder(f, CallsFrom(h, c)', PacketsFor(h, c)')
      /\ \A i \in CallsFrom(h, c)' : calls[h]'[i].packet = received[c]'[f[i]]
  BY <1>2, <1>3, <1>5, <1>6
<1> QED
  BY <1>7 DEF Traced, InOrder

\* A call of one session is none of another one's.
LEMMA TracedBeside ==
    ASSUME TypeOK, NEW h \in Handler, NEW c \in Connection, NEW x,
           Traced(h, c),
           UNCHANGED <<clientId_, registered, received[c]>>,
           calls[h]' = Append(calls[h], x),
           x.client # clientId_[c]
    PROVE  Traced(h, c)'
<1>0. /\ calls[h] \in Seq([client : 0..(clientId - 1), packet : Packet])
      /\ received[c] \in Seq(Packet)
  BY DEF TypeOK
<1>1. /\ Len(calls[h]) \in Nat /\ Len(calls[h])' = Len(calls[h]) + 1
      /\ \A i \in 1..Len(calls[h]) : calls[h]'[i] = calls[h][i]
      /\ calls[h]'[Len(calls[h]) + 1] = x
  BY <1>0, AppendFacts
<1>2. CallsFrom(h, c)' = CallsFrom(h, c)
  BY <1>1 DEF CallsFrom
<1>3. PacketsFor(h, c)' = PacketsFor(h, c)
  BY DEF PacketsFor, Responsible
<1>4. \A i \in CallsFrom(h, c) : calls[h]'[i] = calls[h][i]
  BY <1>1 DEF CallsFrom
<1>5. PICK f \in [CallsFrom(h, c) -> PacketsFor(h, c)] :
        /\ InOrder(f, CallsFrom(h, c), PacketsFor(h, c))
        /\ \A i \in CallsFrom(h, c) : calls[h][i].packet = received[c][f[i]]
  BY DEF Traced
<1>6. \A i \in CallsFrom(h, c) : calls[h]'[i].packet = received[c]'[f[i]]
  BY <1>4, <1>5
<1>7. /\ f \in [CallsFrom(h, c)' -> PacketsFor(h, c)']
      /\ InOrder(f, CallsFrom(h, c)', PacketsFor(h, c)')
      /\ \A i \in CallsFrom(h, c)' : calls[h]'[i].packet = received[c]'[f[i]]
  BY <1>2, <1>3, <1>5, <1>6
<1> QED
  BY <1>7 DEF Traced, InOrder

-----------------------------------------------------------------------------
(* The invariant holds initially and every action preserves it.            *)

\* No handler is registered and nothing was received.
LEMMA InitIInv == Init => IInv
<1> SUFFICES ASSUME Init PROVE IInv
  OBVIOUS
<1>1. TypeOK
  <2>1. DOMAIN handlers_ = {threadName[registered[i]] : i \in DOMAIN registered}
    BY DEF Init
  <2>2. \A h \in Handler : started[h] <= Len(calls[h])
    BY DEF Init
  <2>3. registered \in Seq(Handler) /\ received \in [Connection -> Seq(Packet)]
    BY DEF Init
  <2>4. calls \in [Handler -> Seq([client : 0..(clientId - 1), packet : Packet])]
    BY DEF Init
  <2>5. clientId \in Nat /\ clientId_ \in [Connection -> -1..(clientId - 1)]
    BY DEF Init
  <2>6. /\ started \in [Handler -> Nat]
        /\ busy \in [Handler -> BOOLEAN] /\ alive \in [Handler -> BOOLEAN]
        /\ early \in BOOLEAN
    BY DEF Init
  <2>7. stopped \in BOOLEAN /\ inHand \subseteq [from : Connection, packet : Packet]
    BY DEF Init
  <2> QED
    BY <2>1, <2>2, <2>3, <2>4, <2>5, <2>6, <2>7 DEF Init, TypeOK
<1>2. /\ SessionsFirst /\ PassedOnByIoThread /\ IdsDiffer /\ HandlersKnown
      /\ DestroyedIdle /\ OrderlyShutdown
  BY DEF Init, SessionsFirst, PassedOnByIoThread, IdsDiffer, HandlersKnown,
         DestroyedIdle, OrderlyShutdown
<1>3. FirstIsFound
  BY DEF Init, FirstIsFound, Responsible
<1>4. CallsTraceable
  <2> SUFFICES ASSUME NEW h \in Handler, NEW c \in Connection
               PROVE  Traced(h, c)
    BY DEF CallsTraceable, Traced
  <2> QED
    BY NothingTraced DEF Init, CallsFrom, PacketsFor
<1> QED
  BY <1>1, <1>2, <1>3, <1>4 DEF IInv

\* A handler found under its name is the first one with it.
LEMMA RegisterIInv ==
    ASSUME IInv, NEW h \in Handler, RegisterHandler(h), fault = "none"
    PROVE  IInv'
<1> DEFINE n == Len(registered) + 1
<1>0. registered \in Seq(Handler)
  BY DEF IInv, TypeOK
<1>1. /\ Len(registered) \in Nat /\ Len(registered') = n
      /\ \A i \in 1..Len(registered) : registered'[i] = registered[i]
      /\ registered'[n] = h
      /\ registered' \in Seq(Handler)
  BY <1>0, AppendFacts, AppendProperties DEF RegisterHandler
<1>2. DOMAIN registered = 1..Len(registered) /\ DOMAIN registered' = 1..n
  BY <1>0, <1>1, LenProperties
<1>3. DOMAIN handlers_' = {threadName[registered'[i]] : i \in DOMAIN registered'}
  <2>1. DOMAIN handlers_' = {threadName[registered[i]] : i \in 1..Len(registered)} \cup {threadName[h]}
    BY <1>2 DEF IInv, TypeOK, RegisterHandler
  <2> QED
    BY <1>1, <1>2, <2>1
<1>4. TypeOK'
  BY <1>1, <1>3 DEF IInv, TypeOK, RegisterHandler, netVars, workerVars
<1>5. /\ SessionsFirst' /\ PassedOnByIoThread' /\ IdsDiffer'
      /\ DestroyedIdle' /\ OrderlyShutdown'
  BY DEF IInv, SessionsFirst, PassedOnByIoThread, IdsDiffer, DestroyedIdle,
         OrderlyShutdown, RegisterHandler, netVars, workerVars
<1>6. HandlersKnown'
  BY DEF IInv, HandlersKnown, RegisterHandler
<1>7. FirstIsFound'
  <2> SUFFICES ASSUME NEW k \in Handler, NEW name
               PROVE  Responsible(k, name)' <=> name \in DOMAIN handlers_' /\ handlers_'[name] = k
    BY DEF FirstIsFound
  <2>1. CASE name \in DOMAIN handlers_
    <3>1. Responsible(k, name) <=> handlers_[name] = k
      BY <2>1 DEF IInv, FirstIsFound
    <3>2. PICK i \in 1..Len(registered) : threadName[registered[i]] = name
      BY <1>2, <2>1 DEF IInv, TypeOK
    <3>3. Responsible(k, name)' <=> Responsible(k, name)
      BY <1>1, <1>2, <3>2 DEF Responsible
    <3> QED
      BY <2>1, <3>1, <3>3 DEF RegisterHandler
  <2>2. CASE name \notin DOMAIN handlers_
    <3>1. \A i \in 1..Len(registered) : threadName[registered[i]] # name
      BY <1>2, <2>2 DEF IInv, TypeOK
    <3>2. Responsible(k, name)' <=> k = h /\ threadName[h] = name
      BY <1>1, <1>2, <3>1 DEF Responsible
    <3> QED
      BY <2>2, <3>2 DEF RegisterHandler
  <2> QED
    BY <2>1, <2>2
<1>8. CallsTraceable'
  <2> SUFFICES ASSUME NEW k \in Handler, NEW c \in Connection
               PROVE  Traced(k, c)'
    BY DEF CallsTraceable, Traced
  <2>1. clientId_[c] = -1 /\ received[c] = <<>> /\ received'[c] = <<>>
    BY DEF IInv, SessionsFirst, RegisterHandler, netVars
  <2>2. CallsFrom(k, c)' = CallsFrom(k, c) /\ PacketsFor(k, c)' = {}
    BY <2>1 DEF CallsFrom, PacketsFor, RegisterHandler, netVars
  <2> QED
    BY <2>1, <2>2, NothingUnconnected, NothingTracedNext DEF IInv
<1> QED
  BY <1>4, <1>5, <1>6, <1>7, <1>8 DEF IInv

\* A step of another kind than registration, acceptance and reading.
LEMMA TraceableKept ==
    ASSUME CallsTraceable, fault = "none",
           UNCHANGED <<handlers_, registered, calls, received, clientId_>>
    PROVE  CallsTraceable'
<1> SUFFICES ASSUME NEW h \in Handler, NEW c \in Connection
             PROVE  Traced(h, c)'
  BY DEF CallsTraceable, Traced
<1>1. Traced(h, c)
  BY DEF CallsTraceable, Traced
<1> QED
  BY <1>1, TracedKept

\* The counter gives a new session an id that no other one, and no call, has.
LEMMA AcceptIInv ==
    ASSUME IInv, NEW c \in Connection, HandleAccept(c), fault = "none"
    PROVE  IInv'
<1>1. /\ clientId \in Nat /\ clientId' = clientId + 1
      /\ clientId_ \in [Connection -> -1..(clientId - 1)]
      /\ clientId_' = [clientId_ EXCEPT ![c] = clientId]
      /\ phase = "running" /\ inHand = {}
      /\ UNCHANGED <<handlers_, registered, phase, stopped, inHand, received, calls,
                     started, busy, alive, early, fault>>
  BY DEF IInv, TypeOK, HandleAccept, IoThreadFree, workerVars
<1>2. TypeOK'
  <2>1. clientId_' \in [Connection -> -1..(clientId' - 1)]
    BY <1>1
  <2>2. calls' \in [Handler -> Seq([client : 0..(clientId' - 1), packet : Packet])]
    <3>1. [client : 0..(clientId - 1), packet : Packet]
            \subseteq [client : 0..(clientId' - 1), packet : Packet]
      BY <1>1
    <3>2. Seq([client : 0..(clientId - 1), packet : Packet])
            \subseteq Seq([client : 0..(clientId' - 1), packet : Packet])
      BY <3>1, SeqMonotonic
    <3>3. calls \in [Handler -> Seq([client : 0..(clientId - 1), packet : Packet])]
      BY DEF IInv, TypeOK
    <3> QED
      BY <1>1, <3>2, <3>3
  <2>3. DOMAIN handlers_' = {threadName[registered'[i]] : i \in DOMAIN registered'}
    BY <1>1 DEF IInv, TypeOK
  <2>4. \A h \in Handler : started'[h] <= Len(calls'[h])
    BY <1>1 DEF IInv, TypeOK
  <2>5. /\ clientId' \in Nat
        /\ UNCHANGED <<registered, phase, stopped, inHand, received, started, busy,
                       alive, early, fault>>
    BY <1>1
  <2> QED
    BY <2>1, <2>2, <2>3, <2>4, <2>5 DEF IInv, TypeOK
<1>3. SessionsFirst' /\ PassedOnByIoThread'
  BY <1>1 DEF IInv, SessionsFirst, PassedOnByIoThread
<1>4. IdsDiffer'
  BY <1>1 DEF IInv, IdsDiffer
<1>5. FirstIsFound' /\ HandlersKnown' /\ DestroyedIdle' /\ OrderlyShutdown'
  BY <1>1 DEF IInv, FirstIsFound, Responsible, HandlersKnown, DestroyedIdle,
              OrderlyShutdown
<1>6. CallsTraceable'
  <2> SUFFICES ASSUME NEW h \in Handler, NEW d \in Connection
               PROVE  Traced(h, d)'
    BY DEF CallsTraceable, Traced
  <2>1. CASE d = c
    <3>1. PacketsFor(h, d)' = {}
      BY <1>1, <2>1 DEF IInv, SessionsFirst, HandleAccept, PacketsFor
    <3>2. calls[h] \in Seq([client : 0..(clientId - 1), packet : Packet])
      BY DEF IInv, TypeOK
    <3>3. \A i \in 1..Len(calls[h]) : calls[h][i] \in [client : 0..(clientId - 1), packet : Packet]
      BY <3>2, ElementOfSeq
    <3>4. CallsFrom(h, d)' = {}
      BY <1>1, <2>1, <3>3 DEF CallsFrom
    <3> QED
      BY <3>1, <3>4, NothingTracedNext
  <2>2. CASE d # c
    <3>1. Traced(h, d)
      BY DEF IInv, CallsTraceable, Traced
    <3> QED
      BY <1>1, <2>2, <3>1, TracedKept
  <2> QED
    BY <2>1, <2>2
<1> QED
  BY <1>2, <1>3, <1>4, <1>5, <1>6 DEF IInv

\* A packet makes a call on the handler that is responsible for it, and on
\* no other.  While one is passed on the io thread is not joined, so a handler
\* that is gone by then was destroyed early.
LEMMA PassOnIInv ==
    ASSUME IInv, NEW c \in Connection, NEW p \in Packet, PassOn(c, p),
           fault = "none"
    PROVE  IInv'
<1> DEFINE call == [client |-> clientId_[c], packet |-> p]
           posted == /\ p.kind # "unreadable" /\ p.name \in DOMAIN handlers_
                     /\ alive[handlers_[p.name]]
<1>0. phase = "running" /\ clientId_[c] # -1
  <2>1. [from |-> c, packet |-> p] \in inHand
    BY DEF PassOn
  <2> QED
    BY <2>1 DEF IInv, PassedOnByIoThread
<1>1. /\ phase = "running" /\ clientId_[c] # -1
      /\ received' = [received EXCEPT ![c] = Append(@, p)]
      /\ inHand' = {}
      /\ UNCHANGED <<handlers_, registered, phase, stopped, clientId_, clientId,
                     started, busy, alive, early>>
  BY <1>0 DEF PassOn, workerVars
<1>2. /\ received \in [Connection -> Seq(Packet)]
      /\ calls \in [Handler -> Seq([client : 0..(clientId - 1), packet : Packet])]
      /\ call \in [client : 0..(clientId - 1), packet : Packet]
  <2>1. clientId_[c] \in 0..(clientId - 1)
    BY <1>1 DEF IInv, TypeOK
  <2> QED
    BY <2>1 DEF IInv, TypeOK
<1>3. /\ received'[c] = Append(received[c], p)
      /\ \A d \in Connection : d # c => received'[d] = received[d]
      /\ received' \in [Connection -> Seq(Packet)]
  <2>1. Append(received[c], p) \in Seq(Packet)
    BY <1>2, AppendProperties
  <2> QED
    BY <1>1, <1>2, <2>1
<1>4. ASSUME posted
      PROVE  /\ handlers_[p.name] \in Handler
             /\ calls' = [calls EXCEPT ![handlers_[p.name]] = Append(@, call)]
             /\ fault' = fault
  BY <1>4 DEF IInv, HandlersKnown, PassOn, HandlePacket, HandleCall
<1>5. ASSUME ~posted
      PROVE  calls' = calls
  BY <1>5 DEF PassOn, HandlePacket, HandleCall
<1>6. calls' \in [Handler -> Seq([client : 0..(clientId - 1), packet : Packet])]
  <2>1. CASE posted
    <3>1. Append(calls[handlers_[p.name]], call) \in Seq([client : 0..(clientId - 1), packet : Packet])
      BY <1>2, <1>4, <2>1, AppendProperties
    <3> QED
      BY <1>2, <1>4, <2>1, <3>1
  <2> QED
    BY <1>2, <1>5, <2>1
<1>7. \A h \in Handler : /\ Len(calls[h]) \in Nat /\ Len(calls'[h]) \in Nat
                         /\ Len(calls'[h]) >= Len(calls[h])
  <2>1. \A h \in Handler : Len(calls[h]) \in Nat /\ Len(calls'[h]) \in Nat
    BY <1>2, <1>6, LenProperties
  <2>2. CASE posted
    <3>1. Len(Append(calls[handlers_[p.name]], call)) = Len(calls[handlers_[p.name]]) + 1
      BY <1>2, <1>4, <2>2, AppendProperties
    <3>2. \A h \in Handler : calls'[h] = IF h = handlers_[p.name]
                                         THEN Append(calls[handlers_[p.name]], call)
                                         ELSE calls[h]
      BY <1>2, <1>4, <2>2
    <3>3. ASSUME NEW h \in Handler PROVE Len(calls'[h]) >= Len(calls[h])
      <4>1. CASE h = handlers_[p.name]
        <5>1. Len(calls'[h]) = Len(calls[h]) + 1
          BY <3>1, <3>2, <4>1
        <5> QED
          BY <2>1, <5>1
      <4> QED
        BY <2>1, <3>2, <4>1
    <3> QED
      BY <2>1, <3>3
  <2> QED
    BY <1>5, <2>1, <2>2
<1>8. fault' \in {"none", "terminate", "use after destruction"}
  BY DEF IInv, TypeOK, PassOn, HandlePacket, HandleCall
<1>9. TypeOK'
  <2>1. DOMAIN handlers_' = {threadName[registered'[i]] : i \in DOMAIN registered'}
    BY <1>1 DEF IInv, TypeOK
  <2>2. \A h \in Handler : started'[h] <= Len(calls'[h])
    <3>1. \A h \in Handler : started'[h] = started[h] /\ started[h] \in Nat /\ started[h] <= Len(calls[h])
      BY <1>1 DEF IInv, TypeOK
    <3> QED
      BY <1>7, <3>1
  <2> QED
    BY <1>1, <1>3, <1>6, <1>8, <2>1, <2>2 DEF IInv, TypeOK
<1>10. /\ SessionsFirst' /\ PassedOnByIoThread' /\ IdsDiffer' /\ FirstIsFound'
       /\ HandlersKnown'
  BY <1>1, <1>3 DEF IInv, SessionsFirst, PassedOnByIoThread, IdsDiffer, FirstIsFound,
                    Responsible, HandlersKnown
<1>11. DestroyedIdle' /\ OrderlyShutdown'
  <2>1. ASSUME ~early PROVE \A h \in Handler : alive[h]
    BY <1>1, <2>1 DEF IInv, DestroyedIdle
  <2>2. ASSUME ~early PROVE fault' # "use after destruction"
    BY <2>1, <2>2 DEF IInv, HandlersKnown, PassOn, HandlePacket, HandleCall
  <2> QED
    BY <1>1, <2>1, <2>2 DEF DestroyedIdle, OrderlyShutdown
<1>12. CallsTraceable'
  <2> SUFFICES ASSUME NEW h \in Handler, NEW d \in Connection, fault' = "none"
               PROVE  Traced(h, d)'
    BY DEF CallsTraceable, Traced
  <2>1. Traced(h, d) /\ TypeOK
    BY DEF IInv, CallsTraceable, Traced
  <2>2. CASE posted /\ h = handlers_[p.name]
    <3>1. calls'[h] = Append(calls[h], call)
      BY <1>2, <1>4, <2>2
    <3>2. Responsible(h, p.name)
      BY <2>2 DEF IInv, FirstIsFound
    <3>3. CASE d = c
      BY <1>1, <1>3, <2>1, <2>2, <3>1, <3>2, <3>3, TracedExtended
    <3>4. CASE d # c
      <4>1. call.client # clientId_[d]
        BY <1>1, <3>4 DEF IInv, IdsDiffer
      <4> QED
        BY <1>1, <1>3, <2>1, <3>1, <3>4, <4>1, TracedBeside
    <3> QED
      BY <3>3, <3>4
  <2>3. CASE ~(posted /\ h = handlers_[p.name])
    <3>1. calls'[h] = calls[h]
      BY <1>2, <1>4, <1>5, <2>3
    <3>2. p.kind = "unreadable" \/ ~Responsible(h, p.name)
      <4>1. SUFFICES ASSUME p.kind # "unreadable", Responsible(h, p.name) PROVE FALSE
        OBVIOUS
      <4>2. p.name \in DOMAIN handlers_ /\ handlers_[p.name] = h
        BY <4>1 DEF IInv, FirstIsFound
      <4>3. ~alive[h]
        BY <2>3, <4>1, <4>2
      <4> QED
        BY <4>1, <4>2, <4>3 DEF PassOn, HandlePacket, HandleCall
    <3>3. CASE d = c
      BY <1>1, <1>3, <2>1, <3>1, <3>2, <3>3, TracedSkipped
    <3>4. CASE d # c
      BY <1>1, <1>3, <2>1, <3>1, <3>4, TracedKept
    <3> QED
      BY <3>3, <3>4
  <2> QED
    BY <2>2, <2>3
<1> QED
  BY <1>9, <1>10, <1>11, <1>12 DEF IInv

\* Nobody is called by start(), stop(), a read, the workers and the destructor.
LEMMA OtherIInv ==
    ASSUME IInv, fault = "none",
           UNCHANGED <<handlers_, registered, calls, received, clientId_, clientId>>,
           TypeOK', SessionsFirst', PassedOnByIoThread', DestroyedIdle', OrderlyShutdown'
    PROVE  IInv'
<1>1. CallsTraceable'
  BY TraceableKept DEF IInv
<1>2. IdsDiffer' /\ FirstIsFound' /\ HandlersKnown'
  BY DEF IInv, IdsDiffer, FirstIsFound, Responsible, HandlersKnown
<1> QED
  BY <1>1, <1>2 DEF IInv

\* Every step preserves the invariant.
LEMMA NextIInv == IInv /\ [Next]_vars => IInv'
<1> SUFFICES ASSUME IInv, [Next]_vars PROVE IInv'
  OBVIOUS
<1>0. ASSUME UNCHANGED <<handlers_, registered>>
      PROVE  DOMAIN handlers_' = {threadName[registered'[i]] : i \in DOMAIN registered'}
  BY <1>0 DEF IInv, TypeOK
<1>1. ASSUME fault = "none", NEW h \in Handler, RegisterHandler(h) PROVE IInv'
  BY <1>1, RegisterIInv
<1>2. ASSUME fault = "none", NEW c \in Connection, HandleAccept(c) PROVE IInv'
  BY <1>2, AcceptIInv
<1>3. ASSUME fault = "none", NEW c \in Connection, NEW p \in Packet, PassOn(c, p)
      PROVE  IInv'
  BY <1>3, PassOnIInv
<1>4. ASSUME fault = "none", Start \/ Stop \/ JoinIoThread PROVE IInv'
  <2>1. /\ UNCHANGED <<handlers_, registered, inHand, clientId_, clientId, received,
                       calls, started, busy, alive, early, fault>>
        /\ phase' \in {"setup", "running", "joined"} /\ stopped' \in BOOLEAN
        /\ phase' = "setup" => phase = "setup"
        /\ phase = "joined" => phase' = "joined"
        /\ phase' = "running" \/ phase' = phase \/ inHand = {}
    BY <1>4 DEF IInv, TypeOK, Start, Stop, JoinIoThread, workerVars
  <2>2. TypeOK'
    BY <1>0, <2>1 DEF IInv, TypeOK
  <2>3. SessionsFirst' /\ PassedOnByIoThread' /\ DestroyedIdle' /\ OrderlyShutdown'
    BY <2>1 DEF IInv, SessionsFirst, PassedOnByIoThread, DestroyedIdle, OrderlyShutdown
  <2> QED
    BY <1>4, <2>1, <2>2, <2>3, OtherIInv
<1>9. ASSUME fault = "none", NEW c \in Connection, NEW p \in Packet, ProcessRead(c, p)
      PROVE  IInv'
  <2>1. /\ UNCHANGED <<handlers_, registered, phase, stopped, clientId_, clientId,
                       received, calls, started, busy, alive, early, fault>>
        /\ inHand' = {[from |-> c, packet |-> p]}
        /\ phase = "running" /\ clientId_[c] # -1
    BY <1>9 DEF ProcessRead, IoThreadFree, workerVars
  <2>2. inHand' \subseteq [from : Connection, packet : Packet]
    BY <2>1
  <2>3. UNCHANGED <<handlers_, registered, phase, stopped, clientId_, clientId,
                    received, calls, started, busy, alive, early, fault>>
    BY <2>1
  <2>4. TypeOK'
    BY <1>0, <2>2, <2>3 DEF IInv, TypeOK
  <2>5. PassedOnByIoThread'
    BY <2>1 DEF PassedOnByIoThread
  <2>6. SessionsFirst' /\ DestroyedIdle' /\ OrderlyShutdown'
    BY <2>3 DEF IInv, SessionsFirst, DestroyedIdle, OrderlyShutdown
  <2> QED
    BY <1>9, <2>3, <2>4, <2>5, <2>6, OtherIInv
<1>5. ASSUME fault = "none", NEW h \in Handler, DestroyHandler(h) PROVE IInv'
  <2>1. /\ UNCHANGED <<handlers_, registered, clientId_, clientId, received, calls,
                       phase, stopped, inHand, started, busy, fault>>
        /\ alive' = [alive EXCEPT ![h] = FALSE]
        /\ early' = (early \/ phase # "joined" \/ busy[h] \/ started[h] < Len(calls[h]))
    BY <1>5 DEF DestroyHandler, netVars
  <2>2. TypeOK'
    BY <1>0, <2>1 DEF IInv, TypeOK
  <2>3. SessionsFirst' /\ PassedOnByIoThread' /\ OrderlyShutdown'
    BY <2>1 DEF IInv, SessionsFirst, PassedOnByIoThread, OrderlyShutdown
  <2>4. DestroyedIdle'
    <3>1. Len(calls[h]) \in Nat /\ started[h] \in Nat /\ started[h] <= Len(calls[h])
      BY LenProperties DEF IInv, TypeOK
    <3>2. ~early' => ~early /\ phase = "joined" /\ ~busy[h] /\ ~(started[h] < Len(calls[h]))
      BY <2>1, Zenon
    <3>3. ~early' => ~early /\ phase = "joined" /\ ~busy[h] /\ started[h] = Len(calls[h])
      BY <3>1, <3>2
    <3> QED
      BY <2>1, <3>3 DEF IInv, TypeOK, DestroyedIdle
  <2> QED
    BY <1>5, <2>1, <2>2, <2>3, <2>4, OtherIInv
<1>6. ASSUME fault = "none", NEW h \in Handler, StartCall(h) PROVE IInv'
  <2>1. /\ UNCHANGED <<handlers_, registered, clientId_, clientId, received, calls,
                       phase, stopped, inHand, alive, early>>
        /\ started[h] < Len(calls[h])
        /\ \/ /\ alive[h] /\ fault' = fault
              /\ started' = [started EXCEPT ![h] = @ + 1] /\ busy' = [busy EXCEPT ![h] = TRUE]
           \/ ~alive[h] /\ fault' = "use after destruction" /\ UNCHANGED <<started, busy>>
    BY <1>6 DEF StartCall, netVars
  <2>2. /\ started \in [Handler -> Nat] /\ busy \in [Handler -> BOOLEAN]
        /\ \A k \in Handler : Len(calls[k]) \in Nat /\ started[k] <= Len(calls[k])
    BY LenProperties DEF IInv, TypeOK
  <2>3. /\ started[h] < Len(calls[h])
        /\ \A k \in Handler : started[k] \in Nat /\ Len(calls[k]) \in Nat /\ started[k] <= Len(calls[k])
    BY <2>1, <2>2
  <2>4. /\ started' \in [Handler -> Nat] /\ busy' \in [Handler -> BOOLEAN]
        /\ \A k \in Handler : started'[k] <= Len(calls'[k])
    <3>1. CASE UNCHANGED <<started, busy>>
      BY <2>1, <2>2, <3>1
    <3>2. CASE started' = [started EXCEPT ![h] = @ + 1] /\ busy' = [busy EXCEPT ![h] = TRUE]
      <4>1. started' \in [Handler -> Nat] /\ busy' \in [Handler -> BOOLEAN]
        BY <2>2, <3>2
      <4>2. \A k \in Handler : started'[k] = IF k = h THEN started[k] + 1 ELSE started[k]
        BY <2>2, <3>2
      <4>3. \A k \in Handler : started'[k] <= Len(calls[k])
        BY <2>3, <4>2
      <4> QED
        BY <2>1, <4>1, <4>3
    <3> QED
      BY <2>1, <3>1, <3>2
  <2>5. TypeOK'
    BY <1>0, <1>6, <2>1, <2>4 DEF IInv, TypeOK
  <2>6. SessionsFirst' /\ PassedOnByIoThread'
    BY <2>1 DEF IInv, SessionsFirst, PassedOnByIoThread
  <2>7. ~early => alive[h]
    <3>1. ~early /\ ~alive[h] => started[h] = Len(calls[h])
      BY DEF IInv, DestroyedIdle
    <3>2. started[h] # Len(calls[h])
      BY <2>3
    <3> QED
      BY <3>1, <3>2
  <2>8. DestroyedIdle' /\ OrderlyShutdown'
    BY <1>6, <2>1, <2>7 DEF IInv, TypeOK, DestroyedIdle, OrderlyShutdown
  <2> QED
    BY <1>6, <2>1, <2>5, <2>6, <2>8, OtherIInv
<1>7. ASSUME fault = "none", NEW h \in Handler, FinishCall(h) PROVE IInv'
  <2>1. /\ UNCHANGED <<handlers_, registered, clientId_, clientId, received, calls,
                       phase, stopped, inHand, started, alive, early>>
        /\ busy[h] /\ busy' = [busy EXCEPT ![h] = FALSE]
        /\ fault' \in {"none", "terminate", "use after destruction"}
        /\ alive[h] => fault' # "use after destruction"
    BY <1>7 DEF FinishCall, netVars
  <2>2. TypeOK'
    BY <1>0, <2>1 DEF IInv, TypeOK
  <2>3. SessionsFirst' /\ PassedOnByIoThread' /\ DestroyedIdle' /\ OrderlyShutdown'
    BY <2>1 DEF IInv, TypeOK, SessionsFirst, PassedOnByIoThread, DestroyedIdle,
                OrderlyShutdown
  <2> QED
    BY <1>7, <2>1, <2>2, <2>3, OtherIInv
<1>8. ASSUME UNCHANGED vars PROVE IInv'
  <2>1. UNCHANGED <<handlers_, registered, phase, stopped, inHand, clientId_, clientId,
                    received, calls, started, busy, alive, early, fault>>
    BY <1>8 DEF vars, netVars, workerVars
  <2>2. TypeOK'
    BY <1>0, <2>1 DEF IInv, TypeOK
  <2>3. /\ SessionsFirst' /\ PassedOnByIoThread' /\ DestroyedIdle' /\ OrderlyShutdown'
        /\ IdsDiffer' /\ HandlersKnown'
    BY <2>1 DEF IInv, SessionsFirst, PassedOnByIoThread, DestroyedIdle, OrderlyShutdown,
                IdsDiffer, HandlersKnown
  <2>4. FirstIsFound'
    BY <2>1 DEF IInv, FirstIsFound, Responsible
  <2>5. CallsTraceable'
    <3>1. CASE fault = "none"
      BY <2>1, <3>1, TraceableKept DEF IInv
    <3>2. CASE fault # "none"
      BY <2>1, <3>2 DEF CallsTraceable
    <3> QED
      BY <3>1, <3>2
  <2> QED
    BY <2>2, <2>3, <2>4, <2>5 DEF IInv
<1> QED
  BY <1>1, <1>2, <1>3, <1>4, <1>5, <1>6, <1>7, <1>8, <1>9 DEF Next, IoThread, Worker

\* The invariant holds in every state that is reached.
LEMMA Invariance == Spec => []IInv
  BY InitIInv, NextIInv, PTL DEF Spec

-----------------------------------------------------------------------------
(* The theorems.                                                           *)

\* The handler manager and the handlers keep to their types: in particular no
\* worker starts a call that was not posted to it (handlermanager.cpp:9-32).
THEOREM TypeCorrect == Spec => []TypeOK
<1>1. IInv => TypeOK
  BY DEF IInv
<1> QED
  BY <1>1, Invariance, PTL

\* For any handlers, with whatever names, and any number of connections and
\* packets, a handler's calls from a session are exactly the packets that it
\* is responsible for, in their order (handlermanager.cpp:9-32,
\* netbase.cpp:92-95, 181-196).
THEOREM CallsAreThePackets == Spec => []CallsTraceable
<1>1. IInv => CallsTraceable
  BY DEF IInv
<1> QED
  BY <1>1, Invariance, PTL

\* An owner that calls stop(), joins the thread that ran start() and lets the
\* handlers finish before it destroys them is safe, wherever its steps fall
\* between those of the io thread: no thread uses a destroyed handler, for any
\* number of them (handlermanager.cpp:22-27, netbase.cpp:92-95, 219-228,
\* threadedclass.h:16-19).
THEOREM ShutdownIsSafe == Spec => []OrderlyShutdown
<1>1. IInv => OrderlyShutdown
  BY DEF IInv
<1> QED
  BY <1>1, Invariance, PTL

-----------------------------------------------------------------------------
(* The text of packets and calls.  It is made of characters from any set   *)
(* Char that has those of the format.                                      *)

\* The characters that mean something in the text of serialised values.
Format == {Quote, BackSlash, Comma, OpenBracket, CloseBracket, OpenBrace, CloseBrace} \cup Digits

\* Every quote in the text has a backslash before it.
QuotesProtected(e) == \A j \in 1..Len(e) : e[j] = Quote => j > 1 /\ e[j - 1] = BackSlash

\* There is nothing in a text e but backslashes and characters of str.
MadeOf(e, str) ==
    \A j \in 1..Len(e) : e[j] = BackSlash \/ \E k \in 1..Len(str) : e[j] = str[k]

\* Two texts with protected quotes make one.
LEMMA ProtectedConcat ==
    ASSUME NEW Char, NEW a \in Seq(Char), NEW b \in Seq(Char), QuotesProtected(a), QuotesProtected(b)
    PROVE  a \o b \in Seq(Char) /\ QuotesProtected(a \o b)
<1> DEFINE c == a \o b
<1>1. /\ c \in Seq(Char) /\ Len(c) = Len(a) + Len(b)
      /\ Len(a) \in Nat /\ Len(b) \in Nat
      /\ \A i \in 1..Len(a) : c[i] = a[i]
      /\ \A j \in 1..Len(b) : c[Len(a) + j] = b[j]
  BY ConcatFacts
<1> HIDE DEF c
<1>2. ASSUME NEW j \in 1..Len(c), c[j] = Quote
      PROVE  j > 1 /\ c[j - 1] = BackSlash
  <2>1. CASE j \in 1..Len(a)
    <3>1. j > 1 /\ a[j - 1] = BackSlash
      BY <1>1, <1>2, <2>1 DEF QuotesProtected
    <3>2. j - 1 \in 1..Len(a)
      BY <1>1, <2>1, <3>1
    <3> QED
      BY <1>1, <3>1, <3>2
  <2>2. CASE j > Len(a)
    <3>1. j - Len(a) \in 1..Len(b) /\ Len(a) + (j - Len(a)) = j
      BY <1>1, <2>2
    <3>2. b[j - Len(a)] = Quote
      BY <1>1, <1>2, <3>1
    <3>3. j - Len(a) > 1 /\ b[(j - Len(a)) - 1] = BackSlash
      BY <3>1, <3>2 DEF QuotesProtected
    <3>4. (j - Len(a)) - 1 \in 1..Len(b) /\ Len(a) + ((j - Len(a)) - 1) = j - 1 /\ j > 1
      BY <1>1, <3>1, <3>3
    <3> QED
      BY <1>1, <3>3, <3>4
  <2> QED
    BY <1>1, <2>1, <2>2
<1> QED
  BY <1>1, <1>2 DEF QuotesProtected, c

\* Escape protects the quotes, keeps the end of the string and adds nothing
\* but backslashes.
LEMMA EscapeFacts ==
    ASSUME NEW Char, Format \subseteq Char, NEW str \in Seq(Char)
    PROVE  /\ Escape(str) \in Seq(Char)
           /\ QuotesProtected(Escape(str))
           /\ str # <<>> => /\ Escape(str) # <<>>
                            /\ Escape(str)[Len(Escape(str))] = str[Len(str)]
           /\ str = <<>> => Escape(str) = <<>>
           /\ MadeOf(Escape(str), str)
<1> DEFINE n == Len(str)
           p == [i \in DOMAIN str |-> IF str[i] = Quote THEN <<BackSlash, Quote>> ELSE <<str[i]>>]
<1>1. n \in Nat /\ DOMAIN str = 1..n /\ \A i \in 1..n : str[i] \in Char
  BY LenProperties, ElementOfSeq
<1>2. Escape(str) = FlattenSeq(p)
  BY DEF Escape
<1>3. ASSUME NEW i \in 1..n
      PROVE  /\ p[i] \in Seq(Char) /\ Len(p[i]) \in Nat /\ Len(p[i]) > 0
             /\ p[i][Len(p[i])] = str[i] /\ QuotesProtected(p[i])
             /\ \A j \in 1..Len(p[i]) : p[i][j] = BackSlash \/ p[i][j] = str[i]
  <2>1. CASE str[i] = Quote
    <3> DEFINE q == <<BackSlash, Quote>>
    <3>1. p[i] = q
      BY <1>1, <2>1
    <3>0. BackSlash \in Char /\ Quote \in Char
      BY DEF Format
    <3>2. q \in Seq(Char) /\ Len(q) = 2 /\ q[1] = BackSlash /\ q[2] = Quote
      BY <3>0
    <3> HIDE DEF q, p
    <3>3. \A j \in 1..2 : j = 1 \/ j = 2
      OBVIOUS
    <3>4. BackSlash # Quote
      BY DEF BackSlash, Quote
    <3>5. QuotesProtected(q)
      BY <3>2, <3>3, <3>4 DEF QuotesProtected
    <3> QED
      BY <2>1, <3>1, <3>2, <3>3, <3>5
  <2>2. CASE str[i] # Quote
    <3> DEFINE q == <<str[i]>>
    <3>1. p[i] = q
      BY <1>1, <2>2
    <3>2. q \in Seq(Char) /\ Len(q) = 1 /\ q[1] = str[i]
      BY <1>1
    <3> HIDE DEF q, p
    <3>3. \A j \in 1..1 : j = 1
      OBVIOUS
    <3>4. QuotesProtected(q)
      BY <2>2, <3>2, <3>3 DEF QuotesProtected
    <3> QED
      BY <3>1, <3>2, <3>3, <3>4
  <2> QED
    BY <2>1, <2>2
<1>4. p = [i \in 1..n |-> p[i]]
  BY <1>1
<1> HIDE DEF p
<1>5. p \in Seq(Seq(Char)) /\ Len(p) = n
  <2>1. p \in [1..n -> Seq(Char)]
    BY <1>3, <1>4
  <2> QED
    BY <1>1, <2>1, FunctionIsSeq
<1>6. CASE str = <<>>
  <2>1. n = 0
    BY <1>6
  <2>2. p = <<>>
    BY <1>5, <2>1, EmptySeq
  <2>3. FlattenSeq(p) = <<>>
    BY <2>2 DEF FlattenSeq
  <2>4. QuotesProtected(<<>>)
    BY DEF QuotesProtected
  <2>5. MadeOf(<<>>, str)
    BY DEF MadeOf
  <2> QED
    BY <1>2, <1>6, <2>3, <2>4, <2>5
<1>7. CASE str # <<>>
  <2>1. n # 0 /\ p # <<>>
    BY <1>1, <1>5, <1>7, EmptySeq
  <2>2. PICK g \in [1..n -> Seq(Char)] :
          /\ g[1] = p[1]
          /\ \A i \in 2..n : g[i] = g[i - 1] \o p[i]
          /\ FlattenSeq(p) = g[n]
    <3>1. p \in Seq(Seq(Char)) /\ p # <<>>
      BY <1>5, <2>1
    <3>2. \E g \in [1..Len(p) -> Seq(Char)] :
            /\ g[1] = p[1]
            /\ \A i \in 2..Len(p) : g[i] = g[i - 1] \o p[i]
            /\ FlattenSeq(p) = g[Len(p)]
      BY <3>1, FlattenFacts
    <3> QED
      BY <1>5, <3>2
  <2> DEFINE Good(a, c) ==
        /\ a \in Seq(Char) /\ QuotesProtected(a)
        /\ Len(a) \in Nat /\ Len(a) > 0 /\ a[Len(a)] = c
        /\ \A j \in 1..Len(a) : a[j] = BackSlash \/ \E k \in 1..n : a[j] = str[k]
      T == {i \in 1..n : ~Good(g[i], str[i])}
  <2>3. T = {}
    <3> SUFFICES ASSUME T # {} PROVE FALSE
      OBVIOUS
    <3>1. T \in SUBSET Nat
      BY <1>1
    <3>2. PICK m \in T : \A k \in T : m <= k
      <4> HIDE DEF T
      <4> QED
        BY <3>1, LeastNatural
    <3>3. m \in 1..n /\ ~Good(g[m], str[m])
      OBVIOUS
    <3>4. Good(p[m], str[m])
      BY <1>3, <3>3
    <3>5. m # 1
      BY <2>2, <3>3, <3>4
    <3>6. m - 1 \in 1..n /\ m \in 2..n /\ ~(m <= m - 1)
      BY <1>1, <3>3, <3>5
    <3>7. Good(g[m - 1], str[m - 1])
      BY <3>2, <3>6
    <3> DEFINE a == g[m - 1]
               b == p[m]
               c == a \o b
    <3>8. g[m] = c
      BY <2>2, <3>6
    <3>9. /\ a \in Seq(Char) /\ b \in Seq(Char) /\ QuotesProtected(a) /\ QuotesProtected(b)
          /\ Len(a) \in Nat /\ Len(b) \in Nat /\ Len(b) > 0 /\ b[Len(b)] = str[m]
          /\ \A j \in 1..Len(a) : a[j] = BackSlash \/ \E k \in 1..n : a[j] = str[k]
          /\ \A j \in 1..Len(b) : b[j] = BackSlash \/ \E k \in 1..n : b[j] = str[k]
      BY <3>4, <3>7
    <3> HIDE DEF a, b, Good, T
    <3>10. /\ c \in Seq(Char) /\ Len(c) = Len(a) + Len(b)
           /\ \A i \in 1..Len(a) : c[i] = a[i]
           /\ \A j \in 1..Len(b) : c[Len(a) + j] = b[j]
      BY <3>9, ConcatFacts
    <3>11. QuotesProtected(c)
      BY <3>9, ProtectedConcat
    <3> HIDE DEF c
    <3>12. Len(c) \in Nat /\ Len(c) > 0 /\ c[Len(c)] = str[m]
      <4>1. Len(b) \in 1..Len(b) /\ Len(c) = Len(a) + Len(b)
        BY <3>9, <3>10
      <4>2. c[Len(c)] = b[Len(b)]
        BY <3>10, <4>1
      <4>3. Len(c) \in Nat /\ Len(c) > 0
        BY <3>9, <4>1
      <4> QED
        BY <3>9, <4>2, <4>3
    <3>13. ASSUME NEW j \in 1..Len(c)
           PROVE  c[j] = BackSlash \/ \E k \in 1..n : c[j] = str[k]
      <4>1. CASE j \in 1..Len(a)
        BY <3>9, <3>10, <4>1
      <4>2. CASE j > Len(a)
        <5>1. j - Len(a) \in 1..Len(b) /\ Len(a) + (j - Len(a)) = j
          BY <3>9, <3>10, <4>2
        <5>2. c[j] = b[j - Len(a)]
          BY <3>10, <5>1
        <5> QED
          BY <3>9, <5>1, <5>2
      <4> QED
        BY <3>9, <3>10, <4>1, <4>2
    <3> QED
      BY <3>3, <3>8, <3>10, <3>11, <3>12, <3>13 DEF Good
  <2>4. Good(g[n], str[n])
    <3>1. n \in 1..n
      BY <1>1, <2>1
    <3> HIDE DEF Good
    <3> QED
      BY <2>3, <3>1
  <2>5. Escape(str) = g[n]
    BY <1>2, <2>2
  <2>6. g[n] # <<>>
    BY <2>4
  <2>7. MadeOf(g[n], str)
    BY <2>4 DEF MadeOf
  <2> QED
    BY <1>7, <2>4, <2>5, <2>6, <2>7
<1> QED
  BY <1>6, <1>7

\* The first index that was found is the smallest.
LEMMA FirstIndexFacts ==
    ASSUME NEW in, NEW found \in SUBSET Nat, NEW m \in found, \A i \in found : m <= i
    PROVE  FirstIndex(in, found) = m
<1>1. \A x \in found : (\A y \in found : x =< y) => x = m
  OBVIOUS
<1>2. Min(found) = m
  BY <1>1 DEF Min
<1> QED
  BY <1>2 DEF FirstIndex

\* What is left of a text from an index on.
LEMMA FromFacts ==
    ASSUME NEW Char, NEW in \in Seq(Char), NEW k \in Nat, k > 0
    PROVE  /\ From(in, k) \in Seq(Char) /\ Len(in) \in Nat
           /\ Len(From(in, k)) = IF k <= Len(in) THEN Len(in) - k + 1 ELSE 0
           /\ \A j \in 1..Len(From(in, k)) : From(in, k)[j] = in[k + j - 1]
           /\ k > Len(in) => From(in, k) = <<>>
<1>1. Len(in) \in Nat /\ \A i \in k..Len(in) : in[i] \in Char
  <2>1. Len(in) \in Nat
    BY LenProperties
  <2>2. \A i \in k..Len(in) : i \in 1..Len(in)
    BY <2>1
  <2> QED
    BY <2>1, <2>2, ElementOfSeq
<1> DEFINE n == Len(in)
           f == SubSeq(in, k, n)
<1>2. /\ f \in Seq(Char)
      /\ Len(f) = IF k <= n THEN n - k + 1 ELSE 0
      /\ \A j \in 1..(n - k + 1) : f[j] = in[k + j - 1]
  BY <1>1, SubSeqProperties
<1>3. k > n => f = <<>>
  BY <1>1, SubSeqEmpty
<1>4. \A j \in 1..Len(f) : j \in 1..(n - k + 1)
  BY <1>1, <1>2
<1> QED
  BY <1>1, <1>2, <1>3, <1>4 DEF From

\* What is left of what is left.
LEMMA FromFrom ==
    ASSUME NEW Char, NEW in \in Seq(Char), NEW a \in Nat, a > 0, NEW b \in Nat, b > 0
    PROVE  From(From(in, a), b) = From(in, a + b - 1)
<1> DEFINE x == From(in, a)
           y == From(x, b)
           c == a + b - 1
           z == From(in, c)
<1>1. c \in Nat /\ c > 0
  OBVIOUS
<1>2. /\ x \in Seq(Char) /\ Len(in) \in Nat
      /\ Len(x) = IF a <= Len(in) THEN Len(in) - a + 1 ELSE 0
      /\ \A j \in 1..Len(x) : x[j] = in[a + j - 1]
  BY FromFacts
<1>3. /\ z \in Seq(Char)
      /\ Len(z) = IF c <= Len(in) THEN Len(in) - c + 1 ELSE 0
      /\ \A j \in 1..Len(z) : z[j] = in[c + j - 1]
  <2> HIDE DEF c
  <2> QED
    BY <1>1, FromFacts
<1> HIDE DEF x, z
<1>4. /\ y \in Seq(Char) /\ Len(x) \in Nat
      /\ Len(y) = IF b <= Len(x) THEN Len(x) - b + 1 ELSE 0
      /\ \A j \in 1..Len(y) : y[j] = x[b + j - 1]
  BY <1>2, FromFacts
<1> HIDE DEF y
<1>5. Len(y) = Len(z) /\ Len(y) \in Nat
  BY <1>2, <1>3, <1>4
<1>6. ASSUME NEW j \in 1..Len(y)
      PROVE  y[j] = z[j]
  <2>1. b + j - 1 \in 1..Len(x) /\ a + (b + j - 1) - 1 = c + j - 1
    BY <1>4, <1>5
  <2>2. x[b + j - 1] = in[a + (b + j - 1) - 1]
    BY <1>2, <2>1
  <2> QED
    BY <1>3, <1>4, <1>5, <2>1, <2>2
<1>7. y = z
  BY <1>3, <1>4, <1>5, <1>6, SeqEqual
<1> QED
  BY <1>7 DEF x, y, z

\* What the token takes of the text behind it.
LEMMA TokenFacts ==
    ASSUME NEW Char, NEW in \in Seq(Char), NEW tok, NEW k \in Nat, k > 0,
           k <= Len(in) => in[k] = Comma
    PROVE  /\ Token(tok, From(in, k)).tok = tok
           /\ Token(tok, From(in, k)).rest = From(in, k + 1)
<1> DEFINE b == From(in, k)
<1>1. /\ b \in Seq(Char) /\ Len(in) \in Nat
      /\ Len(b) = IF k <= Len(in) THEN Len(in) - k + 1 ELSE 0
      /\ \A j \in 1..Len(b) : b[j] = in[k + j - 1]
      /\ k > Len(in) => b = <<>>
  BY FromFacts
<1>2. CASE k > Len(in)
  <2>1. b = <<>>
    BY <1>1, <1>2
  <2>2. From(in, k + 1) = <<>>
    <3>1. k + 1 \in Nat /\ k + 1 > 0 /\ k + 1 > Len(in)
      BY <1>1, <1>2
    <3> QED
      BY <3>1, FromFacts
  <2> HIDE DEF b
  <2> QED
    BY <2>1, <2>2 DEF Token, b
<1>3. CASE k <= Len(in)
  <2>1. Len(b) > 0 /\ b[1] = Comma
    <3> HIDE DEF b
    <3>1. 1 \in 1..Len(b) /\ k + 1 - 1 = k
      BY <1>1, <1>3
    <3> QED
      BY <1>1, <1>3, <3>1
  <2>2. Tail(b) = From(in, k + 1)
    <3>1. k \in 1..Len(in) /\ Len(in) \in k..Len(in)
      BY <1>1, <1>3
    <3>2. Tail(SubSeq(in, k, Len(in))) = SubSeq(in, k + 1, Len(in))
      BY <3>1, HeadTailOfSubSeq
    <3> QED
      BY <3>2 DEF From
  <2>3. b # <<>>
    BY <2>1
  <2> HIDE DEF b
  <2> QED
    BY <2>1, <2>2, <2>3 DEF Token, b
<1> QED
  BY <1>1, <1>2, <1>3

\* A string is read to the quote at its end, or to the end of the text.
LEMMA StringTokenFacts ==
    ASSUME NEW Char, NEW in \in Seq(Char), NEW e \in Seq(Char), QuotesProtected(e),
           e # <<>> => e[Len(e)] # BackSlash,
           Len(in) >= Len(e) + 1, in[1] = Quote,
           \A j \in 1..Len(e) : in[j + 1] = e[j],
           Len(in) > Len(e) + 1 => in[Len(e) + 2] = Quote
    PROVE  StringToken(in) = Token(e, From(in, Len(e) + 3))
<1> DEFINE n == Len(in)
           l == Len(e)
           found == {i \in 2..n : in[i] = Quote /\ ~(i > 2 /\ in[i - 1] = BackSlash)}
           end == FirstIndex(in, found)
<1>1. n \in Nat /\ l \in Nat /\ n >= l + 1
  BY LenProperties
<1>2. l > 0 => in[l + 1] # BackSlash
  <2>1. l > 0 => l \in 1..l /\ e # <<>>
    BY <1>1
  <2> QED
    BY <2>1
<1>3. ASSUME NEW i \in 2..(l + 1)
      PROVE  i \notin found
  <2> SUFFICES ASSUME in[i] = Quote
               PROVE  i > 2 /\ in[i - 1] = BackSlash
    OBVIOUS
  <2>1. i - 1 \in 1..l /\ (i - 1) + 1 = i
    BY <1>1
  <2>2. e[i - 1] = Quote
    BY <2>1
  <2>3. i - 1 > 1 /\ e[(i - 1) - 1] = BackSlash
    BY <2>1, <2>2 DEF QuotesProtected
  <2>4. (i - 1) - 1 \in 1..l /\ ((i - 1) - 1) + 1 = i - 1 /\ i > 2
    BY <1>1, <2>1, <2>3
  <2>5. in[((i - 1) - 1) + 1] = e[(i - 1) - 1]
    BY <2>4
  <2> QED
    BY <2>3, <2>4, <2>5
<1>4. \A i \in found : l + 2 <= i
  <2>1. \A i \in 2..n : i \in 2..(l + 1) \/ l + 2 <= i
    BY <1>1
  <2> QED
    BY <1>3, <2>1
<1>5. found \in SUBSET Nat
  BY <1>1
<1>6. end = l + 2
  <2>1. CASE n = l + 1
    <3>1. \A i \in 2..n : ~(l + 2 <= i)
      BY <1>1, <2>1
    <3>2. found = {}
      BY <1>4, <3>1
    <3> HIDE DEF found
    <3> QED
      BY <1>1, <2>1, <3>2 DEF FirstIndex
  <2>2. CASE n > l + 1
    <3>1. l + 2 \in 2..n /\ in[l + 2] = Quote
      BY <1>1, <2>2
    <3>2. l + 2 > 2 => l > 0 /\ (l + 2) - 1 = l + 1
      BY <1>1
    <3>3. l + 2 \in found
      BY <1>2, <3>1, <3>2
    <3> HIDE DEF found
    <3> QED
      BY <1>4, <1>5, <3>3, FirstIndexFacts
  <2> QED
    BY <1>1, <2>1, <2>2
<1>7. StringToken(in) = Token(SubSeq(in, 2, end - 1), From(in, end + 1))
  BY DEF StringToken
<1> HIDE DEF end
<1>8. end - 1 = l + 1 /\ end + 1 = l + 3
  BY <1>1, <1>6
<1>9. SubSeq(in, 2, l + 1) = e
  <2> DEFINE s == SubSeq(in, 2, l + 1)
             h == l + 1
  <2>0. h \in Int /\ \A i \in 2..h : in[i] \in Char
    <3>1. \A i \in 2..h : i \in 1..n
      BY <1>1
    <3> QED
      BY <1>1, <3>1, ElementOfSeq
  <2>1. /\ s \in Seq(Char) /\ Len(s) = IF 2 <= h THEN h - 2 + 1 ELSE 0
        /\ \A i \in 1..(h - 2 + 1) : s[i] = in[2 + i - 1]
    <3> HIDE DEF h
    <3>1. /\ SubSeq(in, 2, h) \in Seq(Char)
          /\ Len(SubSeq(in, 2, h)) = IF 2 <= h THEN h - 2 + 1 ELSE 0
          /\ \A i \in 1..(h - 2 + 1) : SubSeq(in, 2, h)[i] = in[2 + i - 1]
      BY <2>0, SubSeqProperties
    <3> QED
      BY <3>1 DEF h
  <2> HIDE DEF s
  <2>2. Len(s) = l /\ h - 2 + 1 = l
    BY <1>1, <2>1
  <2>3. \A i \in 1..l : 2 + i - 1 = i + 1
    BY <1>1
  <2>4. \A i \in 1..l : s[i] = e[i]
    BY <2>1, <2>2, <2>3
  <2>5. s = e
    BY <2>1, <2>2, <2>4, SeqEqual
  <2> QED
    BY <2>5 DEF s
<1> QED
  BY <1>7, <1>8, <1>9

\* Any other token is read to the comma behind it, or to the end of the text.
LEMMA PlainTokenFacts ==
    ASSUME NEW Char, NEW in \in Seq(Char), NEW e \in Seq(Char),
           \A j \in 1..Len(e) : e[j] # Comma,
           Len(in) >= Len(e), \A j \in 1..Len(e) : in[j] = e[j],
           Len(in) > Len(e) => in[Len(e) + 1] = Comma
    PROVE  PlainToken(in) = Token(e, From(in, Len(e) + 1))
<1> DEFINE n == Len(in)
           l == Len(e)
           found == {i \in 1..n : in[i] = Comma}
           end == FirstIndex(in, found)
<1>1. n \in Nat /\ l \in Nat /\ n >= l
  BY LenProperties
<1>2. \A i \in found : l + 1 <= i
  <2>1. \A i \in 1..n : i \in 1..l \/ l + 1 <= i
    BY <1>1
  <2> QED
    BY <2>1
<1>3. found \in SUBSET Nat
  BY <1>1
<1>4. end = l + 1
  <2>1. CASE n = l
    <3>1. \A i \in 1..n : ~(l + 1 <= i)
      BY <1>1, <2>1
    <3>2. found = {}
      BY <1>2, <3>1
    <3> HIDE DEF found
    <3> QED
      BY <1>1, <2>1, <3>2 DEF FirstIndex
  <2>2. CASE n > l
    <3>1. l + 1 \in 1..n /\ in[l + 1] = Comma
      BY <1>1, <2>2
    <3>2. l + 1 \in found
      BY <3>1
    <3> HIDE DEF found
    <3> QED
      BY <1>2, <1>3, <3>2, FirstIndexFacts
  <2> QED
    BY <1>1, <2>1, <2>2
<1>5. PlainToken(in) = Token(SubSeq(in, 1, end - 1), From(in, end))
  BY DEF PlainToken
<1> HIDE DEF end
<1>6. end - 1 = l
  BY <1>1, <1>4
<1>7. SubSeq(in, 1, l) = e
  <2> DEFINE s == SubSeq(in, 1, l)
  <2>0. \A i \in 1..l : in[i] \in Char
    <3>1. \A i \in 1..l : i \in 1..n
      BY <1>1
    <3> QED
      BY <1>1, <3>1, ElementOfSeq
  <2>1. /\ s \in Seq(Char) /\ Len(s) = IF 1 <= l THEN l - 1 + 1 ELSE 0
        /\ \A i \in 1..(l - 1 + 1) : s[i] = in[1 + i - 1]
    <3> HIDE DEF l
    <3> QED
      BY <1>1, <2>0, SubSeqProperties
  <2> HIDE DEF s
  <2>2. Len(s) = l /\ l - 1 + 1 = l
    BY <1>1, <2>1
  <2>3. \A i \in 1..l : 1 + i - 1 = i
    BY <1>1
  <2>4. \A i \in 1..l : s[i] = e[i]
    BY <2>1, <2>2, <2>3
  <2>5. s = e
    BY <2>1, <2>2, <2>4, SeqEqual
  <2> QED
    BY <2>5 DEF s
<1> QED
  BY <1>4, <1>5, <1>6, <1>7

\* An int, or a string that does not end in a backslash.
Scalar(f, Char) ==
    \/ f.t = "int" /\ f.v \in Seq(Digits) /\ f.v # <<>>
    \/ f.t = "str" /\ f.v \in Seq(Char) /\ (f.v # <<>> => f.v[Len(f.v)] # BackSlash)

\* The token that it is read from.
TokenOf(f) == IF f.t = "int" THEN f.v ELSE Escape(f.v)

\* The characters of the format differ.
LEMMA FormatFacts ==
    /\ Quote # OpenBracket /\ Quote # OpenBrace /\ OpenBrace # OpenBracket
    /\ Quote # CloseBrace /\ BackSlash # CloseBrace /\ Comma # CloseBrace
    /\ OpenBrace # CloseBrace
    /\ \A d \in Digits : /\ d # Quote /\ d # OpenBracket /\ d # OpenBrace
                         /\ d # Comma /\ d # CloseBrace
<1>1. /\ Quote # OpenBracket /\ Quote # OpenBrace /\ OpenBrace # OpenBracket
      /\ Quote # CloseBrace /\ BackSlash # CloseBrace /\ Comma # CloseBrace
      /\ OpenBrace # CloseBrace
  BY Zenon DEF Quote, OpenBracket, OpenBrace, CloseBrace, BackSlash, Comma
<1>2. \A d \in Digits : /\ d # Quote /\ d # OpenBracket /\ d # OpenBrace
                        /\ d # Comma /\ d # CloseBrace
  BY Zenon DEF Quote, OpenBracket, OpenBrace, CloseBrace, Comma, Digits
<1> QED
  BY <1>1, <1>2

\* How an int is written.
LEMMA IntWritten ==
    ASSUME NEW Char, Format \subseteq Char, NEW f, Scalar(f, Char), f.t = "int"
    PROVE  /\ WriteScalar(f) = f.v /\ TokenOf(f) = f.v
           /\ f.v \in Seq(Char) /\ f.v \in Seq(Digits) /\ f.v # <<>>
           /\ Len(f.v) \in Nat /\ Len(f.v) > 0
           /\ \A j \in 1..Len(f.v) : f.v[j] \in Digits
<1>1. f.v \in Seq(Digits) /\ f.v # <<>>
  BY DEF Scalar
<1> DEFINE v == f.v
<1>2. v \in Seq(Digits) /\ v # <<>>
  BY <1>1
<1>3. WriteScalar(f) = v /\ TokenOf(f) = v
  BY DEF WriteScalar, TokenOf
<1> HIDE DEF v
<1>4. Digits \subseteq Char
  BY DEF Format
<1>5. v \in Seq(Char)
  BY <1>2, <1>4, SeqMonotonic
<1>6. Len(v) \in Nat /\ Len(v) > 0
  BY <1>2, EmptySeq
<1>7. \A j \in 1..Len(v) : v[j] \in Digits
  BY <1>2, ElementOfSeq
<1> QED
  BY <1>2, <1>3, <1>5, <1>6, <1>7 DEF v

\* How a string is written.
LEMMA StringWritten ==
    ASSUME NEW Char, Format \subseteq Char, NEW f, Scalar(f, Char), f.t # "int"
    PROVE  LET x == WriteScalar(f)
               e == TokenOf(f)
           IN  /\ x \in Seq(Char) /\ e \in Seq(Char) /\ Len(e) \in Nat
               /\ f.t = "str" /\ QuotesProtected(e)
               /\ e # <<>> => e[Len(e)] # BackSlash
               /\ Len(x) = Len(e) + 2
               /\ x[1] = Quote /\ x[Len(e) + 2] = Quote
               /\ \A j \in 1..Len(e) : x[j + 1] = e[j]
               /\ MadeOf(e, f.v)
<1> DEFINE v == f.v
           x == WriteScalar(f)
           e == Escape(v)
           q == <<Quote>>
           h == q \o e
<1>1. v \in Seq(Char) /\ f.t = "str" /\ (v # <<>> => v[Len(v)] # BackSlash)
  BY DEF Scalar
<1>2. x = h \o q /\ TokenOf(f) = e
  BY DEF WriteScalar, Quoted, TokenOf
<1> HIDE DEF v
<1>3. /\ e \in Seq(Char) /\ QuotesProtected(e)
      /\ v # <<>> => e # <<>> /\ e[Len(e)] = v[Len(v)]
      /\ v = <<>> => e = <<>>
      /\ MadeOf(e, v)
  BY <1>1, EscapeFacts
<1>4. Quote \in Char
  BY DEF Format
<1>5. q \in Seq(Char) /\ Len(q) = 1 /\ q[1] = Quote
  BY <1>4
<1> HIDE DEF e, q
<1>6. /\ h \in Seq(Char) /\ Len(h) = Len(q) + Len(e) /\ Len(e) \in Nat
      /\ \A i \in 1..Len(q) : h[i] = q[i]
      /\ \A j \in 1..Len(e) : h[Len(q) + j] = e[j]
  <2>1. q \in Seq(Char) /\ e \in Seq(Char)
    BY <1>3, <1>5
  <2> QED
    BY <2>1, ConcatFacts
<1> HIDE DEF h, x
<1>7. /\ x \in Seq(Char) /\ Len(x) = Len(h) + Len(q)
      /\ \A i \in 1..Len(h) : x[i] = h[i]
      /\ \A j \in 1..Len(q) : x[Len(h) + j] = q[j]
  <2>1. q \in Seq(Char) /\ h \in Seq(Char) /\ x = h \o q
    BY <1>2, <1>5, <1>6
  <2> QED
    BY <2>1, ConcatFacts
<1>8. Len(h) = Len(e) + 1 /\ Len(x) = Len(e) + 2
  BY <1>5, <1>6, <1>7
<1>9. x[1] = Quote
  <2>1. 1 \in 1..Len(h) /\ 1 \in 1..Len(q)
    BY <1>5, <1>6, <1>8
  <2> QED
    BY <1>5, <1>6, <1>7, <2>1
<1>10. x[Len(e) + 2] = Quote
  <2>1. 1 \in 1..Len(q) /\ Len(h) + 1 = Len(e) + 2
    BY <1>5, <1>6, <1>8
  <2> QED
    BY <1>5, <1>7, <2>1
<1>11. ASSUME NEW j \in 1..Len(e)
       PROVE  x[j + 1] = e[j]
  <2>1. j + 1 \in 1..Len(h) /\ Len(q) + j = j + 1
    BY <1>5, <1>6, <1>8
  <2> QED
    BY <1>6, <1>7, <2>1
<1>12. e # <<>> => e[Len(e)] # BackSlash
  BY <1>1, <1>3
<1> QED
  BY <1>1, <1>2, <1>3, <1>6, <1>7, <1>8, <1>9, <1>10, <1>11, <1>12 DEF v, x

\* An int or a string at the beginning of a text, with a comma behind it or
\* the end of the text, is the next token; a string also if the quote at its
\* end was cut off.
LEMMA ScalarToken ==
    ASSUME NEW Char, Format \subseteq Char, NEW f, Scalar(f, Char),
           NEW in \in Seq(Char), NEW l \in Nat, l = Len(WriteScalar(f)),
           \/ Len(in) >= l
           \/ f.t = "str" /\ Len(in) = l - 1,
           \A j \in 1..Len(in) : j <= l => in[j] = WriteScalar(f)[j],
           Len(in) > l => in[l + 1] = Comma
    PROVE  /\ NextToken(in).tok = TokenOf(f)
           /\ NextToken(in).rest = From(in, l + 2)
<1>1. Len(in) \in Nat
  BY LenProperties
<1>2. CASE f.t = "int"
  <2> DEFINE e == f.v
  <2>1. /\ l = Len(e) /\ e \in Seq(Char) /\ WriteScalar(f) = e /\ TokenOf(f) = e
        /\ Len(e) \in Nat /\ Len(e) > 0 /\ \A j \in 1..Len(e) : e[j] \in Digits
    BY <1>2, IntWritten
  <2> HIDE DEF e
  <2>2. Len(in) >= Len(e)
    BY <1>2, <2>1
  <2>3. \A j \in 1..Len(e) : in[j] = e[j] /\ e[j] # Comma
    <3>1. \A j \in 1..Len(e) : j \in 1..Len(in) /\ j <= l
      BY <1>1, <2>1, <2>2
    <3> QED
      BY <2>1, <3>1, FormatFacts
  <2>4. Len(in) > Len(e) => in[Len(e) + 1] = Comma
    BY <2>1
  <2>5. PlainToken(in) = Token(e, From(in, Len(e) + 1))
    BY <2>1, <2>2, <2>3, <2>4, PlainTokenFacts
  <2>6. in # <<>> /\ in[1] # OpenBracket /\ in[1] # OpenBrace /\ in[1] # Quote
    <3>1. 1 \in 1..Len(e) /\ in # <<>>
      BY <1>1, <2>1, <2>2
    <3>2. in[1] \in Digits
      BY <2>1, <2>3, <3>1
    <3> QED
      BY <3>1, <3>2, FormatFacts
  <2>7. NextToken(in) = PlainToken(in)
    BY <2>6 DEF NextToken
  <2> DEFINE k == l + 1
  <2>8. k \in Nat /\ k > 0 /\ (k <= Len(in) => in[k] = Comma) /\ k + 1 = l + 2
    BY <1>1, <2>1, <2>4
  <2>9. NextToken(in) = Token(e, From(in, k))
    BY <2>1, <2>5, <2>7
  <2> HIDE DEF k
  <2>10. Token(e, From(in, k)).tok = e /\ Token(e, From(in, k)).rest = From(in, k + 1)
    BY <2>8, TokenFacts
  <2> QED
    BY <2>1, <2>8, <2>9, <2>10
<1>3. CASE f.t # "int"
  <2> DEFINE x == WriteScalar(f)
             e == TokenOf(f)
  <2>1. /\ l = Len(e) + 2 /\ e \in Seq(Char) /\ Len(e) \in Nat /\ QuotesProtected(e)
        /\ e # <<>> => e[Len(e)] # BackSlash
        /\ x[1] = Quote /\ x[Len(e) + 2] = Quote
        /\ \A j \in 1..Len(e) : x[j + 1] = e[j]
    BY <1>3, StringWritten
  <2>2. \A j \in 1..Len(in) : j <= l => in[j] = x[j]
    OBVIOUS
  <2> HIDE DEF x, e
  <2>3. Len(in) >= Len(e) + 1
    BY <1>1, <2>1
  <2>4. in[1] = Quote
    <3>1. 1 \in 1..Len(in) /\ 1 <= l
      BY <1>1, <2>1, <2>3
    <3> QED
      BY <2>1, <2>2, <3>1
  <2>5. \A j \in 1..Len(e) : in[j + 1] = e[j]
    <3>1. \A j \in 1..Len(e) : j + 1 \in 1..Len(in) /\ j + 1 <= l
      BY <1>1, <2>1, <2>3
    <3> QED
      BY <2>1, <2>2, <3>1
  <2>6. Len(in) > Len(e) + 1 => in[Len(e) + 2] = Quote
    <3>1. Len(in) > Len(e) + 1 => Len(e) + 2 \in 1..Len(in) /\ Len(e) + 2 <= l
      BY <1>1, <2>1
    <3> QED
      BY <2>1, <2>2, <3>1
  <2>7. StringToken(in) = Token(e, From(in, Len(e) + 3))
    BY <2>1, <2>3, <2>4, <2>5, <2>6, StringTokenFacts
  <2>8. NextToken(in) = StringToken(in)
    <3>1. in # <<>>
      BY <1>1, <2>1, <2>3
    <3> QED
      BY <2>4, <3>1, FormatFacts DEF NextToken
  <2> DEFINE k == l + 1
  <2>9. k \in Nat /\ k > 0 /\ (k <= Len(in) => in[k] = Comma)
        /\ k + 1 = l + 2 /\ k = Len(e) + 3
    BY <1>1, <2>1
  <2>10. NextToken(in) = Token(e, From(in, k))
    BY <2>7, <2>8, <2>9
  <2> HIDE DEF k
  <2>11. Token(e, From(in, k)).tok = e /\ Token(e, From(in, k)).rest = From(in, k + 1)
    BY <2>9, TokenFacts
  <2> QED
    BY <2>9, <2>10, <2>11 DEF e
<1> QED
  BY <1>2, <1>3

\* The token is read as the value that was written, with its quotes escaped.
LEMMA ScalarRead ==
    ASSUME NEW Char, Format \subseteq Char, NEW f, Scalar(f, Char)
    PROVE  ReadScalar(TokenOf(f), f.t) = [t |-> f.t, v |-> TokenOf(f)]
<1>1. CASE f.t = "int"
  <2> DEFINE v == f.v
             found == {i \in 1..Len(v) : v[i] \notin Digits}
             end == FirstIndex(v, found)
  <2>1. /\ v \in Seq(Digits) /\ TokenOf(f) = v /\ Len(v) \in Nat /\ Len(v) > 0
        /\ \A j \in 1..Len(v) : v[j] \in Digits
    BY <1>1, IntWritten
  <2> HIDE DEF v
  <2>2. found = {}
    BY <2>1
  <2>3. end = Len(v) + 1
    BY <2>2 DEF FirstIndex
  <2>4. end # 1 /\ end - 1 = Len(v)
    BY <2>1, <2>3
  <2>5. Stoi(v) = IF end = 1 THEN [t |-> "throw", v |-> <<>>]
                  ELSE [t |-> "int", v |-> SubSeq(v, 1, end - 1)]
    BY DEF Stoi
  <2> HIDE DEF end
  <2>6. SubSeq(v, 1, Len(v)) = v
    BY <2>1
  <2>7. Stoi(v) = [t |-> "int", v |-> v]
    BY <2>4, <2>5, <2>6
  <2> QED
    BY <1>1, <2>1, <2>7 DEF ReadScalar
<1>2. CASE f.t # "int"
  <2>1. f.t = "str"
    BY <1>2 DEF Scalar
  <2> QED
    BY <2>1 DEF ReadScalar
<1> QED
  BY <1>1, <1>2

\* The fields as they are written, one after the other.
FieldTexts(fields) == [i \in 1..Len(fields) |-> WriteScalar(fields[i])]
FieldsText(fields) == Separated(FieldTexts(fields))

\* Read one by one from a text, as from ObjectDeser, the fields are what was
\* written, with quotes escaped, and nothing is left.
FieldsRead(in, fields) ==
    \E r :
        /\ r[0] = in /\ r[Len(fields)] = <<>>
        /\ \A i \in 1..Len(fields) :
             LET next == NextToken(r[i - 1])
             IN  /\ ReadScalar(next.tok, fields[i].t) = [t |-> fields[i].t, v |-> TokenOf(fields[i])]
                 /\ next.rest = r[i]

\* Strings with closing braces are not told from the end of an object.
NoClosingBrace(f) == f.t = "str" => \A j \in 1..Len(f.v) : f.v[j] # CloseBrace

\* What is written of an int or a string.
LEMMA ScalarWritten ==
    ASSUME NEW Char, Format \subseteq Char, NEW f, Scalar(f, Char)
    PROVE  LET x == WriteScalar(f)
           IN  /\ x \in Seq(Char) /\ Len(x) \in Nat /\ Len(x) > 0
               /\ f.t = "str" => Len(x) > 1
               /\ NoClosingBrace(f) => \A j \in 1..Len(x) : x[j] # CloseBrace
<1> DEFINE x == WriteScalar(f)
<1>1. CASE f.t = "int"
  <2> DEFINE v == f.v
  <2>1. /\ x = v /\ v \in Seq(Char) /\ Len(v) \in Nat /\ Len(v) > 0
        /\ \A j \in 1..Len(v) : v[j] \in Digits
    BY <1>1, IntWritten
  <2> HIDE DEF v, x
  <2>2. f.t # "str"
    BY <1>1
  <2>3. \A j \in 1..Len(x) : x[j] # CloseBrace
    BY <2>1, FormatFacts
  <2> QED
    BY <2>1, <2>2, <2>3 DEF x
<1>2. CASE f.t # "int"
  <2> DEFINE e == TokenOf(f)
             v == f.v
  <2>1. /\ x \in Seq(Char) /\ Len(e) \in Nat /\ Len(x) = Len(e) + 2 /\ f.t = "str"
        /\ x[1] = Quote /\ x[Len(e) + 2] = Quote
        /\ \A j \in 1..Len(e) : x[j + 1] = e[j]
    BY <1>2, StringWritten
  <2>0. MadeOf(e, v)
    BY <1>2, StringWritten
  <2>2. NoClosingBrace(f) => \A k \in 1..Len(v) : v[k] # CloseBrace
    BY <2>1 DEF NoClosingBrace
  <2> HIDE DEF v, x, e
  <2>3. ASSUME NoClosingBrace(f), NEW j \in 1..Len(x)
        PROVE  x[j] # CloseBrace
    <3>1. CASE j = 1 \/ j = Len(e) + 2
      BY <2>1, <3>1, FormatFacts
    <3>2. CASE j \in 2..(Len(e) + 1)
      <4>1. j - 1 \in 1..Len(e) /\ (j - 1) + 1 = j
        BY <2>1, <3>2
      <4>2. x[j] = e[j - 1]
        BY <2>1, <4>1
      <4>3. e[j - 1] = BackSlash \/ \E k \in 1..Len(v) : e[j - 1] = v[k]
        BY <2>0, <4>1 DEF MadeOf
      <4> QED
        BY <2>2, <2>3, <4>2, <4>3, FormatFacts
    <3> QED
      BY <2>1, <3>1, <3>2
  <2>4. Len(x) \in Nat /\ Len(x) > 1 /\ Len(x) > 0
    BY <2>1
  <2> QED
    BY <2>1, <2>3, <2>4 DEF x
<1> QED
  BY <1>1, <1>2

\* Where the fields are in their text: the i-th starts behind b[i], and has a
\* comma behind it unless it is the last one.
LEMMA FieldsWritten ==
    ASSUME NEW Char, Format \subseteq Char, NEW V, NEW fields \in Seq(V), fields # <<>>,
           \A i \in 1..Len(fields) : Scalar(fields[i], Char)
    PROVE  LET n == Len(fields)
               sep == FieldsText(fields)
               x == [i \in 1..n |-> WriteScalar(fields[i])]
           IN  /\ sep \in Seq(Char)
               /\ \E b \in [1..n -> Nat] :
                    /\ b[1] = 0 /\ b[n] + Len(x[n]) = Len(sep)
                    /\ \A i \in 1..n : /\ b[i] + Len(x[i]) <= Len(sep)
                                       /\ \A j \in 1..Len(x[i]) : sep[b[i] + j] = x[i][j]
                    /\ \A i \in 1..(n - 1) : /\ b[i + 1] = b[i] + Len(x[i]) + 1
                                             /\ sep[b[i] + Len(x[i]) + 1] = Comma
               /\ (\A i \in 1..n : NoClosingBrace(fields[i])) =>
                    \A k \in 1..Len(sep) : sep[k] # CloseBrace
<1> DEFINE n == Len(fields)
           x == [i \in 1..n |-> WriteScalar(fields[i])]
           p == [i \in DOMAIN x |-> IF i = 1 THEN x[i] ELSE <<Comma>> \o x[i]]
           sep == FieldsText(fields)
<1>1. n \in Nat /\ n > 0
  BY EmptySeq
<1>2. ASSUME NEW i \in 1..n
      PROVE  /\ x[i] \in Seq(Char) /\ Len(x[i]) \in Nat /\ Len(x[i]) > 0
             /\ NoClosingBrace(fields[i]) => \A j \in 1..Len(x[i]) : x[i][j] # CloseBrace
  BY ScalarWritten
<1>3. sep = FlattenSeq(p)
  BY DEF FieldsText, FieldTexts, Separated
<1>4. DOMAIN x = 1..n
  OBVIOUS
<1>5. p = [i \in 1..n |-> p[i]] /\ p[1] = x[1] /\ \A i \in 2..n : p[i] = <<Comma>> \o x[i]
  <2> HIDE DEF x
  <2>1. 1 \in 1..n /\ \A i \in 2..n : i \in 1..n /\ i # 1
    BY <1>1
  <2> QED
    BY <1>4, <2>1
<1> HIDE DEF x, p, sep
<1>6. ASSUME NEW i \in 2..n
      PROVE  /\ i \in 1..n /\ p[i] \in Seq(Char) /\ Len(p[i]) = 1 + Len(x[i])
             /\ p[i][1] = Comma
             /\ \A j \in 1..Len(x[i]) : p[i][1 + j] = x[i][j]
  <2>1. i \in 1..n
    BY <1>1
  <2> DEFINE q == <<Comma>>
             y == x[i]
             z == q \o y
  <2>2. Comma \in Char
    BY DEF Format
  <2>3. q \in Seq(Char) /\ Len(q) = 1 /\ q[1] = Comma
    BY <2>2
  <2>4. y \in Seq(Char) /\ p[i] = z
    BY <1>2, <1>5, <2>1
  <2> HIDE DEF q, y
  <2>5. /\ z \in Seq(Char) /\ Len(z) = Len(q) + Len(y)
        /\ \A k \in 1..Len(q) : z[k] = q[k]
        /\ \A j \in 1..Len(y) : z[Len(q) + j] = y[j]
    <3>1. q \in Seq(Char) /\ y \in Seq(Char)
      BY <2>3, <2>4
    <3> QED
      BY <3>1, ConcatFacts
  <2> HIDE DEF z
  <2>6. 1 \in 1..Len(q)
    BY <2>3
  <2>7. /\ z \in Seq(Char) /\ Len(z) = 1 + Len(y) /\ z[1] = Comma
        /\ \A j \in 1..Len(y) : z[1 + j] = y[j]
    BY <2>3, <2>5, <2>6
  <2> QED
    BY <2>1, <2>4, <2>7 DEF y
<1>7. p \in Seq(Seq(Char)) /\ Len(p) = n /\ p # <<>>
  <2>1. \A i \in 1..n : p[i] \in Seq(Char)
    <3>1. \A i \in 1..n : i = 1 \/ i \in 2..n
      BY <1>1
    <3> QED
      BY <1>2, <1>5, <1>6, <3>1
  <2>2. p \in [1..n -> Seq(Char)]
    BY <1>5, <2>1
  <2>3. p \in Seq(Seq(Char)) /\ Len(p) = n
    BY <1>1, <2>2, FunctionIsSeq
  <2> QED
    BY <1>1, <2>3
<1>8. /\ sep \in Seq(Char)
      /\ \E c \in [0..n -> Nat] :
           /\ c[0] = 0 /\ c[n] = Len(sep)
           /\ \A i \in 1..n :
                /\ c[i] = c[i - 1] + Len(p[i]) /\ c[i] <= Len(sep)
                /\ \A j \in 1..Len(p[i]) : sep[c[i - 1] + j] = p[i][j]
      /\ \A k \in 1..Len(sep) : \E i \in 1..n : \E j \in 1..Len(p[i]) : sep[k] = p[i][j]
  <2>1. LET F == FlattenSeq(p)
        IN  /\ F \in Seq(Char)
            /\ \E c \in [0..Len(p) -> Nat] :
                 /\ c[0] = 0 /\ c[Len(p)] = Len(F)
                 /\ \A i \in 1..Len(p) :
                      /\ c[i] = c[i - 1] + Len(p[i]) /\ c[i] <= Len(F)
                      /\ \A j \in 1..Len(p[i]) : F[c[i - 1] + j] = p[i][j]
            /\ \A k \in 1..Len(F) :
                 \E i \in 1..Len(p) : \E j \in 1..Len(p[i]) : F[k] = p[i][j]
    BY <1>7, FlattenLayout
  <2>2. Len(p) = n /\ FlattenSeq(p) = sep
    BY <1>3, <1>7
  <2> HIDE DEF n
  <2> QED
    BY <2>1, <2>2, Zenon
<1>9. PICK c \in [0..n -> Nat] :
        /\ c[0] = 0 /\ c[n] = Len(sep)
        /\ \A i \in 1..n :
             /\ c[i] = c[i - 1] + Len(p[i]) /\ c[i] <= Len(sep)
             /\ \A j \in 1..Len(p[i]) : sep[c[i - 1] + j] = p[i][j]
  BY <1>8
<1>10. \E b \in [1..n -> Nat] : b[1] = 0 /\ \A i \in 2..n : b[i] = c[i - 1] + 1
  <2> DEFINE b == [i \in 1..n |-> IF i = 1 THEN 0 ELSE c[i - 1] + 1]
  <2>1. \A i \in 1..n : i # 1 => i - 1 \in 0..n
    BY <1>1
  <2>2. \A i \in 1..n : (IF i = 1 THEN 0 ELSE c[i - 1] + 1) \in Nat
    BY <1>9, <2>1
  <2>3. 1 \in 1..n /\ \A i \in 2..n : i \in 1..n /\ i # 1
    BY <1>1
  <2>4. b \in [1..n -> Nat] /\ b[1] = 0 /\ \A i \in 2..n : b[i] = c[i - 1] + 1
    BY <2>2, <2>3
  <2> HIDE DEF b
  <2> QED
    BY <2>4
<1>11. PICK b \in [1..n -> Nat] : b[1] = 0 /\ \A i \in 2..n : b[i] = c[i - 1] + 1
  BY <1>10
<1>12. ASSUME NEW i \in 1..n
       PROVE  /\ b[i] + Len(x[i]) = c[i]
              /\ \A j \in 1..Len(x[i]) : sep[b[i] + j] = x[i][j]
  <2>1. /\ c[i] = c[i - 1] + Len(p[i])
        /\ \A j \in 1..Len(p[i]) : sep[c[i - 1] + j] = p[i][j]
    BY <1>9
  <2>2. CASE i = 1
    <3>1. b[i] = 0 /\ c[i - 1] = 0 /\ p[i] = x[i]
      BY <1>5, <1>9, <1>11, <2>2
    <3> QED
      BY <2>1, <3>1
  <2>3. CASE i # 1
    <3>1. i \in 2..n /\ i - 1 \in 0..n
      BY <1>1, <2>3
    <3>2. /\ Len(p[i]) = 1 + Len(x[i]) /\ b[i] = c[i - 1] + 1
          /\ \A j \in 1..Len(x[i]) : p[i][1 + j] = x[i][j]
      BY <1>6, <1>11, <3>1
    <3> DEFINE a == c[i - 1]
               l == Len(x[i])
    <3>3. a \in Nat /\ l \in Nat /\ Len(p[i]) = 1 + l /\ b[i] = a + 1 /\ c[i] = a + Len(p[i])
      BY <1>2, <1>9, <2>1, <3>1, <3>2
    <3>4. \A j \in 1..Len(p[i]) : sep[a + j] = p[i][j]
      BY <2>1
    <3>5. \A j \in 1..l : p[i][1 + j] = x[i][j]
      BY <3>2
    <3> HIDE DEF a, l
    <3>6. \A j \in 1..l : 1 + j \in 1..Len(p[i]) /\ b[i] + j = a + (1 + j)
      BY <3>3
    <3>7. \A j \in 1..l : sep[b[i] + j] = x[i][j]
      BY <3>4, <3>5, <3>6
    <3>8. b[i] + l = c[i]
      BY <3>3
    <3> QED
      BY <3>7, <3>8 DEF l
  <2> QED
    BY <2>2, <2>3
<1>13. ASSUME NEW i \in 1..n
       PROVE  /\ b[i] + Len(x[i]) <= Len(sep)
              /\ \A j \in 1..Len(x[i]) : sep[b[i] + j] = x[i][j]
  BY <1>9, <1>12
<1>14. ASSUME NEW i \in 1..(n - 1)
       PROVE  /\ b[i + 1] = b[i] + Len(x[i]) + 1
              /\ sep[b[i] + Len(x[i]) + 1] = Comma
  <2>1. i \in 1..n /\ i + 1 \in 2..n /\ (i + 1) - 1 = i /\ i + 1 \in 1..n
    BY <1>1
  <2>2. b[i + 1] = c[i] + 1 /\ b[i] + Len(x[i]) = c[i]
    BY <1>11, <1>12, <2>1
  <2>3. Len(p[i + 1]) = 1 + Len(x[i + 1]) /\ p[i + 1][1] = Comma /\ Len(x[i + 1]) \in Nat
    BY <1>2, <1>6, <2>1
  <2>4. 1 \in 1..Len(p[i + 1])
    BY <2>3
  <2>5. sep[c[i] + 1] = p[i + 1][1]
    BY <1>9, <2>1, <2>4
  <2> QED
    BY <2>2, <2>3, <2>5
<1>15. b[n] + Len(x[n]) = Len(sep)
  <2>1. n \in 1..n
    BY <1>1
  <2> QED
    BY <1>9, <1>12, <2>1
<1>16. \E d \in [1..n -> Nat] :
         /\ d[1] = 0 /\ d[n] + Len(x[n]) = Len(sep)
         /\ \A i \in 1..n : /\ d[i] + Len(x[i]) <= Len(sep)
                            /\ \A j \in 1..Len(x[i]) : sep[d[i] + j] = x[i][j]
         /\ \A i \in 1..(n - 1) : /\ d[i + 1] = d[i] + Len(x[i]) + 1
                                  /\ sep[d[i] + Len(x[i]) + 1] = Comma
  BY <1>11, <1>13, <1>14, <1>15
<1>17. ASSUME \A i \in 1..n : NoClosingBrace(fields[i]), NEW k \in 1..Len(sep)
       PROVE  sep[k] # CloseBrace
  <2>1. PICK i \in 1..n : \E j \in 1..Len(p[i]) : sep[k] = p[i][j]
    BY <1>8
  <2>2. PICK j \in 1..Len(p[i]) : sep[k] = p[i][j]
    BY <2>1
  <2>3. \A m \in 1..Len(x[i]) : x[i][m] # CloseBrace
    BY <1>2, <1>17
  <2>4. CASE i = 1
    BY <1>5, <2>2, <2>3, <2>4
  <2>5. CASE i # 1
    <3>1. i \in 2..n
      BY <1>1, <2>5
    <3>2. /\ Len(p[i]) = 1 + Len(x[i]) /\ p[i][1] = Comma
          /\ \A m \in 1..Len(x[i]) : p[i][1 + m] = x[i][m]
      BY <1>6, <3>1
    <3>3. CASE j = 1
      BY <2>2, <3>2, <3>3, FormatFacts
    <3>4. CASE j # 1
      <4>1. Len(x[i]) \in Nat
        BY <1>2
      <4>2. j - 1 \in 1..Len(x[i]) /\ 1 + (j - 1) = j
        BY <3>2, <3>4, <4>1
      <4> QED
        BY <2>2, <2>3, <3>2, <4>2
    <3> QED
      BY <3>3, <3>4
  <2> QED
    BY <2>4, <2>5
<1> QED
  BY <1>8, <1>16, <1>17 DEF x, sep

\* The fields are read back from their text, also if the last character, the
\* quote at the end of a string, is missing.
LEMMA FieldsAreRead ==
    ASSUME NEW Char, Format \subseteq Char, NEW V, NEW fields \in Seq(V), fields # <<>>,
           \A i \in 1..Len(fields) : Scalar(fields[i], Char),
           NEW w \in Seq(Char),
           \A k \in 1..Len(w) : w[k] = FieldsText(fields)[k],
           \/ Len(w) = Len(FieldsText(fields))
           \/ /\ Len(w) = Len(FieldsText(fields)) - 1
              /\ fields[Len(fields)].t = "str"
    PROVE  FieldsRead(w, fields)
<1> DEFINE n == Len(fields)
           sep == FieldsText(fields)
           x == [i \in 1..n |-> WriteScalar(fields[i])]
<1>1. n \in Nat /\ n > 0
  BY EmptySeq
<1>2. \A i \in 1..n : /\ x[i] = WriteScalar(fields[i])
                      /\ Len(x[i]) \in Nat /\ Len(x[i]) > 0
  BY ScalarWritten
<1>3. sep \in Seq(Char)
  BY FieldsWritten
<1>4. PICK b \in [1..n -> Nat] :
        /\ b[1] = 0 /\ b[n] + Len(x[n]) = Len(sep)
        /\ \A i \in 1..n : /\ b[i] + Len(x[i]) <= Len(sep)
                           /\ \A j \in 1..Len(x[i]) : sep[b[i] + j] = x[i][j]
        /\ \A i \in 1..(n - 1) : /\ b[i + 1] = b[i] + Len(x[i]) + 1
                                 /\ sep[b[i] + Len(x[i]) + 1] = Comma
  BY FieldsWritten
<1>5. Len(w) \in Nat /\ Len(sep) \in Nat
  BY <1>3, LenProperties
<1>6. /\ \A k \in 1..Len(w) : w[k] = sep[k]
      /\ Len(w) = Len(sep) \/ (Len(w) = Len(sep) - 1 /\ fields[n].t = "str")
  OBVIOUS
<1> HIDE DEF x, sep
<1> DEFINE r == [i \in 0..n |-> IF i = 0 THEN w ELSE From(w, b[i] + Len(x[i]) + 2)]
<1>7. r[0] = w /\ \A i \in 1..n : r[i] = From(w, b[i] + Len(x[i]) + 2)
  <2>1. 0 \in 0..n /\ \A i \in 1..n : i \in 0..n /\ i # 0
    BY <1>1
  <2> QED
    BY <2>1
<1> HIDE DEF r
<1>8. r[n] = <<>>
  <2>1. n \in 1..n
    BY <1>1
  <2>2. r[n] = From(w, Len(sep) + 2)
    BY <1>4, <1>7, <2>1
  <2> DEFINE k == Len(sep) + 2
  <2>3. k \in Nat /\ k > 0 /\ k > Len(w)
    BY <1>5, <1>6
  <2> HIDE DEF k
  <2>4. From(w, k) = <<>>
    BY <2>3, FromFacts
  <2> QED
    BY <2>2, <2>4 DEF k
<1>9. ASSUME NEW i \in 1..n
      PROVE  r[i - 1] = From(w, b[i] + 1)
  <2>1. CASE i = 1
    <3>1. r[i - 1] = w /\ b[i] + 1 = 1
      BY <1>4, <1>7, <2>1
    <3>2. From(w, 1) = w
      BY DEF From
    <3> QED
      BY <3>1, <3>2
  <2>2. CASE i # 1
    <3>1. i - 1 \in 1..n /\ i - 1 \in 1..(n - 1) /\ (i - 1) + 1 = i
      BY <1>1, <2>2
    <3>2. r[i - 1] = From(w, b[i - 1] + Len(x[i - 1]) + 2)
      BY <1>7, <3>1
    <3>3. b[i] = b[i - 1] + Len(x[i - 1]) + 1
      BY <1>4, <3>1
    <3>4. b[i - 1] \in Nat /\ Len(x[i - 1]) \in Nat
      BY <1>2, <1>4, <3>1
    <3>5. b[i] + 1 = b[i - 1] + Len(x[i - 1]) + 2
      BY <3>3, <3>4
    <3> QED
      BY <3>2, <3>5
  <2> QED
    BY <2>1, <2>2
<1>10. ASSUME NEW i \in 1..n
       PROVE  LET next == NextToken(r[i - 1])
              IN  /\ ReadScalar(next.tok, fields[i].t)
                       = [t |-> fields[i].t, v |-> TokenOf(fields[i])]
                  /\ next.rest = r[i]
  <2> DEFINE f == fields[i]
             a == b[i] + 1
             in == From(w, a)
             l == Len(x[i])
  <2>1. Scalar(f, Char) /\ l = Len(WriteScalar(f)) /\ l \in Nat /\ l > 0
    BY <1>2
  <2>2. b[i] \in Nat /\ b[i] + l <= Len(sep) /\ \A j \in 1..l : sep[b[i] + j] = x[i][j]
    BY <1>4
  <2>3. a \in Nat /\ a > 0 /\ a = b[i] + 1
    BY <2>2
  <2> HIDE DEF f, a, l
  <2>4. /\ in \in Seq(Char)
        /\ Len(in) = IF a <= Len(w) THEN Len(w) - a + 1 ELSE 0
        /\ \A j \in 1..Len(in) : in[j] = w[a + j - 1]
    BY <2>3, FromFacts
  <2> HIDE DEF in
  <2>5. i # n => /\ b[i] + l + 1 <= Len(sep)
                 /\ sep[b[i] + l + 1] = Comma
    <3> SUFFICES ASSUME i # n
                 PROVE  b[i] + l + 1 <= Len(sep) /\ sep[b[i] + l + 1] = Comma
      OBVIOUS
    <3>1. i \in 1..(n - 1) /\ i + 1 \in 1..n
      BY <1>1
    <3>2. b[i + 1] = b[i] + l + 1 /\ sep[b[i] + l + 1] = Comma
      BY <1>4, <3>1 DEF l
    <3>3. b[i + 1] + Len(x[i + 1]) <= Len(sep) /\ b[i + 1] \in Nat /\ Len(x[i + 1]) \in Nat
      BY <1>2, <1>4, <3>1
    <3>4. b[i + 1] <= Len(sep)
      BY <1>5, <3>3
    <3> QED
      BY <3>2, <3>4
  <2>6. i = n => b[i] + l = Len(sep)
    BY <1>4 DEF l
  <2>7. Len(in) \in Nat /\ Len(in) = Len(w) - b[i]
    <3>1. b[i] <= Len(w)
      BY <1>5, <1>6, <2>1, <2>2
    <3> QED
      BY <1>5, <2>2, <2>3, <2>4, <3>1
  <2>8. Len(in) >= l \/ (f.t = "str" /\ Len(in) = l - 1)
    <3>1. CASE i = n
      <4>1. f = fields[n]
        BY <3>1 DEF f
      <4> QED
        BY <1>5, <1>6, <2>1, <2>2, <2>6, <2>7, <3>1, <4>1
    <3>2. CASE i # n
      <4>1. Len(w) >= Len(sep) - 1
        BY <1>5, <1>6
      <4> QED
        BY <1>5, <2>1, <2>2, <2>5, <2>7, <3>2, <4>1
    <3> QED
      BY <3>1, <3>2
  <2>9. \A j \in 1..Len(in) : in[j] = sep[b[i] + j]
    <3>1. \A j \in 1..Len(in) : a + j - 1 = b[i] + j /\ b[i] + j \in 1..Len(w)
      <4> DEFINE u == b[i]
                 v == Len(in)
      <4>1. u \in Nat /\ v \in Nat /\ Len(w) \in Nat /\ a = u + 1 /\ v = Len(w) - u
        BY <1>5, <2>2, <2>3, <2>7
      <4> HIDE DEF u, v
      <4>2. \A j \in 1..v : a + j - 1 = u + j /\ u + j \in 1..Len(w)
        BY <4>1
      <4> QED
        BY <4>2 DEF u, v
    <3> QED
      BY <1>6, <2>4, <3>1
  <2>10. \A j \in 1..Len(in) : j <= l => in[j] = WriteScalar(f)[j]
    <3>1. \A j \in 1..Len(in) : j <= l => j \in 1..l
      BY <2>1, <2>7
    <3>2. x[i] = WriteScalar(f)
      BY <1>2 DEF f
    <3> QED
      BY <2>2, <2>9, <3>1, <3>2
  <2>11. Len(in) > l => in[l + 1] = Comma
    <3> SUFFICES ASSUME Len(in) > l PROVE in[l + 1] = Comma
      OBVIOUS
    <3>1. i # n
      BY <1>5, <1>6, <2>1, <2>2, <2>6, <2>7
    <3>2. l + 1 \in 1..Len(in)
      BY <2>1, <2>7
    <3>3. b[i] + (l + 1) = b[i] + l + 1
      <4> DEFINE u == b[i]
      <4>1. u \in Nat /\ l \in Nat
        BY <2>1, <2>2
      <4> HIDE DEF u
      <4>2. u + (l + 1) = u + l + 1
        BY <4>1
      <4> QED
        BY <4>2 DEF u
    <3> QED
      BY <2>5, <2>9, <3>1, <3>2, <3>3
  <2>12. NextToken(in).tok = TokenOf(f) /\ NextToken(in).rest = From(in, l + 2)
    <3>1. in \in Seq(Char)
      BY <2>4
    <3>2. Scalar(f, Char) /\ l = Len(WriteScalar(f)) /\ l \in Nat /\ Len(in) \in Nat
      BY <2>1, <2>7
    <3> QED
      BY <2>8, <2>10, <2>11, <3>1, <3>2, ScalarToken
  <2>13. From(in, l + 2) = r[i]
    <3> DEFINE d == l + 2
    <3>1. d \in Nat /\ d > 0 /\ a + d - 1 = b[i] + l + 2
      <4> DEFINE u == b[i]
      <4>1. u \in Nat /\ a = u + 1 /\ l \in Nat
        BY <2>1, <2>2, <2>3
      <4> HIDE DEF u
      <4>2. d \in Nat /\ d > 0 /\ a + d - 1 = u + l + 2
        BY <4>1
      <4> QED
        BY <4>2 DEF u
    <3> HIDE DEF d
    <3>2. From(in, d) = From(w, a + d - 1)
      BY <2>3, <3>1, FromFrom DEF in
    <3>3. r[i] = From(w, b[i] + l + 2)
      BY <1>7 DEF l
    <3> QED
      BY <3>1, <3>2, <3>3 DEF d
  <2>14. ReadScalar(TokenOf(f), f.t) = [t |-> f.t, v |-> TokenOf(f)]
    BY <2>1, ScalarRead
  <2>15. r[i - 1] = in
    BY <1>9 DEF in, a
  <2> QED
    BY <2>12, <2>13, <2>14, <2>15 DEF f
<1> QED
  BY <1>7, <1>8, <1>10 DEF FieldsRead

\* The token of a text that opens a brace, and closes it at its end or not at
\* all, is the text.
LEMMA OpenText ==
    ASSUME NEW Char, NEW in \in Seq(Char), Len(in) > 0, in[1] = OpenBrace,
           \A i \in 1..(Len(in) - 1) : in[i] # CloseBrace
    PROVE  NextToken(in).tok = in
<1> DEFINE n == Len(in)
           Count(c, i) == Cardinality({j \in 1..i : in[j] = c})
           found == {i \in 2..n : Count(in[1], i) = Count(CloseBrace, i)}
           end == FirstIndex(in, found)
           tok == IF end > n THEN in ELSE SubSeq(in, 1, end)
<1>1. n \in Nat /\ n > 0
  BY LenProperties
<1>2. ASSUME NEW i \in 2..(n - 1)
      PROVE  Count(in[1], i) # Count(CloseBrace, i)
  <2> DEFINE O == {j \in 1..i : in[j] = in[1]}
             C == {j \in 1..i : in[j] = CloseBrace}
  <2>1. i \in Nat /\ 1 \in 1..i /\ \A j \in 1..i : j \in 1..(n - 1)
    BY <1>1
  <2>2. C = {}
    BY <2>1
  <2>3. 1 \in O
    BY <2>1
  <2>4. IsFiniteSet(1..i)
    BY <2>1, FS_Interval
  <2>5. O \in SUBSET (1..i)
    OBVIOUS
  <2> HIDE DEF O
  <2>6. IsFiniteSet(O)
    BY <2>4, <2>5, FS_Subset
  <2>7. Cardinality(O) # 0
    BY <2>3, <2>6, FS_EmptySet
  <2>8. Cardinality(C) = 0
    BY <2>2, FS_EmptySet
  <2> QED
    BY <2>7, <2>8 DEF O
<1>3. \A i \in found : i = n
  <2>1. \A i \in 2..n : i = n \/ i \in 2..(n - 1)
    BY <1>1
  <2> HIDE DEF Count
  <2> QED
    BY <1>2, <2>1
<1>4. tok = in
  <2> HIDE DEF Count
  <2>1. CASE found = {}
    <3>1. end = n + 1
      BY <2>1 DEF FirstIndex
    <3> HIDE DEF end
    <3> QED
      BY <1>1, <3>1
  <2>2. CASE found # {}
    <3>1. n \in found /\ found \in SUBSET Nat
      BY <1>1, <1>3, <2>2
    <3> HIDE DEF found
    <3>2. end = n
      BY <1>1, <1>3, <3>1, FirstIndexFacts
    <3> HIDE DEF end
    <3>3. SubSeq(in, 1, n) = in
      OBVIOUS
    <3> QED
      BY <1>1, <3>2, <3>3
  <2> QED
    BY <2>1, <2>2
<1>5. in # <<>>
  BY <1>1
<1>6. NextToken(in) = BracketToken(in, CloseBrace)
  BY <1>5, FormatFacts DEF NextToken
<1>7. BracketToken(in, CloseBrace) = Token(tok, From(in, end + 2))
  BY DEF BracketToken
<1> HIDE DEF tok, end
<1>8. Token(tok, From(in, end + 2)).tok = tok
  BY DEF Token
<1> QED
  BY <1>4, <1>6, <1>7, <1>8

\* ObjectDeser takes the first and the last character away from a text that is
\* one token.
LEMMA TextInside ==
    ASSUME NEW Char, NEW in \in Seq(Char), Len(in) > 2, in[1] = OpenBrace,
           \A i \in 1..(Len(in) - 1) : in[i] # CloseBrace
    PROVE  /\ ObjectDeser(in) \in Seq(Char)
           /\ Len(ObjectDeser(in)) = Len(in) - 2
           /\ \A k \in 1..(Len(in) - 2) : ObjectDeser(in)[k] = in[k + 1]
<1> DEFINE n == Len(in) - 1
           w == SubSeq(in, 2, n)
<1>1. Len(in) \in Nat /\ n \in Int /\ \A i \in 2..n : in[i] \in Char
  <2>1. Len(in) \in Nat
    BY LenProperties
  <2>2. \A i \in 2..n : i \in 1..Len(in)
    BY <2>1
  <2> QED
    BY <2>1, <2>2, ElementOfSeq
<1>2. NextToken(in).tok = in
  <2>1. Len(in) > 0
    BY <1>1
  <2> QED
    BY <2>1, OpenText
<1>3. ObjectDeser(in) = w
  BY <1>2 DEF ObjectDeser, Inside
<1>4. /\ w \in Seq(Char) /\ Len(w) = IF 2 <= n THEN n - 2 + 1 ELSE 0
      /\ \A i \in 1..(n - 2 + 1) : w[i] = in[2 + i - 1]
  <2> HIDE DEF n
  <2> QED
    BY <1>1, SubSeqProperties
<1> HIDE DEF w
<1>5. Len(w) = Len(in) - 2 /\ n - 2 + 1 = Len(in) - 2
  BY <1>1, <1>4
<1>6. \A k \in 1..(Len(in) - 2) : 2 + k - 1 = k + 1
  BY <1>1
<1> QED
  BY <1>3, <1>4, <1>5, <1>6

\* The text of an object before it is closed.
LEMMA OpenObjectFacts ==
    ASSUME NEW Char, Format \subseteq Char, NEW V, NEW fields \in Seq(V), fields # <<>>,
           \A i \in 1..Len(fields) : Scalar(fields[i], Char) /\ NoClosingBrace(fields[i])
    PROVE  LET sep == FieldsText(fields)
               in == OpenObject(FieldTexts(fields))
           IN  /\ in \in Seq(Char) /\ Len(in) = Len(sep) + 1 /\ Len(sep) \in Nat
               /\ Len(sep) > 0
               /\ fields[Len(fields)].t = "str" => Len(sep) > 1
               /\ in[1] = OpenBrace
               /\ \A k \in 1..Len(sep) : in[k + 1] = sep[k]
               /\ \A k \in 1..Len(in) : in[k] # CloseBrace
<1> DEFINE sep == FieldsText(fields)
           q == <<OpenBrace>>
           in == q \o sep
           n == Len(fields)
           x == [i \in 1..n |-> WriteScalar(fields[i])]
<1>1. OpenObject(FieldTexts(fields)) = in
  BY DEF OpenObject, FieldsText
<1>2. sep \in Seq(Char) /\ \A k \in 1..Len(sep) : sep[k] # CloseBrace
  BY FieldsWritten
<1>3. \E b \in [1..n -> Nat] : b[n] + Len(x[n]) = Len(sep)
  BY FieldsWritten
<1>4. n \in 1..n
  BY EmptySeq
<1>5. x[n] = WriteScalar(fields[n])
  BY <1>4
<1>6. Len(x[n]) \in Nat /\ Len(x[n]) > 0 /\ (fields[n].t = "str" => Len(x[n]) > 1)
  BY <1>4, <1>5, ScalarWritten
<1> HIDE DEF sep, x
<1>7. Len(sep) \in Nat /\ Len(sep) > 0 /\ (fields[n].t = "str" => Len(sep) > 1)
  <2>1. PICK b \in [1..n -> Nat] : b[n] + Len(x[n]) = Len(sep)
    BY <1>3
  <2> DEFINE u == b[n]
             l == Len(x[n])
  <2>2. u \in Nat /\ l \in Nat /\ Len(sep) = u + l
    BY <1>4, <1>6, <2>1
  <2>3. l > 0 /\ (fields[n].t = "str" => l > 1)
    BY <1>6
  <2> HIDE DEF u, l
  <2> QED
    BY <2>2, <2>3
<1>8. q \in Seq(Char) /\ Len(q) = 1 /\ q[1] = OpenBrace
  <2>1. OpenBrace \in Char
    BY DEF Format
  <2> QED
    BY <2>1
<1> HIDE DEF q
<1>9. /\ in \in Seq(Char) /\ Len(in) = Len(q) + Len(sep)
      /\ \A k \in 1..Len(q) : in[k] = q[k]
      /\ \A k \in 1..Len(sep) : in[Len(q) + k] = sep[k]
  <2>1. q \in Seq(Char) /\ sep \in Seq(Char)
    BY <1>2, <1>8
  <2> QED
    BY <2>1, ConcatFacts
<1> HIDE DEF in
<1>10. Len(in) = Len(sep) + 1 /\ in[1] = OpenBrace
  <2>1. 1 \in 1..Len(q)
    BY <1>8
  <2> QED
    BY <1>7, <1>8, <1>9, <2>1
<1>11. \A k \in 1..Len(sep) : in[k + 1] = sep[k]
  <2>1. \A k \in 1..Len(sep) : Len(q) + k = k + 1
    BY <1>7, <1>8
  <2> QED
    BY <1>9, <2>1
<1>12. ASSUME NEW k \in 1..Len(in)
       PROVE  in[k] # CloseBrace
  <2>1. CASE k = 1
    BY <1>10, <2>1, FormatFacts
  <2>2. CASE k # 1
    <3>1. k - 1 \in 1..Len(sep) /\ (k - 1) + 1 = k
      BY <1>7, <1>10, <2>2
    <3> QED
      BY <1>2, <1>11, <3>1
  <2> QED
    BY <2>1, <2>2
<1> QED
  BY <1>1, <1>7, <1>9, <1>10, <1>11, <1>12 DEF sep

\* An object with any number of fields, each of them a number or a string of
\* any length, is read back field by field: numbers as they were, strings with
\* their quotes escaped, and nothing is left.  This is how handlePacket reads an
\* RMIPacket.  No string may end in a backslash or contain a closing brace;
\* commas, brackets, quotes and opening braces do no harm, so the data of a
\* call, which opens a brace that nothing closes, is read as well
\* (serialisation.cpp:13-97, rmipacket.h:11-21).
THEOREM ObjectIsRead ==
    ASSUME NEW Char, Format \subseteq Char, NEW V, NEW fields \in Seq(V), fields # <<>>,
           \A i \in 1..Len(fields) : Scalar(fields[i], Char) /\ NoClosingBrace(fields[i])
    PROVE  FieldsRead(ObjectDeser(ClosedObject(FieldTexts(fields))), fields)
<1> DEFINE sep == FieldsText(fields)
           a == OpenObject(FieldTexts(fields))
           q == <<CloseBrace>>
           in == a \o q
           w == ObjectDeser(in)
<1>1. /\ a \in Seq(Char) /\ Len(a) = Len(sep) + 1 /\ Len(sep) \in Nat /\ Len(sep) > 0
      /\ a[1] = OpenBrace
      /\ \A k \in 1..Len(sep) : a[k + 1] = sep[k]
      /\ \A k \in 1..Len(a) : a[k] # CloseBrace
  BY OpenObjectFacts
<1>2. ClosedObject(FieldTexts(fields)) = in
  BY DEF ClosedObject
<1>3. q \in Seq(Char) /\ Len(q) = 1
  <2>1. CloseBrace \in Char
    BY DEF Format
  <2> QED
    BY <2>1
<1> HIDE DEF sep, a, q
<1>4. /\ in \in Seq(Char) /\ Len(in) = Len(a) + Len(q)
      /\ \A k \in 1..Len(a) : in[k] = a[k]
  <2>1. a \in Seq(Char) /\ q \in Seq(Char)
    BY <1>1, <1>3
  <2> QED
    BY <2>1, ConcatFacts
<1> HIDE DEF in
<1>5. Len(in) = Len(sep) + 2 /\ Len(in) > 2 /\ Len(in) - 2 = Len(sep) /\ Len(in) - 1 = Len(a)
  BY <1>1, <1>3, <1>4
<1>6. in[1] = OpenBrace /\ \A k \in 1..(Len(in) - 1) : in[k] # CloseBrace
  <2>1. 1 \in 1..Len(a)
    BY <1>1
  <2> QED
    BY <1>1, <1>4, <1>5, <2>1
<1>7. /\ w \in Seq(Char) /\ Len(w) = Len(in) - 2
      /\ \A k \in 1..(Len(in) - 2) : w[k] = in[k + 1]
  <2>1. in \in Seq(Char) /\ Len(in) > 2
    BY <1>4, <1>5
  <2> QED
    BY <1>6, <2>1, TextInside
<1> HIDE DEF w
<1>8. Len(w) = Len(sep) /\ \A k \in 1..Len(w) : w[k] = sep[k]
  <2>1. \A k \in 1..Len(sep) : k + 1 \in 1..Len(a)
    BY <1>1
  <2> QED
    BY <1>1, <1>4, <1>5, <1>7, <2>1
<1>9. FieldsRead(w, fields)
  BY <1>7, <1>8, FieldsAreRead DEF sep
<1> QED
  BY <1>2, <1>9 DEF w

\* What make_call writes, without a closing brace, is read back by readData
\* argument by argument when the last one is a string, for any number of
\* numbers and strings: the character that ObjectDeser cuts off is the quote at
\* the end of that string, and a string may end with the text
\* (remotecall.h:19-53, handlerbase.h:23-45, serialisation.cpp:55-65, 89-97).
THEOREM CallIsRead ==
    ASSUME NEW Char, Format \subseteq Char, NEW V, NEW args \in Seq(V), args # <<>>,
           \A i \in 1..Len(args) : Scalar(args[i], Char) /\ NoClosingBrace(args[i]),
           args[Len(args)].t = "str"
    PROVE  FieldsRead(ObjectDeser(OpenObject(FieldTexts(args))), args)
<1> DEFINE sep == FieldsText(args)
           in == OpenObject(FieldTexts(args))
           w == ObjectDeser(in)
<1>1. /\ in \in Seq(Char) /\ Len(in) = Len(sep) + 1 /\ Len(sep) \in Nat /\ Len(sep) > 1
      /\ in[1] = OpenBrace
      /\ \A k \in 1..Len(sep) : in[k + 1] = sep[k]
      /\ \A k \in 1..Len(in) : in[k] # CloseBrace
  BY OpenObjectFacts
<1> HIDE DEF sep, in
<1>2. Len(in) > 2 /\ Len(in) - 2 = Len(sep) - 1
  BY <1>1
<1>3. \A k \in 1..(Len(in) - 1) : in[k] # CloseBrace
  <2>1. \A k \in 1..(Len(in) - 1) : k \in 1..Len(in)
    BY <1>1
  <2> QED
    BY <1>1, <2>1
<1>4. /\ w \in Seq(Char) /\ Len(w) = Len(in) - 2
      /\ \A k \in 1..(Len(in) - 2) : w[k] = in[k + 1]
  <2>1. in \in Seq(Char) /\ in[1] = OpenBrace
    BY <1>1
  <2> QED
    BY <1>2, <1>3, <2>1, TextInside
<1> HIDE DEF w
<1>5. Len(w) = Len(sep) - 1 /\ \A k \in 1..Len(w) : w[k] = sep[k]
  <2>1. \A k \in 1..(Len(sep) - 1) : k \in 1..Len(sep)
    BY <1>1
  <2> QED
    BY <1>1, <1>2, <1>4, <2>1
<1>6. FieldsRead(w, args)
  BY <1>4, <1>5, FieldsAreRead DEF sep
<1> QED
  BY <1>6 DEF w, in
=============================================================================
