---------------------------- MODULE NetBaseProofs ----------------------------
(***************************************************************************)
(* Proofs about NetBase, for any number of sessions and messages.          *)
(***************************************************************************)
EXTENDS NetBase, FiniteSetTheorems, SequenceLemmas

-----------------------------------------------------------------------------
(* The inductive invariant.                                                *)

\* Which operations a session has started, by where it is in its life.
OpsFitState ==
    \A s \in Session :
        /\ "accept" \in ops[s] => state[s] = "accepting"
        /\ "handshake" \in ops[s] => state[s] \in {"handshake", "deleted"}
        /\ "read" \in ops[s] => state[s] \in {"open", "deleted"}

IdleUnused == io = "idle" => \A s \in Session : state[s] = "unused"

OneAccepts ==
    io = "running" => \E s \in Session : \A t \in Session : "accept" \in ops[t] <=> t = s

\* The counter is ahead of every client id.
IdsBelowCounter == \A s \in Session : clientId_[s] < clientId

LifeInv ==
    /\ OpsFitState
    /\ IdleUnused
    /\ OneAccepts
    /\ IdsBelowCounter
    /\ SessionsTracked

\* The buffers of a session: what is being written (P) comes in turn after
\* what was written (done), what waits (Q) comes in turn after both, and
\* together they have the n messages that were sent.
BuffersAgree(writing, gone, P, Q, done, n) ==
    /\ writing \in {<<>>, <<P>>}
    /\ ~gone => writing = IF P = <<>> THEN <<>> ELSE <<P>>
    /\ InTurn(P, done)
    /\ InTurn(Q, done \cup ToSet(P))
    /\ 1..n = done \cup ToSet(P) \cup ToSet(Q)

BuffersInTurn ==
    \A s \in Session :
        BuffersAgree(inFlight[s], state[s] = "deleted" \/ io = "destroyed",
                     outBufferProcessing_[s], outBuffer_[s], written[s], sends[s])

\* A session to which nothing was sent has no write outstanding.
QuietSessions ==
    \A s \in Session :
        /\ sends[s] = 0 => inFlight[s] = <<>>
        /\ state[s] \in {"unused", "accepting"} => sends[s] = 0
        /\ state[s] = "deleted" /\ sends[s] = 0 => ops[s] = {}

IInv == TypeOK /\ LifeInv /\ BuffersInTurn /\ QuietSessions

-----------------------------------------------------------------------------
(* What the helpers do.                                                    *)

\* start_accept makes a session of an unused object.
LEMMA NewSession ==
    ASSUME TypeOK, NEW states, NEW pending, StartAccept(states, pending)
    PROVE  \E new \in Session : /\ state[new] = "unused"
                                /\ state' = [states EXCEPT ![new] = "accepting"]
                                /\ ops' = [pending EXCEPT ![new] = {"accept"}]
<1> DEFINE new == CHOOSE s \in Unused : \A t \in Unused : s <= t
<1>1. Unused \in SUBSET Nat /\ Unused # {}
  BY NetBaseAssumption DEF StartAccept, Unused, Session
<1>2. \E s \in Unused : \A t \in Unused : s <= t
  BY <1>1, LeastNatural
<1>3. new \in Unused
  BY <1>2
<1> QED
  BY <1>3 DEF StartAccept, Unused

\* "delete this" takes the session out of sessions_, and no other one.
LEMMA DeleteFacts ==
    ASSUME TypeOK, NEW s \in Session, Delete(s), IsInjective(sessions_)
    PROVE  /\ state' = [state EXCEPT ![s] = "deleted"]
           /\ sessions_' \in Seq(Session)
           /\ IsInjective(sessions_')
           /\ ToSet(sessions_') = ToSet(sessions_) \ {s}
<1> DEFINE v == sessions_
           n == Len(sessions_)
<1>1. v \in Seq(Session) /\ n \in Nat /\ DOMAIN v = 1..n
  BY LenProperties DEF TypeOK
<1>2. v' = RemoveFirst(v, s) /\ state' = [state EXCEPT ![s] = "deleted"]
  BY DEF Delete
<1>3. CASE \E k \in 1..n : v[k] = s
  <2>1. PICK i \in 1..n : /\ v[i] = s /\ v' \in Seq(Session) /\ Len(v') = n - 1
                          /\ \A j \in 1..(n - 1) : v'[j] = IF j < i THEN v[j] ELSE v[j + 1]
    <3>1. PICK k \in 1..n : v[k] = s
      BY <1>3
    <3>2. /\ RemoveFirst(v, s) \in Seq(Session)
          /\ \E i \in 1..n : v[i] = s /\ OneLess(v, i, RemoveFirst(v, s))
      BY <1>1, <3>1, RemoveFirstFacts
    <3> QED
      BY <1>2, <3>2 DEF OneLess
  <2>2. DOMAIN v' = 1..(n - 1)
    BY <2>1, LenProperties
  <2>3. \A a, b \in 1..n : v[a] = v[b] => a = b
    BY <1>1 DEF IsInjective
  <2>4. IsInjective(v')
    <3> SUFFICES ASSUME NEW a \in 1..(n - 1), NEW b \in 1..(n - 1), v'[a] = v'[b]
                 PROVE  a = b
      BY <2>2 DEF IsInjective
    <3>1. \A j \in 1..(n - 1) : j \in 1..n /\ j + 1 \in 1..n
      BY <1>1
    <3> QED
      BY <1>1, <2>1, <2>3, <3>1
  <2>5. ToSet(v') \subseteq ToSet(v) \ {s}
    <3> SUFFICES ASSUME NEW j \in 1..(n - 1)
                 PROVE  v'[j] \in ToSet(v) /\ v'[j] # s
      BY <2>2 DEF ToSet
    <3>1. j \in 1..n /\ j + 1 \in 1..n
      BY <1>1
    <3>2. CASE j < i
      <4>1. v'[j] = v[j] /\ j # i
        BY <2>1, <3>2
      <4> QED
        BY <1>1, <2>1, <2>3, <3>1, <4>1 DEF ToSet
    <3>3. CASE ~(j < i)
      <4>1. v'[j] = v[j + 1] /\ j + 1 # i
        BY <2>1, <3>3
      <4> QED
        BY <1>1, <2>1, <2>3, <3>1, <4>1 DEF ToSet
    <3> QED
      BY <3>2, <3>3
  <2>6. ToSet(v) \ {s} \subseteq ToSet(v')
    <3> SUFFICES ASSUME NEW k \in 1..n, v[k] # s
                 PROVE  \E j \in 1..(n - 1) : v'[j] = v[k]
      BY <1>1, <2>2 DEF ToSet
    <3>1. CASE k < i
      <4>1. k \in 1..(n - 1)
        BY <1>1, <3>1
      <4> QED
        BY <2>1, <3>1, <4>1
    <3>2. CASE k > i
      <4>1. k - 1 \in 1..(n - 1) /\ ~(k - 1 < i) /\ (k - 1) + 1 = k
        BY <1>1, <2>1, <3>2
      <4> QED
        BY <2>1, <4>1
    <3>3. k # i
      BY <2>1
    <3> QED
      BY <3>1, <3>2, <3>3
  <2> QED
    BY <1>2, <2>1, <2>4, <2>5, <2>6
<1>4. CASE ~\E k \in 1..n : v[k] = s
  <2>1. v' = v
    BY <1>2, <1>4 DEF RemoveFirst
  <2>2. s \notin ToSet(v)
    BY <1>1, <1>4 DEF ToSet
  <2> QED
    BY <1>1, <1>2, <2>1, <2>2
<1> QED
  BY <1>3, <1>4

\* What comes in turn after some messages does so after more.
LEMMA InTurnMonotonic ==
    ASSUME NEW buf, NEW done, NEW more, done \subseteq more, InTurn(buf, done)
    PROVE  InTurn(buf, more)
  BY DEF InTurn

\* The next message is in turn when the ones before it are.
LEMMA InTurnAppend ==
    ASSUME NEW S, NEW buf \in Seq(S), NEW done, NEW n \in Nat,
           InTurn(buf, done), 1..n \subseteq done \cup ToSet(buf)
    PROVE  InTurn(Append(buf, n + 1), done)
<1> DEFINE b == Append(buf, n + 1)
<1>1. /\ Len(buf) \in Nat /\ Len(b) = Len(buf) + 1
      /\ \A i \in 1..Len(buf) : b[i] = buf[i]
      /\ b[Len(buf) + 1] = n + 1
  BY AppendFacts
<1>2. DOMAIN buf = 1..Len(buf) /\ DOMAIN b = 1..(Len(buf) + 1)
  <2>1. buf \in Seq(S \cup {n + 1})
    BY SeqMonotonic
  <2>2. b \in Seq(S \cup {n + 1})
    BY <2>1, AppendProperties
  <2> QED
    BY <1>1, <2>2, LenProperties
<1> HIDE DEF b
<1>3. SUFFICES ASSUME NEW i \in DOMAIN b, NEW m \in 1..(b[i] - 1), m \notin done
               PROVE  \E j \in 1..(i - 1) : b[j] = m
  BY DEF InTurn, b
<1>4. CASE i \in 1..Len(buf)
  <2>1. PICK j \in 1..(i - 1) : buf[j] = m
    BY <1>1, <1>2, <1>3, <1>4 DEF InTurn
  <2>2. j \in 1..Len(buf)
    BY <1>1, <1>4
  <2> QED
    BY <1>1, <2>1, <2>2
<1>5. CASE i = Len(buf) + 1
  <2>1. m \in 1..n
    BY <1>1, <1>5
  <2>2. PICK j \in 1..Len(buf) : buf[j] = m
    BY <1>2, <1>3, <2>1 DEF ToSet
  <2>3. j \in 1..(i - 1)
    BY <1>1, <1>5
  <2> QED
    BY <1>1, <2>2, <2>3
<1> QED
  BY <1>1, <1>2, <1>4, <1>5

-----------------------------------------------------------------------------
(* The invariant holds initially and every action preserves it.            *)

\* There are no sessions.
LEMMA InitIInv == Init => IInv
<1> SUFFICES ASSUME Init PROVE IInv
  OBVIOUS
<1>1. TypeOK
  <2>1. sessions_ \in Seq(Session) /\ inFlight \in [Session -> Seq(Seq(Msgs))]
    BY EmptySeq DEF Init
  <2>2. outBuffer_ \in [Session -> Seq(Msgs)] /\ outBufferProcessing_ \in [Session -> Seq(Msgs)]
    BY EmptySeq DEF Init
  <2>3. sends \in [Session -> 0..MaxSends]
    BY NetBaseAssumption DEF Init
  <2>4. written \in [Session -> SUBSET Msgs] /\ ops \in [Session -> SUBSET {"accept", "handshake", "read"}]
    BY DEF Init
  <2>5. clientId_ \in [Session -> Int] /\ clientId \in Nat
    BY DEF Init
  <2> QED
    BY <2>1, <2>2, <2>3, <2>4, <2>5 DEF Init, TypeOK
<1>2. LifeInv
  <2>1. ToSet(sessions_) = {} /\ IsInjective(sessions_)
    BY DEF Init, ToSet, IsInjective
  <2>2. SessionsTracked
    BY <2>1 DEF Init, SessionsTracked
  <2>3. OpsFitState /\ IdleUnused /\ OneAccepts /\ IdsBelowCounter
    BY DEF Init, OpsFitState, IdleUnused, OneAccepts, IdsBelowCounter
  <2> QED
    BY <2>2, <2>3 DEF LifeInv
<1>3. BuffersInTurn
  <2> SUFFICES ASSUME NEW s \in Session
               PROVE  /\ inFlight[s] = <<>> /\ outBufferProcessing_[s] = <<>>
                      /\ outBuffer_[s] = <<>> /\ written[s] = {} /\ sends[s] = 0
    BY DEF BuffersInTurn, BuffersAgree, InTurn, ToSet
  <2> QED
    BY DEF Init
<1>4. QuietSessions
  BY DEF Init, QuietSessions
<1> QED
  BY <1>1, <1>2, <1>3, <1>4 DEF IInv

\* A step that is neither a send nor the end of a write leaves the buffers.
LEMMA BuffersKept ==
    ASSUME BuffersInTurn, UNCHANGED writeVars,
           \A s \in Session : state[s] = "deleted" => state'[s] = "deleted",
           io = "destroyed" => io' = "destroyed"
    PROVE  BuffersInTurn'
<1>1. UNCHANGED <<inFlight, outBuffer_, outBufferProcessing_, sends, written>>
  BY DEF writeVars
<1> QED
  BY <1>1 DEF BuffersInTurn, BuffersAgree

\* start(): the first session to accept, or one that nobody waits for.
LEMMA StartIInv ==
    ASSUME IInv, Start
    PROVE  IInv'
<1>1. PICK new \in Session : /\ state[new] = "unused"
                             /\ state' = [state EXCEPT ![new] = "accepting"]
                             /\ ops' = [ops EXCEPT ![new] = {"accept"}]
  BY NewSession DEF IInv, Start
<1>2. /\ io \in {"idle", "stopped"}
      /\ io' = IF io = "idle" THEN "running" ELSE "stopped"
      /\ UNCHANGED <<inFlight, outBuffer_, outBufferProcessing_, sends, written,
                     sessions_, clientId_, clientId, fault>>
  BY DEF Start, writeVars
<1>3. TypeOK'
  BY <1>1, <1>2 DEF IInv, TypeOK
<1>4. /\ state \in [Session -> {"unused", "accepting", "handshake", "open", "deleted"}]
      /\ ops \in [Session -> SUBSET {"accept", "handshake", "read"}]
      /\ OpsFitState /\ IdleUnused /\ IdsBelowCounter /\ SessionsTracked
  BY DEF IInv, LifeInv, TypeOK
<1>5. OpsFitState' /\ IdleUnused' /\ IdsBelowCounter'
  BY <1>1, <1>2, <1>4 DEF OpsFitState, IdleUnused, IdsBelowCounter
<1>6. OneAccepts'
  <2>1. io = "idle" => \A t \in Session : "accept" \notin ops[t]
    BY <1>4 DEF OpsFitState, IdleUnused
  <2> QED
    BY <1>1, <1>2, <1>4, <2>1 DEF OneAccepts
<1>7. SessionsTracked'
  <2>1. {s \in Session : state'[s] \in {"handshake", "open"}}
          = {s \in Session : state[s] \in {"handshake", "open"}}
    BY <1>1, <1>4
  <2> QED
    BY <1>2, <1>4, <2>1 DEF SessionsTracked
<1>8. BuffersInTurn'
  BY <1>1, <1>2, <1>4, BuffersKept DEF IInv, writeVars
<1>9. QuietSessions'
  BY <1>1, <1>2, <1>4 DEF IInv, QuietSessions
<1> QED
  BY <1>3, <1>5, <1>6, <1>7, <1>8, <1>9 DEF IInv, LifeInv

\* A new client gets an id of its own and a place in sessions_, and the next
\* session waits.
LEMMA AcceptIInv ==
    ASSUME IInv, NEW s \in Session, HandleAccept(s)
    PROVE  IInv'
<1>1. PICK new \in Session :
        /\ state[new] = "unused"
        /\ state' = [[state EXCEPT ![s] = "handshake"] EXCEPT ![new] = "accepting"]
        /\ ops' = [[ops EXCEPT ![s] = {"handshake"}] EXCEPT ![new] = {"accept"}]
  BY NewSession DEF IInv, HandleAccept
<1>2. /\ io = "running" /\ "accept" \in ops[s]
      /\ clientId_' = [clientId_ EXCEPT ![s] = clientId]
      /\ clientId' = clientId + 1
      /\ sessions_' = Append(sessions_, s)
      /\ UNCHANGED <<inFlight, outBuffer_, outBufferProcessing_, sends, written, io, fault>>
  BY DEF HandleAccept, Completes, writeVars
<1>3. /\ state \in [Session -> {"unused", "accepting", "handshake", "open", "deleted"}]
      /\ ops \in [Session -> SUBSET {"accept", "handshake", "read"}]
      /\ clientId_ \in [Session -> Int] /\ clientId \in Nat
      /\ sessions_ \in Seq(Session)
      /\ OpsFitState /\ IdleUnused /\ OneAccepts /\ IdsBelowCounter /\ SessionsTracked
  BY DEF IInv, LifeInv, TypeOK
<1>4. state[s] = "accepting" /\ s # new
  BY <1>1, <1>2, <1>3 DEF OpsFitState
<1>5. /\ sessions_' \in Seq(Session)
      /\ Len(sessions_) \in Nat /\ DOMAIN sessions_ = 1..Len(sessions_)
      /\ DOMAIN sessions_' = 1..(Len(sessions_) + 1)
      /\ \A i \in 1..Len(sessions_) : sessions_'[i] = sessions_[i]
      /\ sessions_'[Len(sessions_) + 1] = s
  <2>1. sessions_' \in Seq(Session) /\ Len(sessions_') = Len(sessions_) + 1
    BY <1>2, <1>3, AppendProperties
  <2> QED
    BY <1>2, <1>3, <2>1, AppendFacts, LenProperties
<1>6. TypeOK'
  <2>1. state' \in [Session -> {"unused", "accepting", "handshake", "open", "deleted"}]
    BY <1>1, <1>3
  <2>2. ops' \in [Session -> SUBSET {"accept", "handshake", "read"}]
    BY <1>1, <1>3
  <2>3. clientId_' \in [Session -> Int] /\ clientId' \in Nat
    BY <1>2, <1>3
  <2> QED
    BY <1>2, <1>5, <2>1, <2>2, <2>3 DEF IInv, TypeOK
<1>7. /\ \A t \in Session : state'[t] = IF t = new THEN "accepting"
                                       ELSE IF t = s THEN "handshake" ELSE state[t]
      /\ \A t \in Session : ops'[t] = IF t = new THEN {"accept"}
                                     ELSE IF t = s THEN {"handshake"} ELSE ops[t]
  BY <1>1, <1>3, <1>4
<1>8. OpsFitState' /\ IdleUnused'
  BY <1>2, <1>3, <1>7 DEF OpsFitState, IdleUnused
<1>9. OneAccepts'
  <2>1. \A t \in Session : "accept" \in ops[t] => t = s
    BY <1>2, <1>3 DEF OneAccepts
  <2>2. \A t \in Session : "accept" \in ops'[t] <=> t = new
    BY <1>7, <2>1
  <2> QED
    BY <2>2 DEF OneAccepts
<1>10. IdsBelowCounter'
  BY <1>2, <1>3 DEF IdsBelowCounter
<1>11. SessionsTracked'
  <2>1. /\ IsInjective(sessions_)
        /\ ToSet(sessions_) = {t \in Session : state[t] \in {"handshake", "open"}}
        /\ \A t, u \in ToSet(sessions_) : t # u => clientId_[t] # clientId_[u]
    BY <1>2, <1>3 DEF SessionsTracked
  <2>2. s \notin ToSet(sessions_)
    BY <1>4, <2>1
  <2>3. ToSet(sessions_') = ToSet(sessions_) \cup {s}
    BY <1>5 DEF ToSet
  <2>4. IsInjective(sessions_')
    <3>1. \A i \in 1..Len(sessions_) : sessions_[i] # s
      BY <1>5, <2>2 DEF ToSet
    <3> QED
      BY <1>5, <2>1, <3>1 DEF IsInjective
  <2>5. ToSet(sessions_') = {t \in Session : state'[t] \in {"handshake", "open"}}
    <3>1. \A t \in Session : state'[t] \in {"handshake", "open"}
                               <=> t = s \/ state[t] \in {"handshake", "open"}
      BY <1>1, <1>4, <1>7
    <3> QED
      BY <2>1, <2>3, <3>1
  <2>6. \A t, u \in ToSet(sessions_') : t # u => clientId_'[t] # clientId_'[u]
    <3>1. \A t \in ToSet(sessions_) : t \in Session /\ t # s
      BY <2>1, <2>2
    <3>2. \A t \in ToSet(sessions_) : clientId_'[t] = clientId_[t] /\ clientId_[t] # clientId
      BY <1>2, <1>3, <3>1 DEF IdsBelowCounter
    <3>3. clientId_'[s] = clientId
      BY <1>2, <1>3
    <3> QED
      BY <2>1, <2>3, <3>1, <3>2, <3>3
  <2> QED
    BY <2>4, <2>5, <2>6 DEF SessionsTracked
<1>12. BuffersInTurn'
  <2>1. \A t \in Session : state[t] = "deleted" => state'[t] = "deleted"
    BY <1>1, <1>4, <1>7
  <2> QED
    BY <1>2, <2>1, BuffersKept DEF IInv, writeVars
<1>13. QuietSessions'
  <2> SUFFICES ASSUME NEW t \in Session
               PROVE  /\ sends[t] = 0 => inFlight[t] = <<>>
                      /\ state'[t] \in {"unused", "accepting"} => sends[t] = 0
                      /\ state'[t] = "deleted" /\ sends[t] = 0 => ops'[t] = {}
    BY <1>2 DEF QuietSessions
  <2>1. CASE t = new
    <3>1. state'[t] = "accepting" /\ state[t] = "unused"
      BY <1>1, <1>7, <2>1
    <3> QED
      BY <3>1 DEF IInv, QuietSessions
  <2>2. CASE t = s
    BY <1>4, <1>7, <2>2 DEF IInv, QuietSessions
  <2>3. CASE t # new /\ t # s
    <3>1. state'[t] = state[t] /\ ops'[t] = ops[t]
      BY <1>7, <2>3
    <3> QED
      BY <3>1 DEF IInv, QuietSessions
  <2> QED
    BY <2>1, <2>2, <2>3
<1> QED
  BY <1>6, <1>8, <1>9, <1>10, <1>11, <1>12, <1>13 DEF IInv, LifeInv

\* A failed accept is replaced by another one.
LEMMA AcceptErrorIInv ==
    ASSUME IInv, NEW s \in Session, HandleAcceptError(s)
    PROVE  IInv'
<1>1. PICK new \in Session :
        /\ state[new] = "unused"
        /\ state' = [[state EXCEPT ![s] = "deleted"] EXCEPT ![new] = "accepting"]
        /\ ops' = [[ops EXCEPT ![s] = {}] EXCEPT ![new] = {"accept"}]
  BY NewSession DEF IInv, HandleAcceptError
<1>2. /\ io = "running" /\ "accept" \in ops[s]
      /\ UNCHANGED <<inFlight, outBuffer_, outBufferProcessing_, sends, written, io, fault,
                     sessions_, clientId_, clientId>>
  BY DEF HandleAcceptError, Completes, writeVars
<1>3. /\ state \in [Session -> {"unused", "accepting", "handshake", "open", "deleted"}]
      /\ ops \in [Session -> SUBSET {"accept", "handshake", "read"}]
      /\ OpsFitState /\ IdleUnused /\ OneAccepts /\ IdsBelowCounter /\ SessionsTracked
  BY DEF IInv, LifeInv, TypeOK
<1>4. state[s] = "accepting" /\ s # new
  BY <1>1, <1>2, <1>3 DEF OpsFitState
<1>5. TypeOK'
  <2>1. /\ state' \in [Session -> {"unused", "accepting", "handshake", "open", "deleted"}]
        /\ ops' \in [Session -> SUBSET {"accept", "handshake", "read"}]
    BY <1>1, <1>3
  <2> QED
    BY <1>2, <2>1 DEF IInv, TypeOK
<1>6. /\ \A t \in Session : state'[t] = IF t = new THEN "accepting"
                                       ELSE IF t = s THEN "deleted" ELSE state[t]
      /\ \A t \in Session : ops'[t] = IF t = new THEN {"accept"}
                                     ELSE IF t = s THEN {} ELSE ops[t]
  BY <1>1, <1>3, <1>4
<1>7. OpsFitState' /\ IdleUnused' /\ IdsBelowCounter'
  BY <1>2, <1>3, <1>6 DEF OpsFitState, IdleUnused, IdsBelowCounter
<1>8. OneAccepts'
  <2>1. \A t \in Session : "accept" \in ops[t] => t = s
    BY <1>2, <1>3 DEF OneAccepts
  <2>2. \A t \in Session : "accept" \in ops'[t] <=> t = new
    BY <1>6, <2>1
  <2> QED
    BY <2>2 DEF OneAccepts
<1>9. SessionsTracked'
  <2>1. ASSUME NEW t \in Session
        PROVE  state'[t] \in {"handshake", "open"} <=> state[t] \in {"handshake", "open"}
    <3>1. CASE t = new
      <4>1. state'[t] = "accepting" /\ state[t] = "unused"
        BY <1>1, <1>6, <3>1
      <4> QED
        BY <4>1
    <3>2. CASE t = s
      <4>1. state'[t] = "deleted" /\ state[t] = "accepting"
        BY <1>4, <1>6, <3>2
      <4> QED
        BY <4>1
    <3>3. CASE t # new /\ t # s
      BY <1>6, <3>3
    <3> QED
      BY <3>1, <3>2, <3>3
  <2> QED
    BY <1>2, <1>3, <2>1 DEF SessionsTracked
<1>10. BuffersInTurn'
  <2>1. \A t \in Session : state[t] = "deleted" => state'[t] = "deleted"
    BY <1>1, <1>6
  <2> QED
    BY <1>2, <2>1, BuffersKept DEF IInv, writeVars
<1>11. QuietSessions'
  <2> SUFFICES ASSUME NEW t \in Session
               PROVE  /\ sends[t] = 0 => inFlight[t] = <<>>
                      /\ state'[t] \in {"unused", "accepting"} => sends[t] = 0
                      /\ state'[t] = "deleted" /\ sends[t] = 0 => ops'[t] = {}
    BY <1>2 DEF QuietSessions
  <2>1. CASE t = new
    <3>1. state'[t] = "accepting" /\ state[t] = "unused"
      BY <1>1, <1>6, <2>1
    <3> QED
      BY <3>1 DEF IInv, QuietSessions
  <2>2. CASE t = s
    BY <1>4, <1>6, <2>2 DEF IInv, QuietSessions
  <2>3. CASE t # new /\ t # s
    <3>1. state'[t] = state[t] /\ ops'[t] = ops[t]
      BY <1>6, <2>3
    <3> QED
      BY <3>1 DEF IInv, QuietSessions
  <2> QED
    BY <2>1, <2>2, <2>3
<1> QED
  BY <1>5, <1>7, <1>8, <1>9, <1>10, <1>11 DEF IInv, LifeInv

\* An open or opening session starts its next operation.
LEMMA OpenIInv ==
    ASSUME IInv, NEW s \in Session, io = "running",
           state[s] \in {"handshake", "open"},
           state' = [state EXCEPT ![s] = "open"],
           ops' = [ops EXCEPT ![s] = {"read"}],
           UNCHANGED <<writeVars, io, sessions_, clientId_, clientId, fault>>
    PROVE  IInv'
<1>1. UNCHANGED <<inFlight, outBuffer_, outBufferProcessing_, sends, written, io, fault,
                  sessions_, clientId_, clientId>>
  BY DEF writeVars
<1>2. /\ state \in [Session -> {"unused", "accepting", "handshake", "open", "deleted"}]
      /\ ops \in [Session -> SUBSET {"accept", "handshake", "read"}]
      /\ OpsFitState /\ IdleUnused /\ OneAccepts /\ IdsBelowCounter /\ SessionsTracked
  BY DEF IInv, LifeInv, TypeOK
<1>3. TypeOK'
  BY <1>1 DEF IInv, TypeOK
<1>4. /\ \A t \in Session : state'[t] = IF t = s THEN "open" ELSE state[t]
      /\ \A t \in Session : ops'[t] = IF t = s THEN {"read"} ELSE ops[t]
  BY <1>2
<1>5. OpsFitState' /\ IdleUnused' /\ IdsBelowCounter'
  BY <1>1, <1>2, <1>4 DEF OpsFitState, IdleUnused, IdsBelowCounter
<1>6. OneAccepts'
  <2>1. \A t \in Session : "accept" \in ops'[t] <=> "accept" \in ops[t]
    BY <1>2, <1>4 DEF OpsFitState
  <2> QED
    BY <1>1, <1>2, <2>1 DEF OneAccepts
<1>7. SessionsTracked'
  <2>1. \A t \in Session : state'[t] \in {"handshake", "open"} <=> state[t] \in {"handshake", "open"}
    BY <1>4
  <2> QED
    BY <1>1, <1>2, <2>1 DEF SessionsTracked
<1>8. BuffersInTurn'
  <2>1. \A t \in Session : state[t] = "deleted" => state'[t] = "deleted"
    BY <1>4
  <2> QED
    BY <1>1, <2>1, BuffersKept DEF IInv, writeVars
<1>9. QuietSessions'
  BY <1>1, <1>4 DEF IInv, QuietSessions
<1> QED
  BY <1>3, <1>5, <1>6, <1>7, <1>8, <1>9 DEF IInv, LifeInv

\* A session deletes itself: without an operation outstanding, or after a
\* failed write.
LEMMA DeletedLife ==
    ASSUME IInv, NEW s \in Session, io = "running", Delete(s),
           state[s] \in {"handshake", "open"},
           ops' = [ops EXCEPT ![s] = {}] \/ ops' = ops,
           UNCHANGED <<io, clientId_, clientId>>
    PROVE  /\ LifeInv' /\ sessions_' \in Seq(Session)
           /\ state' \in [Session -> {"unused", "accepting", "handshake", "open", "deleted"}]
           /\ ops' \in [Session -> SUBSET {"accept", "handshake", "read"}]
           /\ \A t \in Session : state'[t] = IF t = s THEN "deleted" ELSE state[t]
<1>1. /\ state \in [Session -> {"unused", "accepting", "handshake", "open", "deleted"}]
      /\ ops \in [Session -> SUBSET {"accept", "handshake", "read"}]
      /\ OpsFitState /\ IdleUnused /\ OneAccepts /\ IdsBelowCounter /\ SessionsTracked
      /\ TypeOK
  BY DEF IInv, LifeInv, TypeOK
<1>2. /\ IsInjective(sessions_)
      /\ ToSet(sessions_) = {t \in Session : state[t] \in {"handshake", "open"}}
      /\ \A t, u \in ToSet(sessions_) : t # u => clientId_[t] # clientId_[u]
  BY <1>1 DEF SessionsTracked
<1>3. /\ state' = [state EXCEPT ![s] = "deleted"]
      /\ sessions_' \in Seq(Session) /\ IsInjective(sessions_')
      /\ ToSet(sessions_') = ToSet(sessions_) \ {s}
  BY <1>1, <1>2, DeleteFacts
<1>4. /\ \A t \in Session : state'[t] = IF t = s THEN "deleted" ELSE state[t]
      /\ state' \in [Session -> {"unused", "accepting", "handshake", "open", "deleted"}]
  BY <1>1, <1>3
<1>5. /\ ops' \in [Session -> SUBSET {"accept", "handshake", "read"}]
      /\ \A t \in Session : t # s => ops'[t] = ops[t]
      /\ ops'[s] \subseteq ops[s]
  BY <1>1
<1>6. OpsFitState' /\ IdleUnused' /\ IdsBelowCounter'
  <2>1. OpsFitState'
    BY <1>1, <1>4, <1>5 DEF OpsFitState
  <2> QED
    BY <1>1, <2>1 DEF IdleUnused, IdsBelowCounter
<1>7. OneAccepts'
  <2>1. \A t \in Session : "accept" \in ops'[t] <=> "accept" \in ops[t]
    BY <1>1, <1>5 DEF OpsFitState
  <2> QED
    BY <1>1, <2>1 DEF OneAccepts
<1>8. SessionsTracked'
  <2>1. ToSet(sessions_') = {t \in Session : state'[t] \in {"handshake", "open"}}
    BY <1>2, <1>3, <1>4
  <2> QED
    BY <1>2, <1>3, <2>1 DEF SessionsTracked
<1> QED
  BY <1>3, <1>4, <1>5, <1>6, <1>7, <1>8 DEF LifeInv

\* The same with the buffers, when no operation is left.
LEMMA EndIInv ==
    ASSUME IInv, NEW s \in Session, io = "running", Delete(s),
           state[s] \in {"handshake", "open"},
           ops' = [ops EXCEPT ![s] = {}],
           UNCHANGED <<writeVars, io, clientId_, clientId, fault>>
    PROVE  IInv'
<1>1. UNCHANGED <<inFlight, outBuffer_, outBufferProcessing_, sends, written, io, fault,
                  clientId_, clientId>>
  BY DEF writeVars
<1>2. /\ LifeInv' /\ sessions_' \in Seq(Session)
      /\ state' \in [Session -> {"unused", "accepting", "handshake", "open", "deleted"}]
      /\ ops' \in [Session -> SUBSET {"accept", "handshake", "read"}]
      /\ \A t \in Session : state'[t] = IF t = s THEN "deleted" ELSE state[t]
  BY <1>1, DeletedLife
<1>3. TypeOK'
  BY <1>1, <1>2 DEF IInv, TypeOK
<1>4. BuffersInTurn'
  BY <1>1, <1>2, BuffersKept DEF IInv, writeVars
<1>5. QuietSessions'
  <2>1. \A t \in Session : ops'[t] = IF t = s THEN {} ELSE ops[t]
    BY DEF IInv, TypeOK
  <2> QED
    BY <1>1, <1>2, <2>1 DEF IInv, QuietSessions
<1> QED
  BY <1>2, <1>3, <1>4, <1>5 DEF IInv

\* One more message is sent.
LEMMA SendIInv ==
    ASSUME IInv, NEW s \in Session, SendData(s)
    PROVE  IInv'
<1> DEFINE n == sends[s]
           out == Append(outBuffer_[s], n + 1)
           P == outBufferProcessing_[s]
           Q == outBuffer_[s]
<1>1. /\ io = "running" /\ Contains(sessions_, s)
      /\ n < MaxSends
      /\ sends' = [sends EXCEPT ![s] = @ + 1]
      /\ UNCHANGED <<io, state, ops, sessions_, clientId_, clientId, written, fault>>
      /\ \/ /\ P = <<>>
            /\ SwapAndWrite(s, out, inFlight[s])
         \/ /\ P # <<>>
            /\ outBuffer_' = [outBuffer_ EXCEPT ![s] = out]
            /\ UNCHANGED <<outBufferProcessing_, inFlight>>
  BY DEF SendData
<1>2. /\ TypeOK /\ LifeInv /\ BuffersInTurn /\ QuietSessions
      /\ sends \in [Session -> 0..MaxSends] /\ MaxSends \in Nat
      /\ outBuffer_ \in [Session -> Seq(Msgs)]
      /\ outBufferProcessing_ \in [Session -> Seq(Msgs)]
      /\ inFlight \in [Session -> Seq(Seq(Msgs))]
      /\ written \in [Session -> SUBSET Msgs]
      /\ state \in [Session -> {"unused", "accepting", "handshake", "open", "deleted"}]
  BY NetBaseAssumption DEF IInv, TypeOK
<1>3. LifeInv'
  BY <1>1, <1>2 DEF LifeInv, OpsFitState, IdleUnused, OneAccepts, IdsBelowCounter, SessionsTracked
<1>4. state[s] \in {"handshake", "open"}
  <2>1. s \in ToSet(sessions_)
    BY <1>1 DEF Contains, ToSet
  <2> QED
    BY <1>1, <1>2, <2>1 DEF LifeInv, SessionsTracked
<1>5. n \in 0..MaxSends /\ n \in Nat /\ n + 1 \in Msgs /\ n + 1 \in 0..MaxSends
  BY <1>1, <1>2 DEF Msgs
<1>6. P \in Seq(Msgs) /\ Q \in Seq(Msgs) /\ out \in Seq(Msgs)
  <2>1. P \in Seq(Msgs) /\ Q \in Seq(Msgs)
    BY <1>2
  <2> QED
    BY <1>5, <2>1, AppendProperties
<1>7. /\ Len(Q) \in Nat /\ DOMAIN Q = 1..Len(Q) /\ DOMAIN out = 1..(Len(Q) + 1)
      /\ \A i \in 1..Len(Q) : out[i] = Q[i]
      /\ out[Len(Q) + 1] = n + 1
  <2>1. Len(out) = Len(Q) + 1 /\ \A i \in 1..Len(Q) : out[i] = Q[i]
    BY <1>6, AppendFacts
  <2> QED
    BY <1>6, <2>1, AppendFacts, LenProperties
<1>8. out # <<>> /\ ToSet(out) = ToSet(Q) \cup {n + 1}
  <2> HIDE DEF out, n, P, Q
  <2>1. out # <<>>
    <3>1. Len(Q) + 1 \in DOMAIN out
      BY <1>7
    <3> QED
      BY <3>1
  <2>2. 1..(Len(Q) + 1) = 1..Len(Q) \cup {Len(Q) + 1}
    BY <1>7
  <2> QED
    BY <1>7, <2>1, <2>2 DEF ToSet
<1>9. \A t \in Session : t # s => /\ sends'[t] = sends[t] /\ inFlight'[t] = inFlight[t]
                                 /\ outBuffer_'[t] = outBuffer_[t]
                                 /\ outBufferProcessing_'[t] = outBufferProcessing_[t]
  BY <1>1, <1>2 DEF SwapAndWrite
<1>10. sends'[s] = n + 1 /\ written' = written
  BY <1>1, <1>2
<1>11. /\ InTurn(P, written[s])
       /\ InTurn(Q, written[s] \cup ToSet(P))
       /\ 1..n = written[s] \cup ToSet(P) \cup ToSet(Q)
       /\ inFlight[s] = IF P = <<>> THEN <<>> ELSE <<P>>
  BY <1>1, <1>2, <1>4 DEF BuffersInTurn, BuffersAgree
<1>12. InTurn(out, written[s] \cup ToSet(P))
  <2> HIDE DEF out, n, P, Q
  <2>1. 1..n \subseteq (written[s] \cup ToSet(P)) \cup ToSet(Q)
    BY <1>11
  <2> QED
    BY <1>5, <1>6, <1>11, <2>1, InTurnAppend DEF out, n, Q
<1>13. 1..(n + 1) = 1..n \cup {n + 1}
  BY <1>5
<1>14. CASE P = <<>>
  <2>1. /\ outBufferProcessing_' = [outBufferProcessing_ EXCEPT ![s] = out]
        /\ outBuffer_' = [outBuffer_ EXCEPT ![s] = P]
        /\ inFlight' = [inFlight EXCEPT ![s] = Append(inFlight[s], out)]
    BY <1>1, <1>8, <1>14 DEF SwapAndWrite
  <2>2. inFlight[s] = <<>> /\ ToSet(P) = {} /\ Append(inFlight[s], out) = <<out>>
    BY <1>11, <1>14 DEF ToSet
  <2>3. outBufferProcessing_'[s] = out /\ outBuffer_'[s] = <<>> /\ inFlight'[s] = <<out>>
    BY <1>2, <1>14, <2>1, <2>2
  <2>4. TypeOK'
    <3>1. sends' \in [Session -> 0..MaxSends]
      BY <1>1, <1>2, <1>5
    <3>2. <<out>> \in Seq(Seq(Msgs))
      BY <1>6
    <3>3. inFlight' \in [Session -> Seq(Seq(Msgs))]
      BY <1>2, <2>1, <2>2, <3>2
    <3>4. outBuffer_' \in [Session -> Seq(Msgs)] /\ outBufferProcessing_' \in [Session -> Seq(Msgs)]
      BY <1>2, <1>6, <2>1
    <3> QED
      BY <1>1, <1>2, <3>1, <3>3, <3>4 DEF TypeOK
  <2>5. BuffersInTurn'
    <3>1. /\ InTurn(out, written[s])
          /\ InTurn(<<>>, written[s] \cup ToSet(out))
          /\ 1..(n + 1) = written[s] \cup ToSet(out) \cup ToSet(<<>>)
      <4>1. InTurn(out, written[s])
        BY <1>12, <2>2
      <4>2. InTurn(<<>>, written[s] \cup ToSet(out))
        BY DEF InTurn
      <4>3. ToSet(<<>>) = {}
        BY DEF ToSet
      <4> QED
        BY <1>8, <1>11, <1>13, <2>2, <4>1, <4>2, <4>3
    <3> HIDE DEF out, n, P, Q
    <3>2. ASSUME NEW t \in Session, t # s
          PROVE  BuffersAgree(inFlight'[t], state'[t] = "deleted" \/ io' = "destroyed",
                              outBufferProcessing_'[t], outBuffer_'[t], written'[t], sends'[t])
      BY <1>1, <1>2, <1>9, <1>10, <3>2 DEF BuffersInTurn
    <3>3. BuffersAgree(inFlight'[s], state'[s] = "deleted" \/ io' = "destroyed",
                       outBufferProcessing_'[s], outBuffer_'[s], written'[s], sends'[s])
      BY <1>8, <1>10, <2>3, <3>1 DEF BuffersAgree
    <3> QED
      BY <3>2, <3>3 DEF BuffersInTurn
  <2>6. QuietSessions'
    BY <1>1, <1>2, <1>4, <1>5, <1>9, <1>10 DEF QuietSessions
  <2> QED
    BY <1>3, <2>4, <2>5, <2>6 DEF IInv
<1>15. CASE P # <<>>
  <2>1. outBuffer_' = [outBuffer_ EXCEPT ![s] = out] /\ UNCHANGED <<outBufferProcessing_, inFlight>>
    BY <1>1, <1>15
  <2>2. outBufferProcessing_'[s] = P /\ outBuffer_'[s] = out /\ inFlight'[s] = <<P>>
    BY <1>2, <1>11, <1>15, <2>1
  <2>3. TypeOK'
    <3>1. sends' \in [Session -> 0..MaxSends]
      BY <1>1, <1>2, <1>5
    <3>2. outBuffer_' \in [Session -> Seq(Msgs)]
      BY <1>2, <1>6, <2>1
    <3> QED
      BY <1>1, <1>2, <2>1, <3>1, <3>2 DEF TypeOK
  <2>4. BuffersInTurn'
    <3>1. 1..(n + 1) = written[s] \cup ToSet(P) \cup ToSet(out)
      BY <1>8, <1>11, <1>13
    <3> HIDE DEF out, n, P, Q
    <3>2. ASSUME NEW t \in Session, t # s
          PROVE  BuffersAgree(inFlight'[t], state'[t] = "deleted" \/ io' = "destroyed",
                              outBufferProcessing_'[t], outBuffer_'[t], written'[t], sends'[t])
      BY <1>1, <1>2, <1>9, <1>10, <3>2 DEF BuffersInTurn
    <3>3. BuffersAgree(inFlight'[s], state'[s] = "deleted" \/ io' = "destroyed",
                       outBufferProcessing_'[s], outBuffer_'[s], written'[s], sends'[s])
      BY <1>10, <1>11, <1>12, <1>15, <2>2, <3>1 DEF BuffersAgree
    <3> QED
      BY <3>2, <3>3 DEF BuffersInTurn
  <2>5. QuietSessions'
    BY <1>1, <1>2, <1>4, <1>5, <1>9, <1>10 DEF QuietSessions
  <2> QED
    BY <1>3, <2>3, <2>4, <2>5 DEF IInv
<1> QED
  BY <1>14, <1>15

\* A write has completed: what waited is written next.
LEMMA WriteIInv ==
    ASSUME IInv, NEW s \in Session, HandleWrite(s)
    PROVE  IInv'
<1> DEFINE P == outBufferProcessing_[s]
           Q == outBuffer_[s]
<1>1. /\ io = "running" /\ Live(s) /\ inFlight[s] # <<>>
      /\ written' = [written EXCEPT ![s] = @ \cup ToSet(Head(inFlight[s]))]
      /\ outBufferProcessing_' = [outBufferProcessing_ EXCEPT ![s] = Q]
      /\ outBuffer_' = [outBuffer_ EXCEPT ![s] = P]
      /\ inFlight' = [inFlight EXCEPT ![s] =
                        IF Q = <<>> THEN Tail(inFlight[s]) ELSE Append(Tail(inFlight[s]), Q)]
      /\ UNCHANGED <<io, state, ops, sessions_, clientId_, clientId, sends, fault>>
  BY DEF HandleWrite, SwapAndWrite
<1>2. /\ TypeOK /\ LifeInv /\ BuffersInTurn /\ QuietSessions
      /\ sends \in [Session -> 0..MaxSends]
      /\ outBuffer_ \in [Session -> Seq(Msgs)]
      /\ outBufferProcessing_ \in [Session -> Seq(Msgs)]
      /\ inFlight \in [Session -> Seq(Seq(Msgs))]
      /\ written \in [Session -> SUBSET Msgs]
  BY DEF IInv, TypeOK
<1>3. LifeInv'
  BY <1>1, <1>2 DEF LifeInv, OpsFitState, IdleUnused, OneAccepts, IdsBelowCounter, SessionsTracked
<1>4. /\ inFlight[s] = <<P>> /\ InTurn(Q, written[s] \cup ToSet(P))
      /\ 1..sends[s] = written[s] \cup ToSet(P) \cup ToSet(Q)
      /\ InTurn(P, written[s])
  BY <1>1, <1>2 DEF BuffersInTurn, BuffersAgree
<1>5. P \in Seq(Msgs) /\ Q \in Seq(Msgs)
  BY <1>2
<1> HIDE DEF P, Q
<1>6. Head(inFlight[s]) = P /\ Tail(inFlight[s]) = <<>> /\ Append(<<>>, Q) = <<Q>>
  BY <1>4, <1>5
<1>7. /\ written'[s] = written[s] \cup ToSet(P)
      /\ outBufferProcessing_'[s] = Q /\ outBuffer_'[s] = P
      /\ inFlight'[s] = IF Q = <<>> THEN <<>> ELSE <<Q>>
  BY <1>1, <1>2, <1>6
<1>8. \A t \in Session : t # s => /\ written'[t] = written[t] /\ inFlight'[t] = inFlight[t]
                                 /\ outBuffer_'[t] = outBuffer_[t]
                                 /\ outBufferProcessing_'[t] = outBufferProcessing_[t]
  BY <1>1, <1>2
<1>9. TypeOK'
  <2>1. ToSet(P) \subseteq Msgs
    <3>1. \A i \in DOMAIN P : P[i] \in Msgs
      BY <1>5, ElementOfSeq, LenProperties
    <3> QED
      BY <3>1 DEF ToSet
  <2>2. written' \in [Session -> SUBSET Msgs]
    BY <1>1, <1>2, <1>6, <2>1
  <2>3. outBuffer_' \in [Session -> Seq(Msgs)] /\ outBufferProcessing_' \in [Session -> Seq(Msgs)]
    BY <1>1, <1>2, <1>5
  <2>4. <<>> \in Seq(Seq(Msgs)) /\ <<Q>> \in Seq(Seq(Msgs))
    BY <1>5
  <2>5. inFlight' \in [Session -> Seq(Seq(Msgs))]
    BY <1>1, <1>2, <1>6, <2>4
  <2> QED
    BY <1>1, <1>2, <2>2, <2>3, <2>5 DEF TypeOK
<1>10. BuffersInTurn'
  <2>1. InTurn(P, (written[s] \cup ToSet(P)) \cup ToSet(Q))
    BY <1>4, InTurnMonotonic
  <2>2. BuffersAgree(inFlight'[s], state'[s] = "deleted" \/ io' = "destroyed",
                     outBufferProcessing_'[s], outBuffer_'[s], written'[s], sends'[s])
    BY <1>1, <1>4, <1>7, <2>1 DEF BuffersAgree
  <2>3. ASSUME NEW t \in Session, t # s
        PROVE  BuffersAgree(inFlight'[t], state'[t] = "deleted" \/ io' = "destroyed",
                            outBufferProcessing_'[t], outBuffer_'[t], written'[t], sends'[t])
    BY <1>1, <1>2, <1>8, <2>3 DEF BuffersInTurn
  <2> QED
    BY <2>2, <2>3 DEF BuffersInTurn
<1>11. QuietSessions'
  <2>1. sends[s] # 0
    BY <1>1, <1>2 DEF QuietSessions
  <2> QED
    BY <1>1, <1>2, <1>8, <2>1 DEF QuietSessions
<1> QED
  BY <1>3, <1>9, <1>10, <1>11 DEF IInv

\* A write has failed, and the session deletes itself while its read is still
\* outstanding.
LEMMA WriteErrorIInv ==
    ASSUME IInv, NEW s \in Session, HandleWriteError(s)
    PROVE  IInv'
<1>1. /\ io = "running" /\ Live(s) /\ inFlight[s] # <<>> /\ Delete(s)
      /\ inFlight' = [inFlight EXCEPT ![s] = Tail(@)]
      /\ UNCHANGED <<io, ops, clientId_, clientId, outBuffer_, outBufferProcessing_,
                     sends, written, fault>>
  BY DEF HandleWriteError
<1>2. /\ TypeOK /\ LifeInv /\ BuffersInTurn /\ QuietSessions
      /\ inFlight \in [Session -> Seq(Seq(Msgs))]
      /\ sends \in [Session -> 0..MaxSends]
      /\ ops \in [Session -> SUBSET {"accept", "handshake", "read"}]
  BY DEF IInv, TypeOK
<1>3. sends[s] # 0 /\ state[s] \in {"handshake", "open"}
  BY <1>1, <1>2 DEF QuietSessions, Live
<1>4. /\ LifeInv' /\ sessions_' \in Seq(Session)
      /\ state' \in [Session -> {"unused", "accepting", "handshake", "open", "deleted"}]
      /\ \A t \in Session : state'[t] = IF t = s THEN "deleted" ELSE state[t]
  BY <1>1, <1>3, DeletedLife
<1>5. \A t \in Session : inFlight'[t] = IF t = s THEN <<>> ELSE inFlight[t]
  <2>1. inFlight[s] = <<outBufferProcessing_[s]>>
    BY <1>1, <1>2 DEF BuffersInTurn, BuffersAgree
  <2>2. Tail(inFlight[s]) = <<>>
    BY <2>1
  <2> QED
    BY <1>1, <1>2, <2>2
<1>6. TypeOK'
  <2>1. inFlight' \in [Session -> Seq(Seq(Msgs))]
    <3>1. <<>> \in Seq(Seq(Msgs))
      OBVIOUS
    <3> QED
      BY <1>1, <1>2, <1>5, <3>1
  <2> QED
    BY <1>1, <1>2, <1>4, <2>1 DEF TypeOK
<1>7. BuffersInTurn'
  <2>1. BuffersAgree(inFlight'[s], state'[s] = "deleted" \/ io' = "destroyed",
                     outBufferProcessing_'[s], outBuffer_'[s], written'[s], sends'[s])
    BY <1>1, <1>2, <1>4, <1>5 DEF BuffersInTurn, BuffersAgree
  <2>2. ASSUME NEW t \in Session, t # s
        PROVE  BuffersAgree(inFlight'[t], state'[t] = "deleted" \/ io' = "destroyed",
                            outBufferProcessing_'[t], outBuffer_'[t], written'[t], sends'[t])
    BY <1>1, <1>2, <1>4, <1>5, <2>2 DEF BuffersInTurn
  <2> QED
    BY <2>1, <2>2 DEF BuffersInTurn
<1>8. QuietSessions'
  BY <1>1, <1>2, <1>3, <1>4, <1>5 DEF QuietSessions
<1> QED
  BY <1>4, <1>6, <1>7, <1>8 DEF IInv

\* The io_context is gone, and with it what was outstanding.
LEMMA DestroyIInv ==
    ASSUME IInv, DestroyNetBase
    PROVE  IInv'
<1>1. /\ io' = "destroyed" /\ sessions_' = <<>>
      /\ ops' = [s \in Session |-> {}]
      /\ inFlight' = [s \in Session |-> <<>>]
      /\ UNCHANGED <<state, clientId_, clientId, outBuffer_, outBufferProcessing_,
                     sends, written, fault>>
  BY DEF DestroyNetBase
<1>2. /\ sessions_' \in Seq(Session) /\ inFlight' \in [Session -> Seq(Seq(Msgs))]
      /\ ops' \in [Session -> SUBSET {"accept", "handshake", "read"}]
  BY <1>1, EmptySeq
<1>3. TypeOK'
  BY <1>1, <1>2 DEF IInv, TypeOK
<1>4. LifeInv'
  BY <1>1 DEF IInv, LifeInv, OpsFitState, IdleUnused, OneAccepts, IdsBelowCounter, SessionsTracked
<1>5. BuffersInTurn'
  BY <1>1 DEF IInv, BuffersInTurn, BuffersAgree
<1>6. QuietSessions'
  BY <1>1 DEF IInv, QuietSessions
<1> QED
  BY <1>3, <1>4, <1>5, <1>6 DEF IInv

\* Steps that only stop the server or call a handler on a deleted session.
LEMMA KeptIInv ==
    ASSUME IInv, io' = io \/ (io' = "stopped" /\ io \in {"idle", "running"}), fault' \in BOOLEAN,
           UNCHANGED <<writeVars, state, ops, sessions_, clientId_, clientId>>
    PROVE  IInv'
<1>1. UNCHANGED <<inFlight, outBuffer_, outBufferProcessing_, sends, written,
                  state, ops, sessions_, clientId_, clientId>>
  BY DEF writeVars
<1>2. TypeOK'
  BY <1>1 DEF IInv, TypeOK
<1>3. LifeInv'
  BY <1>1 DEF IInv, LifeInv, OpsFitState, IdleUnused, OneAccepts, IdsBelowCounter, SessionsTracked
<1>4. BuffersInTurn'
  BY <1>1, BuffersKept DEF IInv, TypeOK, writeVars
<1>5. QuietSessions'
  BY <1>1 DEF IInv, QuietSessions
<1> QED
  BY <1>2, <1>3, <1>4, <1>5 DEF IInv

\* Every step of the specification preserves the invariant.
LEMMA NextIInv == IInv /\ [Next]_vars => IInv'
<1> SUFFICES ASSUME IInv, [Next]_vars PROVE IInv'
  OBVIOUS
<1>0. /\ OpsFitState
      /\ state \in [Session -> {"unused", "accepting", "handshake", "open", "deleted"}]
      /\ fault \in BOOLEAN
  BY DEF IInv, LifeInv, TypeOK
<1>1. CASE Start
  BY <1>1, StartIInv
<1>2. CASE Stop
  BY <1>0, <1>2, KeptIInv DEF Stop
<1>3. CASE DestroyNetBase
  BY <1>3, DestroyIInv
<1>4. ASSUME NEW s \in Session, HandleAccept(s) PROVE IInv'
  BY <1>4, AcceptIInv
<1>5. ASSUME NEW s \in Session, HandleAcceptError(s) PROVE IInv'
  BY <1>5, AcceptErrorIInv
<1>6. ASSUME NEW s \in Session, HandleHandshake(s) PROVE IInv'
  <2>1. io = "running" /\ state[s] \in {"handshake", "open"}
    BY <1>0, <1>6 DEF HandleHandshake, Completes, Live, OpsFitState
  <2> QED
    BY <1>6, <2>1, OpenIInv DEF HandleHandshake
<1>7. ASSUME NEW s \in Session, HandleHandshakeError(s) PROVE IInv'
  <2>1. io = "running" /\ state[s] \in {"handshake", "open"}
    BY <1>0, <1>7 DEF HandleHandshakeError, Completes, Live, OpsFitState
  <2> QED
    BY <1>7, <2>1, EndIInv DEF HandleHandshakeError
<1>8. ASSUME NEW s \in Session, ProcessRead(s) PROVE IInv'
  <2>1. io = "running" /\ state[s] = "open"
    BY <1>0, <1>8 DEF ProcessRead, Completes, Live, OpsFitState
  <2>2. state' = [state EXCEPT ![s] = "open"]
    BY <1>0, <1>8, <2>1 DEF ProcessRead
  <2> QED
    BY <1>8, <2>1, <2>2, OpenIInv DEF ProcessRead
<1>9. ASSUME NEW s \in Session, ProcessReadError(s) PROVE IInv'
  <2>1. io = "running" /\ state[s] \in {"handshake", "open"}
    BY <1>0, <1>9 DEF ProcessReadError, Completes, Live, OpsFitState
  <2> QED
    BY <1>9, <2>1, EndIInv DEF ProcessReadError
<1>10. ASSUME NEW s \in Session, SendData(s) PROVE IInv'
  BY <1>10, SendIInv
<1>11. ASSUME NEW s \in Session, WriteCompletes(s) PROVE IInv'
  BY <1>11, WriteIInv, WriteErrorIInv DEF WriteCompletes
<1>12. ASSUME NEW s \in Session, HandlerOnDeleted(s) PROVE IInv'
  BY <1>12, KeptIInv DEF HandlerOnDeleted
<1>13. CASE UNCHANGED vars
  <2>1. /\ io' = io /\ fault' = fault
        /\ UNCHANGED <<inFlight, outBuffer_, outBufferProcessing_, sends, written>>
        /\ UNCHANGED <<state, ops, sessions_, clientId_, clientId>>
    BY <1>13 DEF vars
  <2>2. UNCHANGED <<writeVars, state, ops, sessions_, clientId_, clientId>>
    BY <2>1 DEF writeVars
  <2> QED
    BY <1>0, <2>1, <2>2, KeptIInv
<1> QED
  BY <1>1, <1>2, <1>3, <1>4, <1>5, <1>6, <1>7, <1>8, <1>9, <1>10, <1>11, <1>12, <1>13 DEF Next

-----------------------------------------------------------------------------
(* The properties.                                                         *)

\* The invariant holds in every reachable state.
LEMMA Invariance == Spec => []IInv
  BY InitIInv, NextIInv, PTL DEF Spec

\* The variables keep their types; in particular sessions_ only ever holds
\* sessions, whichever handler deletes one (netbase.cpp:27-30, 37-121).
THEOREM TypeCorrect == Spec => []TypeOK
<1>1. IInv => TypeOK
  BY DEF IInv
<1> QED
  BY <1>1, Invariance, PTL

\* sessions_ lists exactly the accepted sessions that are not deleted, each
\* once and with an id of its own, for any number of connections that come
\* and go (netbase.cpp:27-30, 155-162, 173-196).
THEOREM LookupsAreSafe == Spec => []SessionsTracked
<1>1. IInv => SessionsTracked
  BY DEF IInv, LifeInv
<1> QED
  BY <1>1, Invariance, PTL

\* While the server runs exactly one accept is outstanding, however many
\* accepts failed (netbase.cpp:165-196).
THEOREM AcceptsGoOn == Spec => []OneAcceptPending
<1>1. IInv => OneAcceptPending
  <2> SUFFICES ASSUME IInv, io = "running"
               PROVE  Cardinality({s \in Session : "accept" \in ops[s]}) = 1
    BY DEF OneAcceptPending
  <2>1. PICK s \in Session : \A t \in Session : "accept" \in ops[t] <=> t = s
    BY DEF IInv, LifeInv, OneAccepts
  <2>2. {t \in Session : "accept" \in ops[t]} = {s}
    BY <2>1
  <2> QED
    BY <2>2, FS_Singleton
<1> QED
  BY <1>1, Invariance, PTL

\* When a session to which nothing was sent deletes itself, no handler that is
\* bound to it is outstanding (netbase.cpp:37-90).
THEOREM SilentSessionsEndClean == Spec => []NoOpOnDeleted
<1>1. IInv => NoOpOnDeleted
  BY DEF IInv, QuietSessions, NoOpOnDeleted
<1> QED
  BY <1>1, Invariance, PTL

\* At most one write per session is outstanding, with the buffer that was
\* given to it, and messages first reach the peer in the order in which they
\* were sent (netbase.cpp:97-121).
THEOREM MessagesInTurn == Spec => []WritesInTurn
<1>1. IInv => WritesInTurn
  <2> SUFFICES ASSUME IInv, NEW s \in Session
               PROVE  /\ Live(s) /\ io # "destroyed" =>
                           inFlight[s] = IF outBufferProcessing_[s] = <<>> THEN <<>>
                                         ELSE <<outBufferProcessing_[s]>>
                      /\ \A k \in DOMAIN inFlight[s] : InTurn(inFlight[s][k], written[s])
    BY DEF WritesInTurn
  <2>1. BuffersAgree(inFlight[s], state[s] = "deleted" \/ io = "destroyed",
                     outBufferProcessing_[s], outBuffer_[s], written[s], sends[s])
    BY DEF IInv, BuffersInTurn
  <2>2. Live(s) => state[s] # "deleted"
    BY DEF Live
  <2>3. \A k \in DOMAIN inFlight[s] : inFlight[s][k] = outBufferProcessing_[s]
    BY <2>1 DEF BuffersAgree
  <2> QED
    BY <2>1, <2>2, <2>3 DEF BuffersAgree
<1> QED
  BY <1>1, Invariance, PTL
=============================================================================
