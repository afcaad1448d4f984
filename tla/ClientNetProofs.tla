--------------------------- MODULE ClientNetProofs ---------------------------
(***************************************************************************)
(* Proofs about ClientNet, for any replies, size of reply_ and maximum     *)
(* size of a packet, and any number of requests.                           *)
(***************************************************************************)
EXTENDS ClientNet, SequenceLemmas

-----------------------------------------------------------------------------
(* The inductive invariant.                                                *)

TypeOK ==
    /\ client \in {"new", "idle", "sending", "exception"}
    /\ reply_ \in [1..MaxLength -> Cell]
    /\ requests \in Nat
    /\ results \in Seq(Seq(Cell))
    /\ wire \in Seq(Cell)
    /\ packets \in Seq(Seq(Cell))
    /\ pos \in 0..Len(wire)
    /\ broken \in BOOLEAN /\ repeated \in BOOLEAN /\ whole \in BOOLEAN

\* What the server puts into a packet: not too much, and its last byte, and
\* no other, ends the packet.
Payload(p) ==
    /\ p \in Seq(Cell)
    /\ Len(p) <= MaxPacketSize
    /\ \A i \in 1..Len(p) : p[i].last <=> i = Len(p)

\* The packet with payload p is in the stream w, behind its first b cells.
PacketAt(w, b, p) ==
    /\ w[b + 1].k = "N" /\ w[b + 2].k = "F"
    /\ w[b + 3].k = "size" /\ w[b + 3].v = Len(p)
    /\ \A j \in 1..Len(p) : w[b + 3 + j] = p[j]
    /\ \A i \in 1..(3 + Len(p)) : w[b + i].last <=> i = 3 + Len(p)

\* The stream w is the packets with the payloads s; e tells where each ends.
Layout(e, s, w) ==
    /\ e[0] = 0 /\ e[Len(s)] = Len(w)
    /\ \A k \in 1..Len(s) : /\ e[k] = e[k - 1] + 3 + Len(s[k])
                            /\ e[k] <= Len(w)
                            /\ Payload(s[k])
                            /\ PacketAt(w, e[k - 1], s[k])

\* As long as reads return whole packets, they have returned the first ones,
\* one for each result.
StreamInStep ==
    \E e \in [0..Len(packets) -> Nat] :
        /\ Layout(e, packets, wire)
        /\ whole => Len(results) <= Len(packets) /\ pos = e[Len(results)]

\* There is one result for each request but the current one, and the server
\* does not answer before it is asked.
Counts ==
    /\ client \in {"new", "idle"} => Len(results) = requests
    /\ client = "sending" => Len(results) + 1 = requests
    /\ Len(packets) <= IF repeated THEN requests + 1 ELSE requests

ResultsArePackets == whole => \A i \in 1..Len(results) : results[i] = packets[i]

IInv ==
    /\ TypeOK
    /\ StreamInStep
    /\ Counts
    /\ ResultsArePackets

-----------------------------------------------------------------------------
(* What the helpers do.                                                    *)

\* A reply of the server, as cells, is the payload of a packet.
LEMMA PayloadFacts ==
    ASSUME NEW at \in Nat, NEW p \in Payloads
    PROVE  Payload(PayloadCells(p, at))
<1> DEFINE q == PayloadCells(p, at)
<1>1. /\ Len(p) \in Nat /\ Len(p) <= MaxPacketSize
      /\ \A i \in 1..Len(p) : p[i] \in {"N", "F", "x"}
  BY ClientNetAssumption, LenProperties, ElementOfSeq
<1>2. \A i \in 1..Len(p) : q[i] = [k |-> p[i], v |-> at + HeaderSize + i, last |-> i = Len(p)]
  BY DEF PayloadCells
<1>3. ASSUME NEW i \in 1..Len(p)
      PROVE  q[i] \in Cell /\ q[i].last = (i = Len(p))
  <2>1. p[i] \in {"N", "F", "x", "size", "beyond"} /\ at + HeaderSize + i \in Nat
    BY <1>1 DEF HeaderSize
  <2>2. (i = Len(p)) \in BOOLEAN
    OBVIOUS
  <2>3. [k |-> p[i], v |-> at + HeaderSize + i, last |-> i = Len(p)] \in Cell
    BY <2>1, <2>2 DEF Cell
  <2> QED
    BY <1>2, <2>3
<1>4. q = [i \in 1..Len(p) |-> q[i]]
  BY DEF PayloadCells
<1> HIDE DEF q
<1>5. q \in [1..Len(p) -> Cell]
  BY <1>3, <1>4
<1>6. q \in Seq(Cell) /\ Len(q) = Len(p)
  BY <1>1, <1>5, FunctionIsSeq
<1> QED
  BY <1>1, <1>3, <1>6 DEF Payload, q

\* createPacket, at the end of a stream, makes a packet as PacketAt describes.
LEMMA PacketFacts ==
    ASSUME NEW w \in Seq(Cell), NEW p, Payload(p)
    PROVE  LET x == w \o CreatePacket(p, Len(p))
           IN  /\ x \in Seq(Cell) /\ Len(x) = Len(w) + 3 + Len(p)
               /\ \A i \in 1..Len(w) : x[i] = w[i]
               /\ PacketAt(x, Len(w), p)
<1> DEFINE N == [k |-> "N", v |-> 0, last |-> FALSE]
           F == [k |-> "F", v |-> 0, last |-> FALSE]
           S == [k |-> "size", v |-> Len(p), last |-> p = <<>>]
           h == <<N, F, S>>
           c == CreatePacket(p, Len(p))
           x == w \o c
<1>1. p \in Seq(Cell) /\ \A i \in 1..Len(p) : p[i].last <=> i = Len(p)
  BY DEF Payload
<1>2. Len(p) \in Nat /\ Len(w) \in Nat
  BY <1>1, LenProperties
<1>3. /\ N \in Cell /\ F \in Cell /\ S \in Cell
      /\ N.k = "N" /\ F.k = "F" /\ S.k = "size" /\ S.v = Len(p)
      /\ ~N.last /\ ~F.last /\ S.last = (p = <<>>)
  BY <1>2 DEF Cell
<1>4. c = h \o p
  BY DEF CreatePacket
<1> HIDE DEF N, F, S, c
<1>5. h \in Seq(Cell) /\ Len(h) = 3 /\ h[1] = N /\ h[2] = F /\ h[3] = S
  BY <1>3
<1> HIDE DEF h
<1>6. /\ c \in Seq(Cell) /\ Len(c) = 3 + Len(p)
      /\ \A i \in 1..3 : c[i] = h[i]
      /\ \A j \in 1..Len(p) : c[3 + j] = p[j]
  <2>1. /\ c \in Seq(Cell) /\ Len(c) = Len(h) + Len(p)
        /\ \A i \in 1..Len(h) : c[i] = h[i]
        /\ \A j \in 1..Len(p) : c[Len(h) + j] = p[j]
    <3>1. h \in Seq(Cell) /\ p \in Seq(Cell)
      BY <1>1, <1>5
    <3> QED
      BY <1>4, <3>1, ConcatFacts
  <2> QED
    BY <1>5, <2>1
<1>7. /\ x \in Seq(Cell) /\ Len(x) = Len(w) + 3 + Len(p)
      /\ \A i \in 1..Len(w) : x[i] = w[i]
      /\ \A i \in 1..(3 + Len(p)) : x[Len(w) + i] = c[i]
  <2>1. /\ x \in Seq(Cell) /\ Len(x) = Len(w) + Len(c)
        /\ \A i \in 1..Len(w) : x[i] = w[i]
        /\ \A i \in 1..Len(c) : x[Len(w) + i] = c[i]
    <3>1. c \in Seq(Cell)
      BY <1>6
    <3> QED
      BY <3>1, ConcatFacts
  <2> HIDE DEF x
  <2> QED
    BY <1>2, <1>6, <2>1
<1> HIDE DEF x
<1>8. \A i \in 1..(3 + Len(p)) : c[i].last <=> i = 3 + Len(p)
  <2> SUFFICES ASSUME NEW i \in 1..(3 + Len(p))
               PROVE  c[i].last <=> i = 3 + Len(p)
    OBVIOUS
  <2>1. CASE i \in 1..2
    <3>1. c[i] = N \/ c[i] = F
      BY <1>5, <1>6, <2>1
    <3>2. i # 3 + Len(p)
      BY <1>2, <2>1
    <3> QED
      BY <1>3, <3>1, <3>2
  <2>2. CASE i = 3
    <3>1. c[i] = S
      BY <1>5, <1>6, <2>2
    <3>2. p = <<>> <=> Len(p) = 0
      BY <1>1
    <3>3. i = 3 + Len(p) <=> Len(p) = 0
      BY <1>2, <2>2
    <3>4. c[i].last = (p = <<>>)
      BY <1>3, <3>1
    <3> QED
      BY <3>2, <3>3, <3>4
  <2>3. CASE i > 3
    <3>1. i - 3 \in 1..Len(p) /\ 3 + (i - 3) = i
      BY <1>2, <2>3
    <3>2. c[i] = p[i - 3]
      BY <1>6, <3>1
    <3>3. i - 3 = Len(p) <=> i = 3 + Len(p)
      BY <1>2, <3>1
    <3> QED
      BY <1>1, <3>1, <3>2, <3>3
  <2> QED
    BY <1>2, <2>1, <2>2, <2>3
<1>9. PacketAt(x, Len(w), p)
  <2>1. x[Len(w) + 1] = N /\ x[Len(w) + 2] = F /\ x[Len(w) + 3] = S
    BY <1>2, <1>5, <1>6, <1>7
  <2>2. \A j \in 1..Len(p) : x[Len(w) + 3 + j] = p[j]
    <3> SUFFICES ASSUME NEW j \in 1..Len(p) PROVE x[Len(w) + 3 + j] = p[j]
      OBVIOUS
    <3>1. Len(w) + 3 + j = Len(w) + (3 + j) /\ 3 + j \in 1..(3 + Len(p))
      BY <1>2
    <3> QED
      BY <1>6, <1>7, <3>1
  <2>3. \A i \in 1..(3 + Len(p)) : x[Len(w) + i].last <=> i = 3 + Len(p)
    BY <1>7, <1>8
  <2> QED
    BY <1>3, <2>1, <2>2, <2>3 DEF PacketAt
<1> QED
  BY <1>7, <1>9 DEF x, c

\* A longer stream still has the packets of the shorter one.
LEMMA PacketStays ==
    ASSUME NEW w, NEW x, NEW n \in Nat, \A i \in 1..n : x[i] = w[i],
           NEW b \in Nat, NEW p, Len(p) \in Nat, b + 3 + Len(p) <= n,
           PacketAt(w, b, p)
    PROVE  PacketAt(x, b, p)
<1> DEFINE l == Len(p)
<1>1. l \in Nat /\ b + 3 + l <= n
  OBVIOUS
<1> HIDE DEF l
<1>2. \A i \in 1..(3 + l) : b + i \in 1..n
  BY <1>1
<1>3. \A j \in 1..l : b + 3 + j \in 1..n
  BY <1>1
<1>4. 1 \in 1..(3 + l) /\ 2 \in 1..(3 + l) /\ 3 \in 1..(3 + l)
  BY <1>1
<1>5. \A i \in 1..(3 + l) : x[b + i] = w[b + i]
  BY <1>2
<1>6. \A j \in 1..l : x[b + 3 + j] = w[b + 3 + j]
  BY <1>3
<1> QED
  BY <1>4, <1>5, <1>6 DEF PacketAt, l

\* fetchData, when the array holds what it is asked for.
LEMMA FetchFacts ==
    ASSUME NEW buf \in [1..MaxLength -> Cell], NEW count \in Nat,
           count + HeaderSize <= MaxLength
    PROVE  /\ FetchDataArray(buf, count) \in Seq(Cell)
           /\ Len(FetchDataArray(buf, count)) = count
           /\ \A i \in 1..count : FetchDataArray(buf, count)[i] = buf[3 + i]
<1> DEFINE b == FetchDataArray(buf, count)
<1>1. MaxLength \in Nat
  BY CoreProtoAssumption
<1>2. Len(buf) = MaxLength
  BY <1>1, FunctionIsSeq
<1>3. b = Bytes(buf, count)
  BY <1>1 DEF FetchDataArray, HeaderSize
<1>4. \A i \in 1..count : 3 + i <= MaxLength /\ 3 + i \in 1..MaxLength
  BY <1>1 DEF HeaderSize
<1>5. \A i \in 1..count : b[i] = buf[3 + i]
  BY <1>2, <1>3, <1>4 DEF Bytes, HeaderSize
<1>6. b = [i \in 1..count |-> b[i]]
  BY <1>3 DEF Bytes
<1> HIDE DEF b
<1>7. b \in [1..count -> Cell]
  BY <1>4, <1>5, <1>6
<1>8. b \in Seq(Cell) /\ Len(b) = count
  BY <1>7, FunctionIsSeq
<1> QED
  BY <1>5, <1>8 DEF b

-----------------------------------------------------------------------------
(* The invariant holds initially and every action preserves it.            *)

\* Nothing was sent, and reply_ is not initialised.
LEMMA InitIInv == Init => IInv
<1> SUFFICES ASSUME Init PROVE IInv
  OBVIOUS
<1>1. /\ client = "new" /\ requests = 0 /\ results = <<>> /\ wire = <<>> /\ packets = <<>>
      /\ pos = 0 /\ broken = FALSE /\ repeated = FALSE /\ whole = TRUE
  BY DEF Init
<1>2. reply_ \in [1..MaxLength -> Cell]
  <2> DEFINE F == [k |-> "F", v |-> 0, last |-> FALSE]
             S == [k |-> "size", v |-> 1, last |-> FALSE]
  <2>1. F \in Cell /\ S \in Cell
    BY DEF Cell
  <2>2. Other \in Cell
    BY DEF Other, Cell
  <2> HIDE DEF F, S
  <2>3. PICK second \in {F, Other}, third \in {S, Other} :
          reply_ = [i \in 1..MaxLength |-> CASE i = 2 -> second [] i = 3 -> third [] OTHER -> Other]
    BY DEF Init, Junk, F, S
  <2>4. \A i \in 1..MaxLength : reply_[i] \in {second, third, Other}
    BY <2>3
  <2>5. \A i \in 1..MaxLength : reply_[i] \in Cell
    BY <2>1, <2>2, <2>4
  <2>6. reply_ = [i \in 1..MaxLength |-> reply_[i]]
    BY <2>3
  <2> QED
    BY <2>5, <2>6
<1>3. Len(wire) = 0 /\ Len(results) = 0 /\ Len(packets) = 0
  BY <1>1
<1>4. TypeOK
  <2>1. wire \in Seq(Cell) /\ packets \in Seq(Seq(Cell)) /\ results \in Seq(Seq(Cell))
    BY <1>1
  <2>2. requests \in Nat /\ pos \in 0..Len(wire)
    BY <1>1, <1>3
  <2>3. client \in {"new", "idle", "sending", "exception"}
    BY <1>1
  <2>4. broken \in BOOLEAN /\ repeated \in BOOLEAN /\ whole \in BOOLEAN
    BY <1>1
  <2> QED
    BY <1>2, <2>1, <2>2, <2>3, <2>4 DEF TypeOK
<1>5. StreamInStep
  <2> DEFINE e == [k \in 0..0 |-> 0]
  <2>1. e \in [0..Len(packets) -> Nat] /\ e[0] = 0
    BY <1>3
  <2>2. Layout(e, packets, wire)
    BY <1>3, <2>1 DEF Layout
  <2> HIDE DEF e
  <2> QED
    BY <1>1, <1>3, <2>1, <2>2 DEF StreamInStep
<1>6. Counts /\ ResultsArePackets
  BY <1>1, <1>3 DEF Counts, ResultsArePackets
<1> QED
  BY <1>4, <1>5, <1>6 DEF IInv

\* The server sends a packet that it may send by now.
LEMMA SendIInv ==
    ASSUME IInv, NEW q, Payload(q), ServerSends(q), repeated' \in BOOLEAN,
           Len(packets) + 1 <= IF repeated' THEN requests + 1 ELSE requests
    PROVE  IInv'
<1>1. /\ packets' = Append(packets, q)
      /\ wire' = wire \o CreatePacket(q, Len(q))
      /\ UNCHANGED <<client, reply_, requests, results, pos, broken, whole>>
  BY DEF ServerSends
<1>2. /\ wire \in Seq(Cell) /\ packets \in Seq(Seq(Cell)) /\ results \in Seq(Seq(Cell))
      /\ q \in Seq(Cell) /\ pos \in 0..Len(wire)
      /\ TypeOK /\ StreamInStep /\ Counts /\ ResultsArePackets
  BY DEF IInv, TypeOK, Payload
<1> DEFINE m == Len(packets)
           b == Len(wire)
<1>3. /\ wire' \in Seq(Cell) /\ Len(wire') = b + 3 + Len(q)
      /\ \A i \in 1..b : wire'[i] = wire[i]
      /\ PacketAt(wire', b, q)
  BY <1>1, <1>2, PacketFacts
<1>4. b \in Nat /\ m \in Nat /\ Len(q) \in Nat /\ Len(results) \in Nat
  BY <1>2, LenProperties
<1>5. /\ packets' \in Seq(Seq(Cell)) /\ Len(packets') = m + 1
      /\ \A i \in 1..m : packets'[i] = packets[i]
      /\ packets'[m + 1] = q
  BY <1>1, <1>2, AppendProperties, AppendFacts
<1>6. TypeOK'
  <2>1. pos' \in 0..Len(wire')
    BY <1>1, <1>2, <1>3, <1>4
  <2> QED
    BY <1>1, <1>2, <1>3, <1>5, <2>1 DEF TypeOK
<1>7. StreamInStep'
  <2>1. PICK e \in [0..m -> Nat] :
          /\ Layout(e, packets, wire)
          /\ whole => Len(results) <= m /\ pos = e[Len(results)]
    BY <1>2 DEF StreamInStep
  <2>2. \E g \in [0..(m + 1) -> Nat] : (\A k \in 0..m : g[k] = e[k]) /\ g[m + 1] = Len(wire')
    <3> DEFINE g == [k \in 0..(m + 1) |-> IF k <= m THEN e[k] ELSE Len(wire')]
    <3>1. Len(wire') \in Nat
      BY <1>3, <1>4
    <3>2. g \in [0..(m + 1) -> Nat] /\ (\A k \in 0..m : g[k] = e[k]) /\ g[m + 1] = Len(wire')
      BY <1>4, <2>1, <3>1
    <3> QED
      BY <3>2
  <2>3. PICK f \in [0..(m + 1) -> Nat] : (\A k \in 0..m : f[k] = e[k]) /\ f[m + 1] = Len(wire')
    BY <2>2
  <2>4. e[0] = 0 /\ e[m] = b /\ \A k \in 0..m : e[k] \in Nat
    BY <1>4, <2>1 DEF Layout
  <2>5. ASSUME NEW k \in 1..m
        PROVE  /\ f[k] = f[k - 1] + 3 + Len(packets'[k]) /\ f[k] <= Len(wire')
               /\ Payload(packets'[k]) /\ PacketAt(wire', f[k - 1], packets'[k])
    <3>1. k \in 0..m /\ k - 1 \in 0..m
      BY <1>4
    <3>2. f[k] = e[k] /\ f[k - 1] = e[k - 1] /\ packets'[k] = packets[k]
      BY <1>5, <2>3, <3>1
    <3>3. /\ e[k] = e[k - 1] + 3 + Len(packets[k]) /\ e[k] <= b
          /\ Payload(packets[k]) /\ PacketAt(wire, e[k - 1], packets[k])
      BY <2>1 DEF Layout
    <3>4. packets[k] \in Seq(Cell)
      BY <3>3 DEF Payload
    <3>5. Len(packets[k]) \in Nat /\ e[k - 1] \in Nat /\ e[k] \in Nat
      BY <2>4, <3>1, <3>4, LenProperties
    <3>6. PacketAt(wire', e[k - 1], packets[k])
      <4>1. e[k - 1] + 3 + Len(packets[k]) <= b
        BY <3>3
      <4>2. \A i \in 1..b : wire'[i] = wire[i]
        BY <1>3
      <4>3. PacketAt(wire, e[k - 1], packets[k])
        BY <3>3
      <4> DEFINE a == e[k - 1]
                 p == packets[k]
                 x == wire'
      <4>4. a \in Nat /\ b \in Nat /\ Len(p) \in Nat /\ a + 3 + Len(p) <= b
        BY <1>4, <3>5, <4>1
      <4>5. PacketAt(wire, a, p) /\ \A i \in 1..b : x[i] = wire[i]
        BY <4>2, <4>3
      <4> HIDE DEF a, p, x, b
      <4>6. PacketAt(x, a, p)
        BY <4>4, <4>5, PacketStays
      <4> QED
        BY <4>6 DEF x, a, p
    <3>7. e[k] <= Len(wire')
      BY <1>3, <1>4, <3>3, <3>5
    <3> QED
      BY <3>2, <3>3, <3>6, <3>7
  <2>6. Layout(f, packets', wire')
    <3>1. f[m + 1] = f[m] + 3 + Len(q) /\ f[m] = b /\ f[0] = 0
      <4>1. 0 \in 0..m /\ m \in 0..m
        BY <1>4
      <4>2. f[m] = e[m] /\ f[0] = e[0]
        BY <2>3, <4>1
      <4>3. f[m] = b /\ f[0] = 0
        BY <2>4, <4>2
      <4>4. f[m + 1] = b + 3 + Len(q)
        BY <1>3, <2>3
      <4> QED
        BY <4>3, <4>4
    <3>2. f[m + 1] <= Len(wire')
      BY <1>3, <1>4, <2>3
    <3>3. ASSUME NEW k \in 1..(m + 1)
          PROVE  /\ f[k] = f[k - 1] + 3 + Len(packets'[k]) /\ f[k] <= Len(wire')
                 /\ Payload(packets'[k]) /\ PacketAt(wire', f[k - 1], packets'[k])
      <4>1. CASE k \in 1..m
        BY <2>5, <4>1
      <4>2. CASE k = m + 1
        <5>1. k - 1 = m
          BY <1>4, <4>2
        <5> QED
          BY <1>3, <1>5, <3>1, <3>2, <4>2, <5>1
      <4> QED
        BY <1>4, <4>1, <4>2
    <3> QED
      BY <1>5, <2>3, <3>1, <3>3 DEF Layout
  <2>7. whole' => Len(results') <= Len(packets') /\ pos' = f[Len(results')]
    <3> SUFFICES ASSUME whole'
                 PROVE  Len(results') <= Len(packets') /\ pos' = f[Len(results')]
      OBVIOUS
    <3>1. Len(results) <= m /\ pos = e[Len(results)]
      BY <1>1, <2>1
    <3>2. Len(results) \in 0..m /\ Len(results) <= m + 1
      BY <1>4, <3>1
    <3> QED
      BY <1>1, <1>5, <2>3, <3>1, <3>2
  <2> QED
    BY <1>5, <2>3, <2>6, <2>7 DEF StreamInStep
<1>8. Counts'
  <2>1. Len(packets') <= IF repeated' THEN requests' + 1 ELSE requests'
    BY <1>1, <1>5
  <2> QED
    BY <1>1, <1>2, <2>1 DEF Counts
<1>9. ResultsArePackets'
  <2> SUFFICES ASSUME whole', NEW i \in 1..Len(results')
               PROVE  results'[i] = packets'[i]
    BY DEF ResultsArePackets
  <2>1. i \in 1..Len(results) /\ results'[i] = packets[i]
    BY <1>1, <1>2 DEF ResultsArePackets
  <2>2. Len(results) <= m
    BY <1>1, <1>2 DEF StreamInStep
  <2>3. i \in 1..m
    BY <1>4, <2>1, <2>2
  <2> QED
    BY <1>5, <2>1, <2>3
<1> QED
  BY <1>6, <1>7, <1>8, <1>9 DEF IInv

\* The reply to a request, whatever it is.
LEMMA RepliesIInv ==
    ASSUME IInv, NEW p \in Payloads, ServerReplies(p)
    PROVE  IInv'
<1>1. /\ Len(packets) < IF repeated THEN requests + 1 ELSE requests
      /\ ServerSends(PayloadCells(p, Len(wire))) /\ repeated' = repeated
  BY DEF ServerReplies
<1>2. /\ Len(wire) \in Nat /\ Len(packets) \in Nat /\ requests \in Nat
      /\ repeated \in BOOLEAN
  BY LenProperties DEF IInv, TypeOK
<1>3. Payload(PayloadCells(p, Len(wire)))
  BY <1>2, PayloadFacts
<1>4. Len(packets) + 1 <= IF repeated' THEN requests + 1 ELSE requests
  BY <1>1, <1>2
<1> QED
  BY <1>1, <1>2, <1>3, <1>4, SendIInv

\* The last packet once more.
LEMMA RepeatsIInv ==
    ASSUME IInv, ServerRepeats
    PROVE  IInv'
<1>1. packets # <<>> /\ ~repeated /\ ServerSends(Last(packets)) /\ repeated' = TRUE
  BY DEF ServerRepeats
<1>2. packets \in Seq(Seq(Cell)) /\ requests \in Nat
  BY DEF IInv, TypeOK
<1>3. Len(packets) \in Nat /\ Len(packets) # 0
  BY <1>1, <1>2, LenProperties, EmptySeq
<1>4. Payload(Last(packets))
  <2>1. Len(packets) \in 1..Len(packets)
    BY <1>3
  <2>2. \A k \in 1..Len(packets) : Payload(packets[k])
    BY DEF IInv, StreamInStep, Layout
  <2> QED
    BY <2>1, <2>2 DEF Last
<1>5. Len(packets) + 1 <= IF repeated' THEN requests + 1 ELSE requests
  <2>1. Len(packets) <= requests
    BY <1>1 DEF IInv, Counts
  <2> QED
    BY <1>1, <1>2, <1>3, <2>1
<1> QED
  BY <1>1, <1>4, <1>5, SendIInv

\* Where a read of a whole packet ends, and what it returns.
LEMMA WholeRead ==
    ASSUME IInv, whole, NEW n \in 1..MaxLength, Whole(n), pos + n <= Len(wire),
           NEW e \in [0..Len(packets) -> Nat], Layout(e, packets, wire),
           Len(results) <= Len(packets), pos = e[Len(results)]
    PROVE  LET k == Len(results)
               p == packets[k + 1]
           IN  /\ k + 1 \in 1..Len(packets) /\ Payload(p) /\ Len(p) \in Nat
               /\ n = 3 + Len(p) /\ pos + n = e[k + 1]
               /\ PacketAt(wire, pos, p)
<1> DEFINE k == Len(results)
           p == packets[k + 1]
           l == Len(packets[k + 1])
<1>1. /\ k \in Nat /\ Len(packets) \in Nat /\ Len(wire) \in Nat /\ pos \in Nat
      /\ n \in Nat /\ n >= 1
  <2>1. k \in Nat /\ Len(packets) \in Nat /\ Len(wire) \in Nat
    BY LenProperties DEF IInv, TypeOK
  <2>2. pos \in Nat
    BY <2>1 DEF IInv, TypeOK
  <2> QED
    BY <2>1, <2>2, CoreProtoAssumption
<1>2. k # Len(packets)
  <2>1. k = Len(packets) => pos = Len(wire)
    BY DEF Layout
  <2> QED
    BY <1>1, <2>1
<1>3. k + 1 \in 1..Len(packets) /\ (k + 1) - 1 = k
  BY <1>1, <1>2
<1>4. /\ e[k + 1] = e[k] + 3 + l
      /\ Payload(p) /\ PacketAt(wire, e[k], p)
  BY <1>3 DEF Layout
<1>5. l \in Nat
  BY <1>4, LenProperties DEF Payload
<1>6. \A i \in 1..(3 + l) : wire[pos + i].last <=> i = 3 + l
  BY <1>4 DEF PacketAt
<1>7. wire[pos + n].last /\ \A i \in 1..(n - 1) : ~wire[pos + i].last
  BY DEF Whole
<1> HIDE DEF l
<1>8. n = 3 + l
  <2>1. CASE n < 3 + l
    <3>1. n \in 1..(3 + l)
      BY <1>1, <1>5, <2>1
    <3> QED
      BY <1>6, <1>7, <3>1
  <2>2. CASE n > 3 + l
    <3>1. 3 + l \in 1..(3 + l) /\ 3 + l \in 1..(n - 1)
      BY <1>1, <1>5, <2>2
    <3> QED
      BY <1>6, <1>7, <3>1
  <2> QED
    BY <1>1, <1>5, <2>1, <2>2
<1>9. pos + n = e[k + 1]
  <2>1. pos + n = pos + 3 + l
    BY <1>1, <1>5, <1>8
  <2> QED
    BY <1>4, <2>1
<1> QED
  BY <1>3, <1>4, <1>5, <1>8, <1>9 DEF l

\* send() returns.
LEMMA ReadIInv ==
    ASSUME IInv, NEW n \in 1..MaxLength, ReadReply(n)
    PROVE  IInv'
<1> DEFINE buf == Filled(reply_, wire, pos, n)
<1>1. /\ client = "sending" /\ pos + n <= Len(wire) /\ reply_' = buf /\ pos' = pos + n
      /\ whole' = (whole /\ Whole(n)) /\ client' = "idle"
      /\ UNCHANGED <<requests, wire, packets, broken, repeated>>
  BY DEF ReadReply
<1>2. PICK pkgSize \in PkgSizes(buf) :
        results' = Append(results, IF IsPacketCompleteArray(buf, pkgSize)
                                   THEN FetchDataArray(buf, pkgSize) ELSE <<>>)
  BY <1>1 DEF ReadReply
<1>3. /\ wire \in Seq(Cell) /\ packets \in Seq(Seq(Cell)) /\ results \in Seq(Seq(Cell))
      /\ reply_ \in [1..MaxLength -> Cell] /\ pos \in 0..Len(wire)
      /\ TypeOK /\ StreamInStep /\ Counts /\ ResultsArePackets
  BY DEF IInv, TypeOK
<1>4. /\ n \in Nat /\ n >= 1 /\ n <= MaxLength /\ MaxLength \in Nat /\ MaxPacketSize \in Nat
      /\ MaxLength > 3 /\ Len(wire) \in Nat /\ pos \in Nat
      /\ Len(results) \in Nat /\ Len(packets) \in Nat
  <2>1. Len(wire) \in Nat /\ Len(results) \in Nat /\ Len(packets) \in Nat
    BY <1>3, LenProperties
  <2>2. MaxLength \in Nat /\ MaxPacketSize \in Nat /\ MaxLength > 3
    BY CoreProtoAssumption DEF HeaderSize
  <2> QED
    BY <1>3, <2>1, <2>2
<1>5. /\ buf \in [1..MaxLength -> Cell]
      /\ \A i \in 1..n : buf[i] = wire[pos + i]
  <2>1. \A i \in 1..MaxLength : buf[i] = IF i <= n THEN wire[pos + i] ELSE reply_[i]
    BY DEF Filled
  <2>2. \A i \in 1..n : pos + i \in 1..Len(wire) /\ i \in 1..MaxLength /\ i <= n
    BY <1>1, <1>4
  <2>3. \A i \in 1..n : wire[pos + i] \in Cell
    BY <1>3, <2>2, ElementOfSeq
  <2>4. ASSUME NEW i \in 1..MaxLength PROVE buf[i] \in Cell
    <3>1. CASE i <= n
      <4>1. i \in 1..n
        BY <1>4, <3>1
      <4> QED
        BY <2>1, <2>3, <3>1, <4>1
    <3>2. CASE ~(i <= n)
      BY <1>3, <2>1, <3>2
    <3> QED
      BY <3>1, <3>2
  <2>5. buf = [i \in 1..MaxLength |-> buf[i]]
    BY DEF Filled
  <2> HIDE DEF buf
  <2> QED
    BY <2>1, <2>2, <2>4, <2>5
<1> HIDE DEF buf
<1> DEFINE out == IF IsPacketCompleteArray(buf, pkgSize)
                  THEN FetchDataArray(buf, pkgSize) ELSE <<>>
<1>6. pkgSize \in Nat
  <2>1. 3 \in 1..MaxLength
    BY <1>4
  <2>2. buf[3] \in Cell
    BY <1>5, <2>1
  <2>3. buf[3].v \in Nat
    BY <2>2 DEF Cell
  <2> QED
    BY <1>4, <2>3 DEF PkgSizes
<1>7. out \in Seq(Cell)
  <2>1. CASE IsPacketCompleteArray(buf, pkgSize)
    <3>1. pkgSize + HeaderSize <= MaxLength
      BY <2>1 DEF IsPacketCompleteArray
    <3>2. FetchDataArray(buf, pkgSize) \in Seq(Cell)
      BY <1>5, <1>6, <3>1, FetchFacts
    <3> QED
      BY <2>1, <3>2
  <2>2. CASE ~IsPacketCompleteArray(buf, pkgSize)
    BY <2>2
  <2> QED
    BY <2>1, <2>2
<1>8. results' = Append(results, out)
  BY <1>2
<1> HIDE DEF out
<1>9. /\ results' \in Seq(Seq(Cell)) /\ Len(results') = Len(results) + 1
      /\ \A i \in 1..Len(results) : results'[i] = results[i]
      /\ results'[Len(results) + 1] = out
  BY <1>3, <1>7, <1>8, AppendProperties, AppendFacts
<1>10. TypeOK'
  <2>1. whole' \in BOOLEAN /\ pos' \in 0..Len(wire')
    BY <1>1, <1>4
  <2> QED
    BY <1>1, <1>3, <1>5, <1>9, <2>1 DEF TypeOK
<1>11. Counts'
  BY <1>1, <1>3, <1>4, <1>9 DEF Counts
<1>12. PICK e \in [0..Len(packets) -> Nat] :
         /\ Layout(e, packets, wire)
         /\ whole => Len(results) <= Len(packets) /\ pos = e[Len(results)]
  BY <1>3 DEF StreamInStep
<1> DEFINE k == Len(results)
           p == packets[k + 1]
           l == Len(packets[k + 1])
<1>13. ASSUME whole'
       PROVE  /\ k + 1 \in 1..Len(packets) /\ pos' = e[k + 1] /\ out = p
  <2>1. whole /\ Whole(n)
    BY <1>1, <1>13
  <2>2. /\ k + 1 \in 1..Len(packets) /\ Payload(p) /\ l \in Nat
        /\ n = 3 + l /\ pos + n = e[k + 1] /\ PacketAt(wire, pos, p)
    BY <1>1, <1>12, <2>1, WholeRead
  <2>3. /\ wire[pos + 1].k = "N" /\ wire[pos + 2].k = "F"
        /\ wire[pos + 3].k = "size" /\ wire[pos + 3].v = l
        /\ \A j \in 1..l : wire[pos + 3 + j] = p[j]
    BY <2>2 DEF PacketAt
  <2>4. p \in Seq(Cell) /\ Len(p) = l /\ l <= MaxPacketSize
    BY <2>2 DEF Payload
  <2> HIDE DEF p, l
  <2>5. 1 \in 1..n /\ 2 \in 1..n /\ 3 \in 1..n
    BY <2>2
  <2>6. buf[1] = wire[pos + 1] /\ buf[2] = wire[pos + 2] /\ buf[3] = wire[pos + 3]
    BY <1>5, <2>5
  <2>7. HasMagic(buf) /\ pkgSize = l
    <3>1. PkgSizes(buf) = {l}
      BY <2>3, <2>6 DEF PkgSizes
    <3> QED
      BY <2>3, <2>6, <3>1 DEF HasMagic
  <2>8. l + HeaderSize <= MaxLength
    BY <1>4, <2>2 DEF HeaderSize
  <2>9. out = FetchDataArray(buf, l)
    BY <2>4, <2>7, <2>8 DEF out, IsPacketCompleteArray
  <2>10. out \in Seq(Cell) /\ Len(out) = l /\ \A i \in 1..l : out[i] = buf[3 + i]
    BY <1>5, <2>2, <2>8, <2>9, FetchFacts
  <2>11. \A i \in 1..l : out[i] = p[i]
    <3> SUFFICES ASSUME NEW i \in 1..l PROVE out[i] = p[i]
      OBVIOUS
    <3>1. 3 + i \in 1..n /\ pos + (3 + i) = pos + 3 + i
      BY <1>4, <2>2
    <3> QED
      BY <1>5, <2>3, <2>10, <3>1
  <2>12. out = p
    BY <2>4, <2>10, <2>11, SeqEqual
  <2> QED
    BY <1>1, <2>2, <2>12
<1>14. StreamInStep'
  <2>1. whole' => Len(results') <= Len(packets') /\ pos' = e[Len(results')]
    <3> SUFFICES ASSUME whole'
                 PROVE  Len(results') <= Len(packets') /\ pos' = e[Len(results')]
      OBVIOUS
    <3>1. k + 1 \in 1..Len(packets) /\ pos' = e[k + 1]
      BY <1>13
    <3> QED
      BY <1>1, <1>4, <1>9, <3>1
  <2>2. Layout(e, packets', wire') /\ e \in [0..Len(packets') -> Nat]
    BY <1>1, <1>12
  <2> QED
    BY <2>1, <2>2 DEF StreamInStep
<1>15. ResultsArePackets'
  <2> SUFFICES ASSUME whole', NEW i \in 1..Len(results')
               PROVE  results'[i] = packets'[i]
    BY DEF ResultsArePackets
  <2>1. CASE i \in 1..Len(results)
    BY <1>1, <1>3, <1>9, <2>1 DEF ResultsArePackets
  <2>2. CASE i = Len(results) + 1
    BY <1>1, <1>9, <1>13, <2>2
  <2> QED
    BY <1>4, <1>9, <2>1, <2>2
<1> QED
  BY <1>10, <1>11, <1>14, <1>15 DEF IInv

\* Every step keeps the invariant.
LEMMA NextIInv == IInv /\ [Next]_vars => IInv'
<1> SUFFICES ASSUME IInv, [Next]_vars PROVE IInv'
  OBVIOUS
<1>1. CASE Connect
  <2>1. client = "new" /\ client' \in {"idle", "exception"}
    BY <1>1 DEF Connect
  <2>2. UNCHANGED <<reply_, requests, results, wire, packets, pos, broken, repeated, whole>>
    BY <1>1 DEF Connect
  <2> QED
    BY <2>1, <2>2 DEF IInv, TypeOK, StreamInStep, Counts, ResultsArePackets
<1>2. CASE Write
  <2>1. client = "idle" /\ client' = "sending" /\ requests' = requests + 1
    BY <1>2 DEF Write
  <2>2. UNCHANGED <<reply_, results, wire, packets, pos, broken, repeated, whole>>
    BY <1>2 DEF Write
  <2>3. Len(packets) \in Nat /\ requests \in Nat
    BY LenProperties DEF IInv, TypeOK
  <2>4. Counts'
    BY <2>1, <2>2, <2>3 DEF IInv, Counts
  <2>5. TypeOK'
    BY <2>1, <2>2, <2>3 DEF IInv, TypeOK
  <2> QED
    BY <2>2, <2>4, <2>5 DEF IInv, StreamInStep, ResultsArePackets
<1>3. CASE \E n \in 1..MaxLength : ReadReply(n)
  BY <1>3, ReadIInv
<1>4. CASE ReadThrows
  <2>1. client = "sending" /\ client' = "exception"
    BY <1>4 DEF ReadThrows
  <2>2. UNCHANGED <<reply_, requests, results, wire, packets, pos, broken, repeated, whole>>
    BY <1>4 DEF ReadThrows
  <2> QED
    BY <2>1, <2>2 DEF IInv, TypeOK, StreamInStep, Counts, ResultsArePackets
<1>5. CASE \E p \in Payloads : ServerReplies(p)
  BY <1>5, RepliesIInv
<1>6. CASE ServerRepeats
  BY <1>6, RepeatsIInv
<1>7. CASE ConnectionBreaks
  <2>1. broken' = TRUE
    BY <1>7 DEF ConnectionBreaks
  <2>2. UNCHANGED <<client, reply_, requests, results, wire, packets, pos, repeated, whole>>
    BY <1>7 DEF ConnectionBreaks
  <2> QED
    BY <2>1, <2>2 DEF IInv, TypeOK, StreamInStep, Counts, ResultsArePackets
<1>8. CASE UNCHANGED vars
  BY <1>8 DEF vars, IInv, TypeOK, StreamInStep, Counts, ResultsArePackets
<1> QED
  BY <1>1, <1>2, <1>3, <1>4, <1>5, <1>6, <1>7, <1>8 DEF Next

\* The invariant holds in every reachable state.
LEMMA Invariance == Spec => []IInv
BY InitIInv, NextIInv, PTL DEF Spec

-----------------------------------------------------------------------------
(* The theorem.                                                            *)

\* For any replies, and any number of requests, send() returns the reply to
\* its request as long as every read returns one whole packet and the server
\* repeats nothing; if it does, results are still what the server sent, in
\* order (clientnet.cpp:79-90).
THEOREM ResultsAreReplies == Spec => []RepliesMatchRequests
<1>1. IInv => RepliesMatchRequests
  <2> SUFFICES ASSUME IInv, whole
               PROVE  /\ \A i \in DOMAIN results : results[i] = packets[i]
                      /\ ~repeated /\ client = "idle" => Len(results) = requests /\ pos = Len(wire)
    BY DEF RepliesMatchRequests
  <2>1. /\ results \in Seq(Seq(Cell)) /\ packets \in Seq(Seq(Cell)) /\ requests \in Nat
        /\ StreamInStep /\ Counts /\ ResultsArePackets
    BY DEF IInv, TypeOK
  <2>2. /\ DOMAIN results = 1..Len(results) /\ Len(results) \in Nat /\ Len(packets) \in Nat
    BY <2>1, LenProperties
  <2>3. \A i \in DOMAIN results : results[i] = packets[i]
    BY <2>1, <2>2 DEF ResultsArePackets
  <2>4. ASSUME ~repeated, client = "idle"
        PROVE  Len(results) = requests /\ pos = Len(wire)
    <3>1. PICK e \in [0..Len(packets) -> Nat] :
            /\ Layout(e, packets, wire)
            /\ Len(results) <= Len(packets) /\ pos = e[Len(results)]
      BY <2>1 DEF StreamInStep
    <3>2. Len(results) = requests /\ Len(packets) <= requests
      BY <2>1, <2>4 DEF Counts
    <3>3. Len(results) = Len(packets)
      BY <2>1, <2>2, <3>1, <3>2
    <3> QED
      BY <3>1, <3>2, <3>3 DEF Layout
  <2> QED
    BY <2>3, <2>4
<1> QED
  BY <1>1, Invariance, PTL
=============================================================================
