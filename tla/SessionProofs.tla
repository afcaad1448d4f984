---------------------------- MODULE SessionProofs ----------------------------
(***************************************************************************)
(* Proofs about Session, for any payloads, size of data_ and maximum size  *)
(* of a packet, and however the network cuts the stream.                   *)
(***************************************************************************)
EXTENDS Session, FiniteSetTheorems, SequenceLemmas

-----------------------------------------------------------------------------
(* The inductive invariant.                                                *)

\* Nothing in the stream or the array looks like memory behind a buffer.
NothingBeyond ==
    /\ \A i \in 1..Len(wire) : wire[i].k # "beyond"
    /\ \A i \in 1..MaxLength : data_[i].k # "beyond"

\* The packet with payload p is in the stream w, behind its first b cells.
PacketAt(w, b, p) ==
    /\ b + HeaderSize + Len(p) <= Len(w)
    /\ w[b + 1].k = "N" /\ w[b + 2].k = "F" /\ w[b + 3].k = "size"
    /\ w[b + 3].v = Len(p) \/ w[b + 3].v > MaxPacketSize
    /\ Len(p) <= MaxPacketSize
    /\ \A j \in 1..Len(p) : w[b + HeaderSize + j] = p[j]
    /\ \A i \in 1..(HeaderSize + Len(p)) : w[b + i].last <=> i = HeaderSize + Len(p)

\* The stream w is the packets with the payloads s; e tells where each ends.
Layout(e, s, w) ==
    /\ e[0] = 0 /\ e[Len(s)] = Len(w)
    /\ \A k \in 1..Len(s) : /\ e[k] = e[k - 1] + HeaderSize + Len(s[k])
                            /\ PacketAt(w, e[k - 1], s[k])

\* The first k packets are read and dealt with.  If more was read, it is part
\* of a packet that is too large for data_, and all of it is in incBuffer_.
Progress(e, k) ==
    /\ e[k] <= pos
    /\ k < Len(sent) => pos < e[k + 1]
    /\ Consumed = k /\ Len(delivered) = k
    /\ \A i \in 1..k : Fits(Len(sent[i])) => delivered[i] = sent[i]
    /\ Len(incBuffer_) = pos - e[k]
    /\ pos # e[k] => /\ k < Len(sent) /\ pos >= e[k] + HeaderSize
                     /\ ~Fits(Len(sent[k + 1]))

Framing ==
    \E e \in [0..Len(sent) -> Nat] :
        /\ Layout(e, sent, wire)
        /\ aligned /\ NoOversize => \E k \in 0..Len(sent) : Progress(e, k)

IInv ==
    /\ TypeOK
    /\ NothingBeyond
    /\ BufferIsRecentInput
    /\ NoOverread
    /\ Framing

-----------------------------------------------------------------------------
(* What the helpers do.                                                    *)

\* createPacket makes a packet that has the layout PacketAt describes.
LEMMA PacketFacts ==
    ASSUME NEW w \in Seq(Cell), NEW p \in Payloads,
           NEW claimed \in {Len(p)} \cup OversizeClaims
    PROVE  LET q == PayloadCells(p, Len(w))
               c == CreatePacket(q, claimed)
           IN  /\ q \in Seq(Cell) /\ Len(q) = Len(p) /\ Len(q) \in Nat
               /\ w \o c \in Seq(Cell) /\ Len(w \o c) = Len(w) + HeaderSize + Len(q)
               /\ \A i \in 1..Len(w) : (w \o c)[i] = w[i]
               /\ \A i \in 1..Len(w \o c) : i > Len(w) => (w \o c)[i].k # "beyond"
               /\ PacketAt(w \o c, Len(w), q)
<1> DEFINE q == PayloadCells(p, Len(w))
           N == [k |-> "N", v |-> 0, last |-> FALSE]
           F == [k |-> "F", v |-> 0, last |-> FALSE]
           S == [k |-> "size", v |-> claimed, last |-> q = <<>>]
           h == <<N, F, S>>
           c == CreatePacket(q, claimed)
<1>1. /\ Len(p) \in Nat /\ Len(p) <= MaxPacketSize /\ MaxPacketSize \in Nat
      /\ \A i \in 1..Len(p) : p[i] \in {"N", "F", "x"}
  BY SessionAssumption, CoreProtoAssumption, LenProperties, ElementOfSeq
<1>2. claimed \in Nat /\ (claimed = Len(p) \/ claimed > MaxPacketSize)
  BY <1>1, SessionAssumption
<1>3. Len(w) \in Nat
  BY LenProperties
<1>4. q \in [1..Len(p) -> Cell]
  <2>1. \A i \in 1..Len(p) : [k |-> p[i], v |-> Len(w) + HeaderSize + i, last |-> i = Len(p)] \in Cell
    <3> SUFFICES ASSUME NEW i \in 1..Len(p)
                 PROVE  [k |-> p[i], v |-> Len(w) + HeaderSize + i, last |-> i = Len(p)] \in Cell
      OBVIOUS
    <3>1. p[i] \in {"N", "F", "x", "size", "beyond"}
      BY <1>1
    <3>2. Len(w) + HeaderSize + i \in Nat
      BY <1>3 DEF HeaderSize
    <3>3. (i = Len(p)) \in BOOLEAN
      OBVIOUS
    <3> QED
      BY <3>1, <3>2, <3>3 DEF Cell
  <2> QED
    BY <2>1 DEF PayloadCells
<1>5. q \in Seq(Cell) /\ Len(q) = Len(p)
  BY <1>1, <1>4, FunctionIsSeq
<1>6. \A i \in 1..Len(p) : q[i].k # "beyond" /\ (q[i].last <=> i = Len(p))
  <2> SUFFICES ASSUME NEW i \in 1..Len(p)
               PROVE  q[i].k # "beyond" /\ (q[i].last <=> i = Len(p))
    OBVIOUS
  <2>1. q[i] = [k |-> p[i], v |-> Len(w) + HeaderSize + i, last |-> i = Len(p)]
    BY DEF PayloadCells
  <2>2. q[i].k = p[i] /\ q[i].last = (i = Len(p))
    BY <2>1
  <2> QED
    BY <1>1, <2>2
<1>7. /\ N \in Cell /\ F \in Cell /\ S \in Cell
      /\ N.k = "N" /\ F.k = "F" /\ S.k = "size" /\ S.v = claimed
      /\ ~N.last /\ ~F.last /\ S.last = (q = <<>>)
  BY <1>2 DEF Cell
<1>8. c = h \o q
  BY DEF CreatePacket
<1> HIDE DEF q, N, F, S, c
<1>9. h \in Seq(Cell) /\ Len(h) = 3 /\ h[1] = N /\ h[2] = F /\ h[3] = S
  BY <1>7
<1> HIDE DEF h
<1>10. /\ c \in Seq(Cell) /\ Len(c) = 3 + Len(p)
       /\ \A i \in 1..3 : c[i] = h[i]
       /\ \A j \in 1..Len(p) : c[3 + j] = q[j]
  <2>1. /\ c \in Seq(Cell) /\ Len(c) = Len(h) + Len(q)
        /\ \A i \in 1..Len(h) : c[i] = h[i]
        /\ \A j \in 1..Len(q) : c[Len(h) + j] = q[j]
    <3>1. h \in Seq(Cell) /\ q \in Seq(Cell)
      BY <1>5, <1>9
    <3> QED
      BY <1>8, <3>1, ConcatFacts
  <2> QED
    BY <1>5, <1>9, <2>1
<1>11. /\ w \o c \in Seq(Cell) /\ Len(w \o c) = Len(w) + 3 + Len(p)
       /\ \A i \in 1..Len(w) : (w \o c)[i] = w[i]
       /\ \A i \in 1..(3 + Len(p)) : (w \o c)[Len(w) + i] = c[i]
  <2>1. /\ w \o c \in Seq(Cell) /\ Len(w \o c) = Len(w) + Len(c)
        /\ \A i \in 1..Len(w) : (w \o c)[i] = w[i]
        /\ \A i \in 1..Len(c) : (w \o c)[Len(w) + i] = c[i]
    <3>1. c \in Seq(Cell)
      BY <1>10
    <3> QED
      BY <3>1, ConcatFacts
  <2> QED
    BY <1>1, <1>3, <1>10, <2>1
<1> DEFINE x == w \o c
<1> HIDE DEF x
<1>12. \A i \in 1..(3 + Len(p)) : c[i].k # "beyond" /\ (c[i].last <=> i = 3 + Len(p))
  <2> SUFFICES ASSUME NEW i \in 1..(3 + Len(p))
               PROVE  c[i].k # "beyond" /\ (c[i].last <=> i = 3 + Len(p))
    OBVIOUS
  <2>1. CASE i \in 1..2
    <3>1. c[i] = N \/ c[i] = F
      BY <1>9, <1>10, <2>1
    <3>2. c[i].k # "beyond" /\ ~c[i].last
      BY <1>7, <3>1
    <3>3. i # 3 + Len(p)
      BY <1>1, <2>1
    <3> QED
      BY <3>2, <3>3
  <2>2. CASE i = 3
    <3>1. c[i] = S
      BY <1>9, <1>10, <2>2
    <3>2. q = <<>> <=> Len(p) = 0
      BY <1>5
    <3>3. c[i].k # "beyond" /\ c[i].last = (q = <<>>)
      BY <1>7, <3>1
    <3>4. i = 3 + Len(p) <=> Len(p) = 0
      BY <1>1, <2>2
    <3> QED
      BY <3>2, <3>3, <3>4
  <2>3. CASE i > 3
    <3>1. i - 3 \in 1..Len(p) /\ 3 + (i - 3) = i
      BY <1>1, <2>3
    <3>2. c[i] = q[i - 3]
      BY <1>10, <3>1
    <3> QED
      BY <1>1, <1>6, <2>3, <3>1, <3>2
  <2> QED
    BY <1>1, <2>1, <2>2, <2>3
<1>13. \A i \in 1..Len(x) : i > Len(w) => x[i].k # "beyond"
  <2> SUFFICES ASSUME NEW i \in 1..Len(x), i > Len(w) PROVE x[i].k # "beyond"
    OBVIOUS
  <2>1. i - Len(w) \in 1..(3 + Len(p)) /\ Len(w) + (i - Len(w)) = i
    BY <1>1, <1>3, <1>11 DEF x
  <2>2. x[i] = c[i - Len(w)]
    BY <1>11, <2>1 DEF x
  <2> QED
    BY <1>12, <2>1, <2>2
<1>14. PacketAt(x, Len(w), q)
  <2>1. x[Len(w) + 1] = N /\ x[Len(w) + 2] = F /\ x[Len(w) + 3] = S
    BY <1>1, <1>9, <1>10, <1>11 DEF x
  <2>2. \A j \in 1..Len(p) : x[Len(w) + HeaderSize + j] = q[j]
    <3> SUFFICES ASSUME NEW j \in 1..Len(p) PROVE x[Len(w) + HeaderSize + j] = q[j]
      OBVIOUS
    <3>1. Len(w) + HeaderSize + j = Len(w) + (3 + j) /\ 3 + j \in 1..(3 + Len(p))
      BY <1>1, <1>3 DEF HeaderSize
    <3> QED
      BY <1>10, <1>11, <3>1 DEF x
  <2>3. \A i \in 1..(HeaderSize + Len(p)) : x[Len(w) + i].last <=> i = HeaderSize + Len(p)
    BY <1>11, <1>12 DEF x, HeaderSize
  <2>4. Len(w) + HeaderSize + Len(p) <= Len(x)
    BY <1>1, <1>3, <1>11 DEF x, HeaderSize
  <2> QED
    BY <1>1, <1>2, <1>5, <1>7, <2>1, <2>2, <2>3, <2>4 DEF PacketAt
<1>15. Len(x) = Len(w) + HeaderSize + Len(q) /\ x \in Seq(Cell) /\ \A i \in 1..Len(w) : x[i] = w[i]
  BY <1>5, <1>11 DEF x, HeaderSize
<1> QED
  BY <1>1, <1>5, <1>13, <1>14, <1>15 DEF x, c, q

\* What a read of n bytes puts into the array and hands on.
LEMMA ReadFacts ==
    ASSUME TypeOK, NothingBeyond, NEW n \in 1..MaxLength, MayRead(n)
    PROVE  LET buf == Filled(data_, wire, pos, n)
           IN  /\ buf \in [1..MaxLength -> Cell] /\ buf \in Seq(Cell) /\ Len(buf) = MaxLength
               /\ \A i \in 1..MaxLength : buf[i].k # "beyond"
               /\ \A i \in 1..n : buf[i] = wire[pos + i]
               /\ Received(n) \in Seq(Cell) /\ Len(Received(n)) = n
               /\ \A i \in 1..n : Received(n)[i] = wire[pos + i]
<1> DEFINE buf == Filled(data_, wire, pos, n)
<1>1. /\ MaxLength \in Nat /\ n \in Nat /\ n <= MaxLength
      /\ pos \in Nat /\ Len(wire) \in Nat /\ pos + n <= Len(wire)
      /\ data_ \in [1..MaxLength -> Cell] /\ wire \in Seq(Cell)
  BY CoreProtoAssumption, LenProperties DEF TypeOK, MayRead
<1>2. \A i \in 1..n : pos + i \in 1..Len(wire)
  BY <1>1
<1>3. \A i \in 1..n : wire[pos + i] \in Cell /\ wire[pos + i].k # "beyond"
  BY <1>1, <1>2, ElementOfSeq DEF NothingBeyond
<1>4. \A i \in 1..MaxLength : buf[i] = IF i <= n THEN wire[pos + i] ELSE data_[i]
  BY DEF Filled
<1>5. \A i \in 1..MaxLength : buf[i] \in Cell /\ buf[i].k # "beyond"
  <2> SUFFICES ASSUME NEW i \in 1..MaxLength
               PROVE  buf[i] \in Cell /\ buf[i].k # "beyond"
    OBVIOUS
  <2>1. CASE i <= n
    <3>1. i \in 1..n
      BY <1>1, <2>1
    <3> QED
      BY <1>3, <1>4, <2>1, <3>1
  <2>2. CASE ~(i <= n)
    <3>1. buf[i] = data_[i]
      BY <1>4, <2>2
    <3> QED
      BY <1>1, <3>1 DEF NothingBeyond
  <2> QED
    BY <2>1, <2>2
<1>6. buf = [i \in 1..MaxLength |-> buf[i]]
  BY DEF Filled
<1>7. Received(n) = [i \in 1..n |-> buf[i]]
  BY DEF Received
<1>8. \A i \in 1..n : i \in 1..MaxLength /\ i <= n
  BY <1>1
<1> HIDE DEF buf
<1>9. buf \in [1..MaxLength -> Cell]
  BY <1>5, <1>6
<1>10. buf \in Seq(Cell) /\ Len(buf) = MaxLength
  BY <1>1, <1>9, FunctionIsSeq
<1>11. \A i \in 1..n : buf[i] = wire[pos + i] /\ Received(n)[i] = buf[i]
  BY <1>4, <1>7, <1>8
<1>12. Received(n) \in [1..n -> Cell]
  BY <1>5, <1>7, <1>8
<1>13. Received(n) \in Seq(Cell) /\ Len(Received(n)) = n
  BY <1>1, <1>12, FunctionIsSeq
<1> QED
  BY <1>5, <1>9, <1>10, <1>11, <1>13 DEF buf

\* fetchData, when the buffer holds what it is asked for.
LEMMA BytesFacts ==
    ASSUME NEW buf \in Seq(Cell), NEW count \in Nat, count + HeaderSize <= Len(buf),
           \A i \in 1..Len(buf) : buf[i].k # "beyond"
    PROVE  /\ Bytes(buf, count) \in Seq(Cell) /\ Len(Bytes(buf, count)) = count
           /\ \A i \in 1..count : /\ Bytes(buf, count)[i] = buf[HeaderSize + i]
                                  /\ Bytes(buf, count)[i].k # "beyond"
<1> DEFINE b == Bytes(buf, count)
<1>1. Len(buf) \in Nat
  BY LenProperties
<1>2. \A i \in 1..count : HeaderSize + i <= Len(buf) /\ HeaderSize + i \in 1..Len(buf)
  BY <1>1 DEF HeaderSize
<1>3. \A i \in 1..count : b[i] = buf[HeaderSize + i]
  BY <1>2 DEF Bytes
<1>4. \A i \in 1..count : b[i] \in Cell /\ b[i].k # "beyond"
  <2>1. \A i \in 1..count : buf[HeaderSize + i] \in Cell
    BY <1>2, ElementOfSeq
  <2> QED
    BY <1>2, <1>3, <2>1
<1>5. b = [i \in 1..count |-> b[i]]
  BY DEF Bytes
<1> HIDE DEF b
<1>6. b \in [1..count -> Cell]
  BY <1>4, <1>5
<1>7. b \in Seq(Cell) /\ Len(b) = count
  BY <1>6, FunctionIsSeq
<1> QED
  BY <1>3, <1>4, <1>7 DEF b

\* Either overload gives a sequence of bytes of the buffer.
LEMMA FetchFacts ==
    ASSUME NEW buf \in Seq(Cell), NEW count \in Nat, count + HeaderSize <= Len(buf),
           \A i \in 1..Len(buf) : buf[i].k # "beyond",
           NEW out, out \in {<<>>, Bytes(buf, count)}
    PROVE  out \in Seq(Cell) /\ \A j \in DOMAIN out : out[j].k # "beyond"
<1>1. CASE out = <<>>
  BY <1>1
<1>2. CASE out = Bytes(buf, count)
  <2>1. /\ out \in Seq(Cell) /\ Len(out) = count
        /\ \A i \in 1..count : out[i].k # "beyond"
    BY <1>2, BytesFacts
  <2>2. DOMAIN out = 1..Len(out)
    BY <2>1, LenProperties
  <2> QED
    BY <2>1, <2>2
<1> QED
  BY <1>1, <1>2

\* What it means to be the last bytes read.
LEMMA SuffixFacts ==
    ASSUME NEW w \in Seq(Cell), NEW b \in Seq(Cell), NEW at \in Nat,
           at <= Len(w), Len(b) <= at
    PROVE  b = SubSeq(w, at - Len(b) + 1, at)
             <=> \A i \in 1..Len(b) : b[i] = w[at - Len(b) + i]
<1> DEFINE m == at - Len(b) + 1
           t == SubSeq(w, m, at)
<1>1. Len(w) \in Nat /\ Len(b) \in Nat
  BY LenProperties
<1>2. m \in 1..(Len(w) + 1) /\ at \in (m - 1)..Len(w)
  BY <1>1
<1>3. t \in Seq(Cell) /\ Len(t) = at - m + 1 /\ \A i \in 1..(at - m + 1) : t[i] = w[m + i - 1]
  <2> HIDE DEF m
  <2> QED
    BY <1>1, <1>2, SubSeqProperties
<1>4. Len(t) = Len(b)
  BY <1>1, <1>3
<1>5. \A i \in 1..Len(b) : t[i] = w[at - Len(b) + i]
  <2> SUFFICES ASSUME NEW i \in 1..Len(b) PROVE t[i] = w[at - Len(b) + i]
    OBVIOUS
  <2>1. at - m + 1 = Len(b) /\ m + i - 1 = at - Len(b) + i
    BY <1>1
  <2> HIDE DEF t, m
  <2> QED
    BY <1>3, <2>1
<1> HIDE DEF t
<1>6. (\A i \in 1..Len(b) : b[i] = t[i]) => b = t
  BY <1>3, <1>4, SeqEqual
<1> QED
  BY <1>5, <1>6 DEF t

\* The cells of a packet of l bytes that ends within the stream are in it.
LEMMA WithinPacket ==
    ASSUME NEW at \in Nat, NEW l \in Nat, NEW end \in Nat, at + HeaderSize + l <= end
    PROVE  /\ \A i \in 1..(HeaderSize + l) : at + i \in 1..end
           /\ \A j \in 1..l : at + HeaderSize + j \in 1..end
BY DEF HeaderSize

-----------------------------------------------------------------------------
(* The invariant holds initially and every action preserves it.            *)

\* Nothing was sent, and data_ is not initialised.
LEMMA InitIInv == Init => IInv
<1> SUFFICES ASSUME Init PROVE IInv
  OBVIOUS
<1>1. /\ incBuffer_ = <<>> /\ open = TRUE /\ delivered = <<>> /\ wire = <<>>
      /\ pos = 0 /\ sent = <<>> /\ aligned = TRUE
  BY DEF Init
<1>2. data_ \in [1..MaxLength -> Cell] /\ \A i \in 1..MaxLength : data_[i].k # "beyond"
  <2> DEFINE F == [k |-> "F", v |-> 0, last |-> FALSE]
             S == [k |-> "size", v |-> 1, last |-> FALSE]
  <2>0. F \in Cell /\ F.k # "beyond" /\ S \in Cell /\ S.k # "beyond"
    BY DEF Cell
  <2> HIDE DEF F, S
  <2>1. PICK second \in {F, Other}, third \in {S, Other} :
          data_ = [i \in 1..MaxLength |-> CASE i = 2 -> second [] i = 3 -> third [] OTHER -> Other]
    BY DEF Init, Junk, F, S
  <2>2. second \in Cell /\ second.k # "beyond" /\ third \in Cell /\ third.k # "beyond"
        /\ Other \in Cell /\ Other.k # "beyond"
    <3>1. Other \in Cell /\ Other.k # "beyond"
      BY DEF Other, Cell
    <3> QED
      BY <2>0, <2>1, <3>1
  <2>3. \A i \in 1..MaxLength : data_[i] \in {second, third, Other}
    BY <2>1
  <2>4. \A i \in 1..MaxLength : data_[i] \in Cell /\ data_[i].k # "beyond"
    BY <2>2, <2>3
  <2>5. data_ = [i \in 1..MaxLength |-> data_[i]]
    BY <2>1
  <2> QED
    BY <2>4, <2>5
<1>3. Len(wire) = 0 /\ Len(incBuffer_) = 0 /\ Len(sent) = 0 /\ Len(delivered) = 0
  BY <1>1
<1>4. TypeOK
  <2>1. <<>> \in Seq(Cell) /\ <<>> \in Seq(Seq(Cell))
    OBVIOUS
  <2> QED
    BY <1>1, <1>2, <1>3, <2>1 DEF TypeOK
<1>5. NothingBeyond
  BY <1>2, <1>3 DEF NothingBeyond
<1>6. BufferIsRecentInput
  <2>1. <<>> = SubSeq(<<>>, 1, 0)
    BY SubSeqEmpty
  <2> QED
    BY <1>1, <1>3, <2>1 DEF BufferIsRecentInput, HeaderSize
<1>7. NoOverread
  BY <1>1 DEF NoOverread
<1>8. Framing
  <2> DEFINE e == [k \in 0..0 |-> 0]
  <2>1. e \in [0..Len(sent) -> Nat]
    BY <1>3
  <2>2. Layout(e, sent, wire)
    BY <1>3 DEF Layout
  <2>3. Consumed = 0
    <3>1. {j \in 1..pos : wire[j].last} = {}
      BY <1>1
    <3> QED
      BY <3>1, FS_EmptySet DEF Consumed
  <2>4. Progress(e, 0)
    BY <1>1, <1>3, <2>3 DEF Progress
  <2> QED
    BY <1>3, <2>1, <2>2, <2>4 DEF Framing
<1> QED
  BY <1>4, <1>5, <1>6, <1>7, <1>8 DEF IInv

\* Another packet is on the wire.
LEMMA SendIInv ==
    ASSUME IInv, NEW p \in Payloads, NEW claimed \in {Len(p)} \cup OversizeClaims,
           SendPacket(p, claimed)
    PROVE  IInv'
<1> DEFINE q == PayloadCells(p, Len(wire))
           m == Len(sent)
           b == Len(wire)
<1>1. /\ sent' = Append(sent, q)
      /\ wire' = wire \o CreatePacket(q, claimed)
      /\ UNCHANGED <<data_, incBuffer_, open, delivered, pos, aligned>>
  BY DEF SendPacket
<1>2. /\ wire \in Seq(Cell) /\ sent \in Seq(Seq(Cell)) /\ pos \in 0..b /\ incBuffer_ \in Seq(Cell)
      /\ TypeOK /\ NothingBeyond /\ BufferIsRecentInput /\ NoOverread /\ Framing
  BY DEF IInv, TypeOK
<1>3. /\ q \in Seq(Cell) /\ Len(q) \in Nat
      /\ wire' \in Seq(Cell) /\ Len(wire') = b + HeaderSize + Len(q)
      /\ \A i \in 1..b : wire'[i] = wire[i]
      /\ \A i \in 1..Len(wire') : i > b => wire'[i].k # "beyond"
      /\ PacketAt(wire', b, q)
  BY <1>1, <1>2, PacketFacts
<1> HIDE DEF q
<1>4. b \in Nat /\ pos \in Nat /\ pos <= b /\ b <= Len(wire') /\ Len(wire') \in Nat /\ m \in Nat
  <2>1. b \in Nat /\ m \in Nat /\ Len(wire') \in Nat
    BY <1>2, <1>3, LenProperties
  <2> QED
    BY <1>2, <1>3, <2>1 DEF HeaderSize
<1>5. /\ sent' \in Seq(Seq(Cell)) /\ Len(sent') = m + 1
      /\ \A i \in 1..m : sent'[i] = sent[i]
      /\ sent'[m + 1] = q
  BY <1>1, <1>2, <1>3, AppendProperties, AppendFacts
<1>6. TypeOK'
  <2>1. pos' \in 0..Len(wire')
    BY <1>1, <1>4
  <2> QED
    BY <1>1, <1>2, <1>3, <1>5, <2>1 DEF TypeOK
<1>7. NothingBeyond'
  <2>1. \A i \in 1..Len(wire') : i \in 1..b \/ i > b
    BY <1>4
  <2> QED
    BY <1>1, <1>2, <1>3, <2>1 DEF NothingBeyond
<1>8. BufferIsRecentInput'
  <2>1. Len(incBuffer_) \in Nat /\ Len(incBuffer_) <= pos
    BY <1>2, LenProperties DEF BufferIsRecentInput
  <2>2. \A i \in 1..Len(incBuffer_) : incBuffer_[i] = wire[pos - Len(incBuffer_) + i]
    BY <1>2, <1>4, <2>1, SuffixFacts DEF BufferIsRecentInput
  <2>3. \A i \in 1..Len(incBuffer_) : pos - Len(incBuffer_) + i \in 1..b
    BY <1>4, <2>1
  <2>4. \A i \in 1..Len(incBuffer_) : incBuffer_[i] = wire'[pos - Len(incBuffer_) + i]
    BY <1>3, <2>2, <2>3
  <2>5. pos <= Len(wire')
    BY <1>4
  <2>6. incBuffer_ = SubSeq(wire', pos - Len(incBuffer_) + 1, pos)
    BY <1>2, <1>3, <1>4, <2>1, <2>4, <2>5, SuffixFacts
  <2> QED
    BY <1>1, <1>2, <2>6 DEF BufferIsRecentInput, HasMagic
<1>9. NoOverread'
  BY <1>1, <1>2 DEF NoOverread
<1>10. Framing'
  <2>1. PICK e \in [0..m -> Nat] :
          /\ Layout(e, sent, wire)
          /\ aligned /\ NoOversize => \E k \in 0..m : Progress(e, k)
    BY <1>2 DEF Framing
  <2>2. \E g \in [0..(m + 1) -> Nat] : (\A k \in 0..m : g[k] = e[k]) /\ g[m + 1] = Len(wire')
    <3> DEFINE g == [k \in 0..(m + 1) |-> IF k <= m THEN e[k] ELSE Len(wire')]
    <3>1. g \in [0..(m + 1) -> Nat] /\ (\A k \in 0..m : g[k] = e[k]) /\ g[m + 1] = Len(wire')
      BY <1>4, <2>1
    <3> QED
      BY <3>1
  <2>3. PICK f \in [0..(m + 1) -> Nat] : (\A k \in 0..m : f[k] = e[k]) /\ f[m + 1] = Len(wire')
    BY <2>2
  <2>4. e[0] = 0 /\ e[m] = b /\ \A k \in 0..m : e[k] \in Nat
    BY <1>4, <2>1 DEF Layout
  <2>5. ASSUME NEW k \in 1..m
        PROVE  /\ f[k] = f[k - 1] + HeaderSize + Len(sent'[k])
               /\ PacketAt(wire', f[k - 1], sent'[k])
    <3>1. k \in 0..m /\ k - 1 \in 0..m
      BY <1>4
    <3>2. f[k] = e[k] /\ f[k - 1] = e[k - 1] /\ sent'[k] = sent[k] /\ e[k - 1] \in Nat
      BY <1>5, <2>3, <2>4, <3>1
    <3>3. e[k] = e[k - 1] + HeaderSize + Len(sent[k]) /\ PacketAt(wire, e[k - 1], sent[k])
      BY <2>1 DEF Layout
    <3>4. Len(sent[k]) \in Nat
      BY <1>2, ElementOfSeq, LenProperties
    <3>5. e[k - 1] + HeaderSize + Len(sent[k]) <= b
      BY <3>3 DEF PacketAt
    <3>6. \A i \in 1..(HeaderSize + Len(sent[k])) : wire'[e[k - 1] + i] = wire[e[k - 1] + i]
      <4>1. \A i \in 1..(HeaderSize + Len(sent[k])) : e[k - 1] + i \in 1..b
        BY <1>4, <3>2, <3>4, <3>5, WithinPacket
      <4> QED
        BY <1>3, <4>1
    <3>7. 1 \in 1..(HeaderSize + Len(sent[k])) /\ 2 \in 1..(HeaderSize + Len(sent[k]))
          /\ 3 \in 1..(HeaderSize + Len(sent[k]))
      BY <3>4 DEF HeaderSize
    <3>8. \A j \in 1..Len(sent[k]) : wire'[e[k - 1] + HeaderSize + j] = wire[e[k - 1] + HeaderSize + j]
      <4>1. \A j \in 1..Len(sent[k]) : e[k - 1] + HeaderSize + j \in 1..b
        BY <1>4, <3>2, <3>4, <3>5, WithinPacket
      <4> QED
        BY <1>3, <4>1
    <3>9. e[k - 1] + HeaderSize + Len(sent[k]) <= Len(wire')
      BY <1>4, <3>2, <3>4, <3>5 DEF HeaderSize
    <3>10. PacketAt(wire', e[k - 1], sent[k])
      BY <3>3, <3>6, <3>7, <3>8, <3>9 DEF PacketAt
    <3> QED
      BY <3>2, <3>3, <3>10
  <2>6. Layout(f, sent', wire')
    <3>1. f[m + 1] = f[m] + HeaderSize + Len(q) /\ f[m] = b
      BY <1>3, <1>4, <2>3, <2>4
    <3>2. \A k \in 1..(m + 1) : /\ f[k] = f[k - 1] + HeaderSize + Len(sent'[k])
                                /\ PacketAt(wire', f[k - 1], sent'[k])
      <4> SUFFICES ASSUME NEW k \in 1..(m + 1)
                   PROVE  /\ f[k] = f[k - 1] + HeaderSize + Len(sent'[k])
                          /\ PacketAt(wire', f[k - 1], sent'[k])
        OBVIOUS
      <4>1. CASE k \in 1..m
        BY <2>5, <4>1
      <4>2. CASE k = m + 1
        <5>1. k - 1 = m
          BY <1>4, <4>2
        <5> QED
          BY <1>3, <1>5, <3>1, <4>2, <5>1
      <4> QED
        BY <1>4, <4>1, <4>2
    <3>3. f[0] = 0
      BY <1>4, <2>3, <2>4
    <3> QED
      BY <1>5, <2>3, <3>2, <3>3 DEF Layout
  <2>7. ASSUME aligned', NoOversize'
        PROVE  \E k \in 0..(m + 1) : Progress(f, k)'
    <3>1. NoOversize
      <4>1. DOMAIN wire = 1..b /\ DOMAIN wire' = 1..Len(wire')
        BY <1>2, <1>3, LenProperties
      <4>2. \A i \in 1..b : i \in 1..Len(wire') /\ wire'[i] = wire[i]
        BY <1>3, <1>4
      <4> QED
        BY <2>7, <4>1, <4>2 DEF NoOversize
    <3>2. PICK k \in 0..m : Progress(e, k)
      BY <1>1, <2>1, <2>7, <3>1
    <3>3. Consumed' = Consumed
      <4>1. \A i \in 1..pos : wire'[i] = wire[i]
        BY <1>3, <1>4
      <4>2. {i \in 1..pos : wire'[i].last} = {i \in 1..pos : wire[i].last}
        BY <4>1
      <4> QED
        BY <1>1, <4>2 DEF Consumed
    <3>4. f[k] = e[k] /\ k \in Nat /\ k <= m /\ k \in 0..(m + 1)
      BY <1>4, <2>3
    <3>5. k < Len(sent') => pos < f[k + 1]
      <4>1. CASE k < m
        <5>1. k + 1 \in 0..m
          BY <1>4, <3>4, <4>1
        <5> QED
          BY <2>3, <3>2, <4>1, <5>1 DEF Progress
      <4>2. CASE k = m
        BY <1>3, <1>4, <2>3, <4>2 DEF HeaderSize
      <4> QED
        BY <1>4, <3>4, <4>1, <4>2
    <3>6. \A i \in 1..k : Fits(Len(sent'[i])) => delivered[i] = sent'[i]
      <4>1. \A i \in 1..k : i \in 1..m
        BY <1>4, <3>4
      <4> QED
        BY <1>5, <3>2, <4>1 DEF Progress
    <3>7. pos # f[k] => k < Len(sent') /\ pos >= f[k] + HeaderSize /\ ~Fits(Len(sent'[k + 1]))
      <4> SUFFICES ASSUME pos # f[k]
                   PROVE  k < Len(sent') /\ pos >= f[k] + HeaderSize /\ ~Fits(Len(sent'[k + 1]))
        OBVIOUS
      <4>1. k < m /\ pos >= e[k] + HeaderSize /\ ~Fits(Len(sent[k + 1]))
        BY <3>2, <3>4 DEF Progress
      <4>2. k + 1 \in 1..m
        BY <1>4, <3>4, <4>1
      <4>3. sent'[k + 1] = sent[k + 1] /\ k < Len(sent')
        BY <1>4, <1>5, <3>4, <4>1, <4>2
      <4> QED
        BY <3>4, <4>1, <4>3
    <3>8. f[k] <= pos /\ Consumed = k /\ Len(delivered) = k /\ Len(incBuffer_) = pos - f[k]
      BY <3>2, <3>4 DEF Progress
    <3>9. Progress(f, k)'
      BY <1>1, <3>3, <3>5, <3>6, <3>7, <3>8 DEF Progress, Fits
    <3> QED
      BY <3>4, <3>9
  <2> QED
    BY <1>5, <2>3, <2>6, <2>7 DEF Framing
<1> QED
  BY <1>6, <1>7, <1>8, <1>9, <1>10 DEF IInv

\* incBuffer_ and the bytes of a read together are a piece of the stream.
LEMMA ContinueFacts ==
    ASSUME TypeOK, NothingBeyond, BufferIsRecentInput,
           NEW n \in 1..MaxLength, MayRead(n)
    PROVE  LET t == incBuffer_ \o Received(n)
               l == Len(incBuffer_)
           IN  /\ t \in Seq(Cell) /\ l \in Nat /\ l <= pos /\ Len(t) = l + n
               /\ \A i \in 1..(l + n) : t[i] = wire[pos - l + i] /\ t[i].k # "beyond"
<1> DEFINE t == incBuffer_ \o Received(n)
           l == Len(incBuffer_)
           r == Received(n)
<1>1. incBuffer_ \in Seq(Cell) /\ wire \in Seq(Cell)
  BY DEF TypeOK
<1>2. r \in Seq(Cell) /\ Len(r) = n /\ \A i \in 1..n : r[i] = wire[pos + i]
  BY ReadFacts
<1>3. /\ l \in Nat /\ l <= pos /\ pos \in Nat /\ n \in Nat
      /\ Len(wire) \in Nat /\ pos + n <= Len(wire) /\ pos <= Len(wire)
  BY <1>1, LenProperties, CoreProtoAssumption DEF TypeOK, BufferIsRecentInput, MayRead
<1>4. \A i \in 1..l : incBuffer_[i] = wire[pos - l + i]
  BY <1>1, <1>3, SuffixFacts DEF BufferIsRecentInput
<1> HIDE DEF r
<1>5. /\ t \in Seq(Cell) /\ Len(t) = l + n
      /\ \A i \in 1..l : t[i] = incBuffer_[i]
      /\ \A j \in 1..n : t[l + j] = r[j]
  <2>1. /\ t \in Seq(Cell) /\ Len(t) = Len(incBuffer_) + Len(r)
        /\ \A i \in 1..Len(incBuffer_) : t[i] = incBuffer_[i]
        /\ \A j \in 1..Len(r) : t[Len(incBuffer_) + j] = r[j]
    <3>1. incBuffer_ \in Seq(Cell) /\ r \in Seq(Cell)
      BY <1>1, <1>2
    <3>2. t = incBuffer_ \o r
      BY DEF r
    <3> HIDE DEF t
    <3> QED
      BY <3>1, <3>2, ConcatFacts
  <2> QED
    BY <1>2, <2>1
<1> HIDE DEF t
<1>6. ASSUME NEW i \in 1..(l + n)
      PROVE  t[i] = wire[pos - l + i] /\ t[i].k # "beyond"
  <2>1. t[i] = wire[pos - l + i]
    <3>1. CASE i \in 1..l
      BY <1>4, <1>5, <3>1
    <3>2. CASE ~(i \in 1..l)
      <4>1. i - l \in 1..n /\ l + (i - l) = i /\ pos + (i - l) = pos - l + i
        BY <1>3, <3>2
      <4>2. t[l + (i - l)] = r[i - l] /\ r[i - l] = wire[pos + (i - l)]
        BY <1>2, <1>5, <4>1
      <4> QED
        BY <4>1, <4>2
    <3> QED
      BY <3>1, <3>2
  <2>2. pos - l + i \in 1..Len(wire)
    BY <1>3
  <2> QED
    BY <2>1, <2>2 DEF NothingBeyond
<1> QED
  BY <1>3, <1>5, <1>6 DEF t, r

\* A size that is taken from a buffer is a number.
LEMMA SizesAreNumbers ==
    ASSUME NEW buf \in Seq(Cell), Len(buf) >= HeaderSize, NEW s \in PkgSizes(buf)
    PROVE  s \in Nat
<1>1. Len(buf) \in Nat /\ 3 \in 1..Len(buf)
  BY LenProperties DEF HeaderSize
<1>2. buf[3] \in Cell
  BY <1>1, ElementOfSeq
<1>3. buf[3].v \in Nat
  BY <1>2 DEF Cell
<1> QED
  BY <1>3, CoreProtoAssumption DEF PkgSizes

\* What a read does to incBuffer_ and what it delivers, however the stream is
\* cut.
LEMMA ReadOutcome ==
    ASSUME TypeOK, NothingBeyond, BufferIsRecentInput,
           NEW n \in 1..MaxLength, ProcessRead(n)
    PROVE  /\ \/ incBuffer_' = <<>>
              \/ /\ incBuffer_' \in Seq(Cell) /\ Len(incBuffer_') <= pos + n
                 /\ \A i \in 1..Len(incBuffer_') :
                      incBuffer_'[i] = wire[pos + n - Len(incBuffer_') + i]
                 /\ Len(incBuffer_') >= HeaderSize /\ HasMagic(incBuffer_') =>
                      Len(incBuffer_') < MaxPacketSize + HeaderSize
           /\ \/ delivered' = delivered
              \/ \E out \in Seq(Cell) : /\ delivered' = Append(delivered, out)
                                        /\ \A j \in DOMAIN out : out[j].k # "beyond"
<1>1. /\ MaxLength \in Nat /\ MaxPacketSize \in Nat /\ HeaderSize < MaxLength /\ n \in Nat
      /\ n <= MaxLength /\ MaxLength < MaxPacketSize + HeaderSize /\ pos \in Nat
  <2>1. Len(wire) \in Nat /\ pos \in 0..Len(wire)
    BY LenProperties DEF TypeOK
  <2> QED
    BY <2>1, CoreProtoAssumption, SessionAssumption
<1>2. MayRead(n) /\ (FirstPart(n) \/ NextPart(n))
  BY DEF ProcessRead
<1>3. CASE FirstPart(n)
  <2> DEFINE buf == Filled(data_, wire, pos, n)
             r == Received(n)
  <2>1. /\ buf \in Seq(Cell) /\ Len(buf) = MaxLength
        /\ \A i \in 1..Len(buf) : buf[i].k # "beyond"
        /\ r \in Seq(Cell) /\ Len(r) = n
        /\ \A i \in 1..n : r[i] = wire[pos + i]
    BY <1>2, ReadFacts
  <2>2. PICK pkgSize \in PkgSizes(buf) :
          /\ incBuffer_ = <<>>
          /\ \/ /\ IsPacketCompleteArray(buf, pkgSize)
                /\ delivered' = Append(delivered, FetchDataArray(buf, pkgSize))
                /\ UNCHANGED incBuffer_
             \/ /\ ~IsPacketCompleteArray(buf, pkgSize)
                /\ IsPacketStart(buf)
                /\ incBuffer_' = r
                /\ UNCHANGED delivered
             \/ /\ ~IsPacketStart(buf)
                /\ UNCHANGED <<incBuffer_, delivered>>
    BY <1>3 DEF FirstPart
  <2> HIDE DEF buf, r
  <2>3. pkgSize \in Nat
    <3>1. Len(buf) >= HeaderSize
      BY <1>1, <2>1 DEF HeaderSize
    <3> QED
      BY <2>1, <3>1, SizesAreNumbers
  <2>4. CASE IsPacketCompleteArray(buf, pkgSize) /\ UNCHANGED incBuffer_
             /\ delivered' = Append(delivered, FetchDataArray(buf, pkgSize))
    <3> DEFINE out == FetchDataArray(buf, pkgSize)
    <3>1. out \in {<<>>, Bytes(buf, pkgSize)}
      BY DEF FetchDataArray
    <3>2. pkgSize + HeaderSize <= Len(buf)
      BY <2>1, <2>4 DEF IsPacketCompleteArray
    <3> HIDE DEF out
    <3>3. out \in Seq(Cell) /\ \A j \in DOMAIN out : out[j].k # "beyond"
      BY <2>1, <2>3, <3>1, <3>2, FetchFacts
    <3> QED
      BY <2>2, <2>4, <3>3 DEF out
  <2>5. CASE incBuffer_' = r /\ UNCHANGED delivered
    <3>1. \A i \in 1..n : pos + n - n + i = pos + i
      BY <1>1
    <3>2. n <= pos + n /\ n < MaxPacketSize + HeaderSize
      BY <1>1 DEF HeaderSize
    <3> QED
      BY <2>1, <2>5, <3>1, <3>2
  <2> QED
    BY <2>2, <2>4, <2>5
<1>4. CASE NextPart(n)
  <2> DEFINE buf == incBuffer_ \o Received(n)
             l == Len(incBuffer_)
             sizes == IF Len(buf) >= HeaderSize /\ HasMagic(buf) THEN PkgSizes(buf)
                      ELSE {0, MaxPacketSize + 1}
  <2>1. /\ buf \in Seq(Cell) /\ l \in Nat /\ l <= pos /\ Len(buf) = l + n
        /\ \A i \in 1..(l + n) : buf[i] = wire[pos - l + i] /\ buf[i].k # "beyond"
    BY <1>2, ContinueFacts
  <2>2. PICK pkgSize \in sizes :
          \/ /\ IsPacketCompleteVector(buf, pkgSize)
             /\ delivered' = Append(delivered, FetchDataVector(buf, pkgSize))
             /\ incBuffer_' = <<>>
          \/ /\ ~IsPacketCompleteVector(buf, pkgSize)
             /\ incBuffer_' = IF pkgSize > MaxPacketSize THEN <<>> ELSE buf
             /\ UNCHANGED delivered
    BY <1>4 DEF NextPart
  <2> HIDE DEF buf
  <2>3. pkgSize \in Nat
    <3>1. CASE Len(buf) >= HeaderSize /\ HasMagic(buf)
      BY <2>1, <3>1, SizesAreNumbers
    <3>2. CASE ~(Len(buf) >= HeaderSize /\ HasMagic(buf))
      BY <1>1, <3>2
    <3> QED
      BY <3>1, <3>2
  <2> HIDE DEF sizes, l
  <2>4. CASE IsPacketCompleteVector(buf, pkgSize) /\ incBuffer_' = <<>>
             /\ delivered' = Append(delivered, FetchDataVector(buf, pkgSize))
    <3> DEFINE out == FetchDataVector(buf, pkgSize)
    <3>1. out \in {<<>>, Bytes(buf, pkgSize)}
      BY DEF FetchDataVector
    <3>2. pkgSize + HeaderSize <= Len(buf) /\ \A i \in 1..Len(buf) : buf[i].k # "beyond"
      BY <2>1, <2>4 DEF IsPacketCompleteVector
    <3> HIDE DEF out
    <3>3. out \in Seq(Cell) /\ \A j \in DOMAIN out : out[j].k # "beyond"
      BY <2>1, <2>3, <3>1, <3>2, FetchFacts
    <3> QED
      BY <2>4, <3>3 DEF out
  <2>5. CASE ~IsPacketCompleteVector(buf, pkgSize) /\ incBuffer_' = buf
             /\ ~(pkgSize > MaxPacketSize) /\ UNCHANGED delivered
    <3>1. Len(buf) <= pos + n /\ \A i \in 1..Len(buf) : pos + n - Len(buf) + i = pos - l + i
      BY <1>1, <2>1
    <3>2. \A i \in 1..Len(buf) : buf[i] = wire[pos + n - Len(buf) + i]
      BY <2>1, <3>1
    <3>3. Len(buf) >= HeaderSize /\ HasMagic(buf) => Len(buf) < MaxPacketSize + HeaderSize
      <4>1. Len(buf) \in Nat /\ HeaderSize \in Nat
        BY <1>1, <2>1 DEF HeaderSize
      <4> QED
        BY <1>1, <2>3, <2>5, <4>1 DEF IsPacketCompleteVector
    <3> QED
      BY <2>1, <2>5, <3>1, <3>2, <3>3
  <2> QED
    BY <2>2, <2>4, <2>5
<1> QED
  BY <1>2, <1>3, <1>4

\* A read keeps everything but the framing, however the stream is cut.
LEMMA ReadBase ==
    ASSUME TypeOK, NothingBeyond, BufferIsRecentInput, NoOverread,
           NEW n \in 1..MaxLength, ProcessRead(n)
    PROVE  TypeOK' /\ NothingBeyond' /\ BufferIsRecentInput' /\ NoOverread'
<1>1. /\ MayRead(n) /\ data_' = Filled(data_, wire, pos, n) /\ pos' = pos + n
      /\ aligned' = (aligned /\ Aligned(n)) /\ UNCHANGED <<open, wire, sent>>
  BY DEF ProcessRead
<1>2. /\ data_' \in [1..MaxLength -> Cell]
      /\ \A i \in 1..MaxLength : data_'[i].k # "beyond"
  BY <1>1, ReadFacts
<1>3. /\ n \in Nat /\ pos \in Nat /\ Len(wire) \in Nat /\ pos + n <= Len(wire)
      /\ wire \in Seq(Cell) /\ delivered \in Seq(Seq(Cell))
  BY <1>1, CoreProtoAssumption, LenProperties DEF TypeOK, MayRead
<1>4. incBuffer_' \in Seq(Cell) /\ BufferIsRecentInput'
  <2>1. CASE incBuffer_' = <<>>
    <3>1. Len(incBuffer_') = 0 /\ incBuffer_' \in Seq(Cell)
      BY <2>1
    <3>2. \A i \in 1..Len(incBuffer_') : incBuffer_'[i] = wire[pos + n - Len(incBuffer_') + i]
      BY <3>1
    <3>3. incBuffer_' = SubSeq(wire, pos + n - Len(incBuffer_') + 1, pos + n)
      BY <1>3, <3>1, <3>2, SuffixFacts
    <3> QED
      BY <1>1, <1>3, <3>1, <3>3 DEF BufferIsRecentInput, HeaderSize
  <2>2. CASE incBuffer_' # <<>>
    <3>1. /\ incBuffer_' \in Seq(Cell) /\ Len(incBuffer_') <= pos + n
          /\ \A i \in 1..Len(incBuffer_') :
               incBuffer_'[i] = wire[pos + n - Len(incBuffer_') + i]
          /\ Len(incBuffer_') >= HeaderSize /\ HasMagic(incBuffer_') =>
               Len(incBuffer_') < MaxPacketSize + HeaderSize
      BY <2>2, ReadOutcome
    <3>3. Len(incBuffer_') <= pos' /\ incBuffer_' = SubSeq(wire', pos' - Len(incBuffer_') + 1, pos')
      <4>1. wire' = wire /\ pos' = pos + n
        BY <1>1
      <4>2. Len(incBuffer_') <= pos'
        BY <3>1, <4>1
      <4>3. \A i \in 1..Len(incBuffer_') : incBuffer_'[i] = wire'[pos' - Len(incBuffer_') + i]
        <5>1. Len(incBuffer_') \in Nat
          BY <3>1, LenProperties
        <5>2. \A i \in 1..Len(incBuffer_') : pos' - Len(incBuffer_') + i = pos + n - Len(incBuffer_') + i
          BY <1>3, <4>1, <5>1
        <5> QED
          BY <3>1, <4>1, <5>2
      <4>4. wire' \in Seq(Cell) /\ pos' \in Nat /\ pos' <= Len(wire')
        BY <1>3, <4>1
      <4>5. incBuffer_' = SubSeq(wire', pos' - Len(incBuffer_') + 1, pos')
        BY <3>1, <4>2, <4>3, <4>4, SuffixFacts
      <4> QED
        BY <4>2, <4>5
    <3>4. Len(incBuffer_') >= HeaderSize /\ HasMagic(incBuffer_') =>
            Len(incBuffer_') < MaxPacketSize + HeaderSize
      BY <3>1
    <3> QED
      BY <3>1, <3>3, <3>4, Zenon DEF BufferIsRecentInput
  <2> QED
    BY <2>1, <2>2
<1>5. delivered' \in Seq(Seq(Cell)) /\ NoOverread'
  <2>1. CASE delivered' = delivered
    BY <1>3, <2>1 DEF NoOverread
  <2>2. CASE delivered' # delivered
    <3>1. PICK out \in Seq(Cell) : /\ delivered' = Append(delivered, out)
                                   /\ \A j \in DOMAIN out : out[j].k # "beyond"
      BY <2>2, ReadOutcome
    <3>2. /\ delivered' \in Seq(Seq(Cell)) /\ Len(delivered) \in Nat
          /\ Len(delivered') = Len(delivered) + 1
          /\ \A i \in 1..Len(delivered) : delivered'[i] = delivered[i]
          /\ delivered'[Len(delivered) + 1] = out
      BY <1>3, <3>1, AppendProperties, AppendFacts
    <3>3. DOMAIN delivered = 1..Len(delivered) /\ DOMAIN delivered' = 1..Len(delivered')
      BY <1>3, <3>2, LenProperties
    <3>4. ASSUME NEW i \in DOMAIN delivered'
          PROVE  \A j \in DOMAIN delivered'[i] : delivered'[i][j].k # "beyond"
      <4>1. i \in 1..Len(delivered) \/ i = Len(delivered) + 1
        BY <3>2, <3>3
      <4> QED
        BY <3>1, <3>2, <3>3, <4>1 DEF NoOverread
    <3> QED
      BY <3>2, <3>4 DEF NoOverread
  <2> QED
    BY <2>1, <2>2
<1>6. aligned' \in BOOLEAN
  BY <1>1
<1>7. pos' \in 0..Len(wire')
  BY <1>1, <1>3
<1> QED
  BY <1>1, <1>2, <1>4, <1>5, <1>6, <1>7 DEF TypeOK, NothingBeyond

\* How many packets end in a longer piece of the stream.
LEMMA CountLast ==
    ASSUME NEW w, NEW at \in Nat, NEW n \in Nat, n >= 1,
           \A i \in 1..(n - 1) : ~w[at + i].last
    PROVE  /\ Cardinality({i \in 1..at : w[i].last}) \in Nat
           /\ Cardinality({i \in 1..(at + n) : w[i].last}) =
                IF w[at + n].last THEN Cardinality({i \in 1..at : w[i].last}) + 1
                ELSE Cardinality({i \in 1..at : w[i].last})
<1> DEFINE A == {i \in 1..at : w[i].last}
           B == {i \in 1..(at + n) : w[i].last}
<1>1. IsFiniteSet(1..at)
  BY FS_Interval
<1>2. IsFiniteSet(A) /\ Cardinality(A) \in Nat
  BY <1>1, FS_Subset, FS_CardinalityType
<1>3. ASSUME NEW i \in 1..(at + n), i # at + n, ~(i \in 1..at)
      PROVE  ~w[i].last
  <2>1. i - at \in 1..(n - 1) /\ at + (i - at) = i
    BY <1>3
  <2> QED
    BY <2>1
<1>4. \A i \in 1..at : i \in 1..(at + n) /\ i # at + n
  OBVIOUS
<1>5. at + n \in 1..(at + n)
  OBVIOUS
<1>6. CASE w[at + n].last
  <2>1. B = A \cup {at + n} /\ at + n \notin A
    BY <1>3, <1>4, <1>5, <1>6
  <2> HIDE DEF A, B
  <2>2. Cardinality(B) = Cardinality(A) + 1
    BY <1>2, <2>1, FS_AddElement
  <2> QED
    BY <1>2, <1>6, <2>2 DEF A, B
<1>7. CASE ~w[at + n].last
  <2>1. B = A
    BY <1>3, <1>4, <1>7
  <2> QED
    BY <1>2, <1>7, <2>1
<1> QED
  BY <1>6, <1>7

\* What the stream holds behind the first k packets.
LEMMA NextPacket ==
    ASSUME TypeOK, NEW e \in [0..Len(sent) -> Nat], Layout(e, sent, wire),
           NEW k \in 0..Len(sent), k < Len(sent)
    PROVE  LET l == Len(sent[k + 1])
           IN  /\ k + 1 \in 0..Len(sent) /\ l \in Nat /\ sent[k + 1] \in Seq(Cell)
               /\ e[k] \in Nat /\ e[k + 1] = e[k] + 3 + l /\ e[k + 1] <= Len(wire)
               /\ wire[e[k] + 1].k = "N" /\ wire[e[k] + 2].k = "F" /\ wire[e[k] + 3].k = "size"
               /\ NoOversize => wire[e[k] + 3].v = l
               /\ l <= MaxPacketSize
               /\ \A j \in 1..l : wire[e[k] + 3 + j] = sent[k + 1][j]
               /\ \A i \in 1..(3 + l) : wire[e[k] + i].last <=> i = 3 + l
<1> DEFINE l == Len(sent[k + 1])
<1>1. sent \in Seq(Seq(Cell)) /\ wire \in Seq(Cell)
  BY DEF TypeOK
<1>2. Len(sent) \in Nat /\ Len(wire) \in Nat
  BY <1>1, LenProperties
<1>3. k + 1 \in 1..Len(sent) /\ k + 1 \in 0..Len(sent) /\ (k + 1) - 1 = k
  BY <1>2
<1>4. sent[k + 1] \in Seq(Cell)
  BY <1>1, <1>3, ElementOfSeq
<1>5. l \in Nat /\ e[k] \in Nat
  BY <1>4, LenProperties
<1>6. e[k + 1] = e[k] + HeaderSize + l /\ PacketAt(wire, e[k], sent[k + 1])
  BY <1>3 DEF Layout
<1>7. e[k] + 3 + l <= Len(wire)
  BY <1>6 DEF PacketAt, HeaderSize
<1>8. NoOversize => wire[e[k] + 3].v = l
  <2>1. e[k] + 3 \in 1..Len(wire)
    BY <1>2, <1>5, <1>7
  <2>2. e[k] + 3 \in DOMAIN wire /\ wire[e[k] + 3] \in Cell
    BY <1>1, <2>1, LenProperties, ElementOfSeq
  <2>3. wire[e[k] + 3].v \in Nat
    BY <2>2 DEF Cell
  <2>4. /\ wire[e[k] + 3].k = "size"
        /\ wire[e[k] + 3].v = l \/ wire[e[k] + 3].v > MaxPacketSize
    BY <1>6 DEF PacketAt
  <2>5. NoOversize => wire[e[k] + 3].v <= MaxPacketSize
    BY <2>2, <2>4 DEF NoOversize
  <2> QED
    BY <2>3, <2>4, <2>5, CoreProtoAssumption
<1>9. l <= MaxPacketSize
  BY <1>6 DEF PacketAt
<1>10. /\ wire[e[k] + 1].k = "N" /\ wire[e[k] + 2].k = "F" /\ wire[e[k] + 3].k = "size"
       /\ \A j \in 1..l : wire[e[k] + 3 + j] = sent[k + 1][j]
       /\ \A i \in 1..(3 + l) : wire[e[k] + i].last <=> i = 3 + l
  BY <1>6 DEF PacketAt, HeaderSize
<1> QED
  BY <1>3, <1>4, <1>5, <1>6, <1>7, <1>8, <1>9, <1>10 DEF HeaderSize

\* The end of a packet is where the next one begins.
LEMMA EndIsBoundary ==
    ASSUME TypeOK, NEW e \in [0..Len(sent) -> Nat], Layout(e, sent, wire),
           NEW k \in 0..Len(sent), pos = e[k]
    PROVE  AtBoundary
<1>1. CASE k = 0
  BY <1>1 DEF AtBoundary, Layout
<1>2. CASE k # 0
  <2>1. Len(sent) \in Nat
    BY LenProperties DEF TypeOK
  <2>2. k - 1 \in 0..Len(sent) /\ k - 1 < Len(sent) /\ (k - 1) + 1 = k
    BY <1>2, <2>1
  <2> DEFINE l == Len(sent[k])
  <2>3. /\ l \in Nat /\ e[k - 1] \in Nat /\ e[k] = e[k - 1] + 3 + l
        /\ \A i \in 1..(3 + l) : wire[e[k - 1] + i].last <=> i = 3 + l
    <3> DEFINE j == k - 1
    <3>1. j \in 0..Len(sent) /\ j < Len(sent) /\ j + 1 = k
      BY <2>2
    <3> HIDE DEF j
    <3>2. /\ Len(sent[j + 1]) \in Nat /\ e[j] \in Nat /\ e[j + 1] = e[j] + 3 + Len(sent[j + 1])
          /\ \A i \in 1..(3 + Len(sent[j + 1])) : wire[e[j] + i].last <=> i = 3 + Len(sent[j + 1])
      BY <3>1, NextPacket
    <3> QED
      BY <3>1, <3>2 DEF j
  <2> HIDE DEF l
  <2>4. 3 + l \in 1..(3 + l)
    BY <2>3
  <2>5. wire[e[k - 1] + (3 + l)].last
    BY <2>3, <2>4
  <2>6. e[k - 1] + (3 + l) = e[k - 1] + 3 + l
    BY <2>3
  <2>7. wire[pos].last
    BY <2>3, <2>5, <2>6
  <2> QED
    BY <2>7 DEF AtBoundary
<1> QED
  BY <1>1, <1>2

\* An aligned read ends in the packet in which it begins, and it begins in
\* one: at the end of the stream there is nothing to read.
LEMMA AlignedRead ==
    ASSUME TypeOK, NEW e \in [0..Len(sent) -> Nat], Layout(e, sent, wire),
           NEW k \in 0..Len(sent), Progress(e, k),
           NEW n \in 1..MaxLength, MayRead(n), Aligned(n),
           pos' = pos + n, UNCHANGED <<wire, sent>>
    PROVE  /\ k < Len(sent) /\ pos + n <= e[k + 1]
           /\ Consumed' = IF pos + n = e[k + 1] THEN k + 1 ELSE k
<1>1. /\ n \in Nat /\ n >= 1 /\ pos \in Nat /\ Len(sent) \in Nat /\ Len(wire) \in Nat
      /\ pos + n <= Len(wire) /\ pos >= e[k] /\ e[k] \in Nat
  <2>1. Len(wire) \in Nat /\ Len(sent) \in Nat
    BY LenProperties DEF TypeOK
  <2>2. pos \in Nat /\ n \in Nat /\ n >= 1
    BY <2>1, CoreProtoAssumption DEF TypeOK
  <2>3. pos + n <= Len(wire) /\ e[k] <= pos
    BY DEF MayRead, Progress
  <2>4. e[k] \in Nat
    OBVIOUS
  <2> QED
    BY <2>1, <2>2, <2>3, <2>4
<1>2. k < Len(sent)
  <2>1. k = Len(sent) => pos >= Len(wire)
    BY <1>1 DEF Layout
  <2> QED
    BY <1>1, <2>1
<1> DEFINE l == Len(sent[k + 1])
<1>3. /\ l \in Nat /\ e[k + 1] = e[k] + 3 + l
      /\ \A i \in 1..(3 + l) : wire[e[k] + i].last <=> i = 3 + l
  BY <1>2, NextPacket
<1> HIDE DEF l
<1>4. pos < e[k + 1]
  BY <1>2 DEF Progress
<1>5. \A i \in 1..(n - 1) : ~wire[pos + i].last
  BY DEF Aligned
<1>6. pos + n <= e[k + 1]
  <2> SUFFICES ASSUME pos + n > e[k + 1] PROVE FALSE
    BY <1>1, <1>3
  <2>1. e[k + 1] - pos \in 1..(n - 1) /\ pos + (e[k + 1] - pos) = e[k] + (3 + l)
    BY <1>1, <1>3, <1>4
  <2>2. 3 + l \in 1..(3 + l)
    BY <1>3
  <2>3. wire[e[k] + (3 + l)].last
    BY <1>3, <2>2
  <2> QED
    BY <1>5, <2>1, <2>3
<1>7. wire[pos + n].last <=> pos + n = e[k + 1]
  <2>1. pos + n - e[k] \in 1..(3 + l) /\ e[k] + (pos + n - e[k]) = pos + n
    BY <1>1, <1>3, <1>6
  <2>2. wire[pos + n].last <=> pos + n - e[k] = 3 + l
    BY <1>3, <2>1
  <2> QED
    BY <1>1, <1>3, <2>2
<1>8. Consumed = k
  BY DEF Progress
<1>9. Consumed' = Cardinality({i \in 1..(pos + n) : wire[i].last})
  BY DEF Consumed
<1>10. Consumed' = IF wire[pos + n].last THEN Consumed + 1 ELSE Consumed
  BY <1>1, <1>5, <1>9, CountLast DEF Consumed
<1> QED
  BY <1>2, <1>6, <1>7, <1>8, <1>10

\* A read that takes the rest of a packet and delivers it is in step.
LEMMA PacketDone ==
    ASSUME TypeOK, NEW e \in [0..Len(sent) -> Nat], Layout(e, sent, wire),
           NEW k \in 0..Len(sent), k < Len(sent), Progress(e, k),
           NEW out, delivered' = Append(delivered, out),
           Fits(Len(sent[k + 1])) => out = sent[k + 1],
           pos' = e[k + 1], Consumed' = k + 1, incBuffer_' = <<>>, UNCHANGED sent
    PROVE  k + 1 \in 0..Len(sent) /\ Progress(e, k + 1)'
<1>1. Len(sent) \in Nat /\ k + 1 \in 0..Len(sent) /\ e[k + 1] \in Nat
  <2>1. Len(sent) \in Nat
    BY LenProperties DEF TypeOK
  <2>2. k + 1 \in 0..Len(sent)
    BY <2>1
  <2> QED
    BY <2>1, <2>2
<1>2. delivered \in Seq(Seq(Cell))
  BY DEF TypeOK
<1>3. Len(delivered) = k /\ \A i \in 1..k : Fits(Len(sent[i])) => delivered[i] = sent[i]
  BY DEF Progress
<1>4. /\ Len(delivered') = k + 1 /\ delivered'[k + 1] = out
      /\ \A i \in 1..k : delivered'[i] = delivered[i]
  BY <1>2, <1>3, AppendFacts
<1>5. \A i \in 1..(k + 1) : Fits(Len(sent[i])) => delivered'[i] = sent[i]
  <2> SUFFICES ASSUME NEW i \in 1..(k + 1), Fits(Len(sent[i])) PROVE delivered'[i] = sent[i]
    OBVIOUS
  <2>1. CASE i \in 1..k
    BY <1>3, <1>4, <2>1
  <2>2. CASE i = k + 1
    BY <1>4, <2>2
  <2>3. i \in 1..k \/ i = k + 1
    BY <1>1
  <2> QED
    BY <2>1, <2>2, <2>3
<1>6. k + 1 < Len(sent) => e[k + 1] < e[(k + 1) + 1]
  <2> SUFFICES ASSUME k + 1 < Len(sent) PROVE e[k + 1] < e[(k + 1) + 1]
    OBVIOUS
  <2>1. /\ Len(sent[(k + 1) + 1]) \in Nat /\ e[k + 1] \in Nat
        /\ e[(k + 1) + 1] = e[k + 1] + 3 + Len(sent[(k + 1) + 1])
    BY <1>1, NextPacket
  <2> QED
    BY <2>1
<1>7. Len(incBuffer_') = pos' - e[k + 1] /\ e[k + 1] <= pos'
  <2>1. Len(incBuffer_') = 0
    OBVIOUS
  <2> QED
    BY <1>1, <2>1
<1>8. /\ k + 1 < Len(sent') => pos' < e[(k + 1) + 1]
      /\ \A i \in 1..(k + 1) : Fits(Len(sent'[i])) => delivered'[i] = sent'[i]
  BY <1>5, <1>6
<1>9. Progress(e, k + 1)'
  BY <1>4, <1>7, <1>8 DEF Progress, Fits
<1> QED
  BY <1>1, <1>9

\* A read that takes a further part of a large packet is in step.
LEMMA PacketGoesOn ==
    ASSUME TypeOK, NEW e \in [0..Len(sent) -> Nat],
           NEW k \in 0..Len(sent), k < Len(sent), Progress(e, k),
           ~Fits(Len(sent[k + 1])), UNCHANGED <<delivered, sent>>,
           pos' >= e[k] + HeaderSize, pos' < e[k + 1], Consumed' = k,
           Len(incBuffer_') = pos' - e[k], pos' \in Nat
    PROVE  Progress(e, k)'
<1>1. e[k] \in Nat
  OBVIOUS
<1>2. e[k] <= pos'
  BY <1>1 DEF HeaderSize
<1>3. Len(delivered) = k /\ \A i \in 1..k : Fits(Len(sent[i])) => delivered[i] = sent[i]
  BY DEF Progress
<1>4. Len(delivered') = k /\ \A i \in 1..k : Fits(Len(sent'[i])) => delivered'[i] = sent'[i]
  BY <1>3
<1>5. k < Len(sent') /\ ~Fits(Len(sent'[k + 1]))
  OBVIOUS
<1> QED
  BY <1>2, <1>4, <1>5 DEF Progress, Fits

\* An aligned read at the beginning of a packet: a packet that fits into
\* data_ is delivered, the beginning of a larger one goes into incBuffer_.
LEMMA ReadBeginning ==
    ASSUME TypeOK, NothingBeyond, NoOversize,
           NEW e \in [0..Len(sent) -> Nat], Layout(e, sent, wire),
           NEW k \in 0..Len(sent), Progress(e, k), pos = e[k],
           NEW n \in 1..MaxLength, ProcessRead(n), Aligned(n)
    PROVE  \E j \in 0..Len(sent) : Progress(e, j)'
<1>1. /\ MayRead(n) /\ pos' = pos + n /\ UNCHANGED <<open, wire, sent>>
      /\ FirstPart(n) \/ NextPart(n)
  BY DEF ProcessRead
<1>2. /\ k < Len(sent) /\ pos + n <= e[k + 1]
      /\ Consumed' = IF pos + n = e[k + 1] THEN k + 1 ELSE k
  BY <1>1, AlignedRead
<1> DEFINE p == sent[k + 1]
           l == Len(sent[k + 1])
           buf == Filled(data_, wire, pos, n)
           r == Received(n)
<1>3. /\ l \in Nat /\ p \in Seq(Cell) /\ pos \in Nat /\ e[k + 1] = pos + 3 + l
      /\ wire[pos + 1].k = "N" /\ wire[pos + 2].k = "F" /\ wire[pos + 3].k = "size"
      /\ wire[pos + 3].v = l /\ l <= MaxPacketSize
      /\ \A j \in 1..l : wire[pos + 3 + j] = p[j]
      /\ \A i \in 1..(3 + l) : wire[pos + i].last <=> i = 3 + l
  <2>1. /\ l \in Nat /\ p \in Seq(Cell) /\ e[k] \in Nat /\ e[k + 1] = e[k] + 3 + l
        /\ wire[e[k] + 1].k = "N" /\ wire[e[k] + 2].k = "F" /\ wire[e[k] + 3].k = "size"
        /\ wire[e[k] + 3].v = l /\ l <= MaxPacketSize
        /\ \A j \in 1..l : wire[e[k] + 3 + j] = p[j]
        /\ \A i \in 1..(3 + l) : wire[e[k] + i].last <=> i = 3 + l
    BY <1>2, NextPacket
  <2> HIDE DEF l, p
  <2> QED
    BY <2>1
<1>4. /\ buf \in Seq(Cell) /\ Len(buf) = MaxLength
      /\ \A i \in 1..Len(buf) : buf[i].k # "beyond"
      /\ \A i \in 1..n : buf[i] = wire[pos + i]
      /\ r \in Seq(Cell) /\ Len(r) = n
  BY <1>1, ReadFacts
<1>5. MaxLength \in Nat /\ MaxPacketSize \in Nat /\ n \in Nat /\ n <= MaxLength
  BY CoreProtoAssumption
<1>6. n >= 3 /\ (Fits(l) => wire[pos + n].last)
  <2>1. AtBoundary
    BY EndIsBoundary
  <2> QED
    BY <1>3, <2>1 DEF Aligned, HeaderSize
<1>7. incBuffer_ = <<>>
  <2>1. incBuffer_ \in Seq(Cell) /\ Len(incBuffer_) = pos - e[k]
    BY DEF TypeOK, Progress
  <2>2. Len(incBuffer_) = 0
    BY <1>3, <2>1
  <2> QED
    BY <2>1, <2>2, EmptySeq
<1>8. PICK pkgSize \in PkgSizes(buf) :
        \/ /\ IsPacketCompleteArray(buf, pkgSize)
           /\ delivered' = Append(delivered, FetchDataArray(buf, pkgSize))
           /\ UNCHANGED incBuffer_
        \/ /\ ~IsPacketCompleteArray(buf, pkgSize)
           /\ IsPacketStart(buf)
           /\ incBuffer_' = r
           /\ UNCHANGED delivered
        \/ /\ ~IsPacketStart(buf)
           /\ UNCHANGED <<incBuffer_, delivered>>
  <2>1. FirstPart(n)
    BY <1>1, <1>7 DEF NextPart
  <2> QED
    BY <2>1 DEF FirstPart
<1> HIDE DEF p, l, buf, r
<1>9. /\ buf[1] = wire[pos + 1] /\ buf[2] = wire[pos + 2] /\ buf[3] = wire[pos + 3]
      /\ HasMagic(buf) /\ pkgSize = l
  <2>1. 1 \in 1..n /\ 2 \in 1..n /\ 3 \in 1..n
    BY <1>5, <1>6
  <2>2. buf[1] = wire[pos + 1] /\ buf[2] = wire[pos + 2] /\ buf[3] = wire[pos + 3]
    BY <1>4, <2>1
  <2>3. PkgSizes(buf) = {l}
    BY <1>3, <2>2 DEF PkgSizes
  <2> QED
    BY <1>3, <2>2, <2>3 DEF HasMagic
<1>10. CASE Fits(l)
  <2>1. n = 3 + l
    <3>1. n \in 1..(3 + l)
      BY <1>2, <1>3, <1>5, <1>6
    <3> QED
      BY <1>3, <1>6, <1>10, <3>1
  <2>2. l + HeaderSize <= MaxLength
    BY <1>10 DEF Fits
  <2>3. delivered' = Append(delivered, FetchDataArray(buf, l)) /\ incBuffer_' = <<>>
    BY <1>3, <1>7, <1>8, <1>9, <2>2 DEF IsPacketCompleteArray, IsPacketStart
  <2> DEFINE out == FetchDataArray(buf, l)
  <2>4. out = Bytes(buf, l)
    BY <1>3, <1>5, <2>2 DEF FetchDataArray, HeaderSize
  <2> HIDE DEF out
  <2>5. out \in Seq(Cell) /\ Len(out) = l /\ \A i \in 1..l : out[i] = buf[HeaderSize + i]
    BY <1>3, <1>4, <2>2, <2>4, BytesFacts
  <2>6. \A i \in 1..l : out[i] = p[i]
    <3> SUFFICES ASSUME NEW i \in 1..l PROVE out[i] = p[i]
      OBVIOUS
    <3>1. HeaderSize + i \in 1..n /\ pos + (HeaderSize + i) = pos + 3 + i
      BY <1>3, <1>5, <2>1 DEF HeaderSize
    <3>2. out[i] = wire[pos + (HeaderSize + i)]
      BY <1>4, <2>5, <3>1
    <3> QED
      BY <1>3, <3>1, <3>2
  <2>7. out = p
    <3>1. Len(p) = l
      BY DEF p, l
    <3> QED
      BY <1>3, <2>5, <2>6, <3>1, SeqEqual
  <2>8. pos' = e[k + 1] /\ Consumed' = k + 1
    BY <1>1, <1>2, <1>3, <2>1
  <2>9. k + 1 \in 0..Len(sent) /\ Progress(e, k + 1)'
    BY <1>1, <1>2, <2>3, <2>7, <2>8, PacketDone DEF out, p
  <2> QED
    BY <2>9
<1>11. CASE ~Fits(l)
  <2>1. incBuffer_' = r /\ UNCHANGED delivered
    BY <1>8, <1>9, <1>11 DEF IsPacketCompleteArray, IsPacketStart, Fits
  <2>2. ~(l + 3 <= MaxLength)
    BY <1>11 DEF Fits, HeaderSize
  <2>3. pos' < e[k + 1] /\ pos' >= e[k] + HeaderSize /\ pos' \in Nat
        /\ Len(incBuffer_') = pos' - e[k] /\ Consumed' = k
    <3>1. pos' = pos + n /\ Len(incBuffer_') = n
      BY <1>1, <1>4, <2>1
    <3>2. pos + n < e[k + 1]
      BY <1>3, <1>5, <2>2
    <3>3. Consumed' = k
      BY <1>2, <1>3, <1>5, <3>2
    <3> QED
      BY <1>3, <1>5, <1>6, <3>1, <3>2, <3>3 DEF HeaderSize
  <2>4. Progress(e, k)'
    BY <1>1, <1>2, <1>11, <2>1, <2>3, PacketGoesOn DEF l
  <2> QED
    BY <2>4
<1> QED
  BY <1>10, <1>11

\* An aligned read inside a packet that is too large for data_: incBuffer_
\* grows until the packet is complete.
LEMMA ReadFurther ==
    ASSUME TypeOK, NothingBeyond, BufferIsRecentInput, NoOversize,
           NEW e \in [0..Len(sent) -> Nat], Layout(e, sent, wire),
           NEW k \in 0..Len(sent), Progress(e, k), pos # e[k],
           NEW n \in 1..MaxLength, ProcessRead(n), Aligned(n)
    PROVE  \E j \in 0..Len(sent) : Progress(e, j)'
<1>1. /\ MayRead(n) /\ pos' = pos + n /\ UNCHANGED <<open, wire, sent>>
      /\ FirstPart(n) \/ NextPart(n)
  BY DEF ProcessRead
<1>2. /\ k < Len(sent) /\ pos + n <= e[k + 1]
      /\ Consumed' = IF pos + n = e[k + 1] THEN k + 1 ELSE k
  BY <1>1, AlignedRead
<1> DEFINE l == Len(sent[k + 1])
           c == Len(incBuffer_)
           buf == incBuffer_ \o Received(n)
<1>3. /\ l \in Nat /\ e[k] \in Nat /\ e[k + 1] = e[k] + 3 + l
      /\ wire[e[k] + 1].k = "N" /\ wire[e[k] + 2].k = "F" /\ wire[e[k] + 3].k = "size"
      /\ wire[e[k] + 3].v = l /\ l <= MaxPacketSize
  BY <1>2, NextPacket
<1>4. /\ c \in Nat /\ c <= pos /\ Len(buf) = c + n
      /\ \A i \in 1..(c + n) : buf[i] = wire[pos - c + i]
  BY <1>1, ContinueFacts
<1>5. ~Fits(l) /\ pos >= e[k] + HeaderSize /\ c = pos - e[k]
  BY DEF Progress
<1>6. n \in Nat /\ n >= 1 /\ pos \in Nat /\ MaxPacketSize \in Nat
  <2>1. Len(wire) \in Nat
    BY LenProperties DEF TypeOK
  <2> QED
    BY <2>1, CoreProtoAssumption DEF TypeOK
<1>7. c >= 3 /\ Len(buf) = pos + n - e[k] /\ pos - c = e[k] /\ Len(buf) \in Nat /\ Len(buf) >= 3
  <2> DEFINE a == e[k]
             d == Len(buf)
  <2>1. a \in Nat /\ c \in Nat /\ d = c + n /\ pos >= a + 3 /\ c = pos - a /\ n \in Nat /\ pos \in Nat
    BY <1>3, <1>4, <1>5, <1>6 DEF HeaderSize
  <2> HIDE DEF a, c, d
  <2>2. c >= 3 /\ d = pos + n - a /\ pos - c = a /\ d \in Nat /\ d >= 3
    BY <2>1
  <2> QED
    BY <2>2 DEF a, d
<1>8. incBuffer_ # <<>>
  BY <1>7
<1>9. PICK pkgSize \in (IF Len(buf) >= HeaderSize /\ HasMagic(buf) THEN PkgSizes(buf)
                        ELSE {0, MaxPacketSize + 1}) :
        \/ /\ IsPacketCompleteVector(buf, pkgSize)
           /\ delivered' = Append(delivered, FetchDataVector(buf, pkgSize))
           /\ incBuffer_' = <<>>
        \/ /\ ~IsPacketCompleteVector(buf, pkgSize)
           /\ incBuffer_' = IF pkgSize > MaxPacketSize THEN <<>> ELSE buf
           /\ UNCHANGED delivered
  <2>1. NextPart(n)
    BY <1>1, <1>8 DEF FirstPart
  <2> QED
    BY <2>1 DEF NextPart
<1> HIDE DEF buf, c, l
<1>10. HasMagic(buf) /\ pkgSize = l
  <2>1. 1 \in 1..(c + n) /\ 2 \in 1..(c + n) /\ 3 \in 1..(c + n)
    BY <1>4, <1>6, <1>7
  <2>2. buf[1] = wire[e[k] + 1] /\ buf[2] = wire[e[k] + 2] /\ buf[3] = wire[e[k] + 3]
    BY <1>4, <1>7, <2>1
  <2>3. HasMagic(buf)
    BY <1>3, <2>2 DEF HasMagic
  <2>4. PkgSizes(buf) = {l}
    BY <1>3, <2>2 DEF PkgSizes
  <2> QED
    BY <1>7, <1>9, <2>3, <2>4 DEF HeaderSize
<1>11. IsPacketCompleteVector(buf, l) <=> pos + n = e[k + 1]
  <2>1. IsPacketCompleteVector(buf, l) <=> l + 3 <= Len(buf)
    BY <1>3, <1>7, <1>10 DEF IsPacketCompleteVector, HeaderSize
  <2> DEFINE a == e[k]
             b == e[k + 1]
             d == Len(buf)
  <2>2. a \in Nat /\ b = a + 3 + l /\ d = pos + n - a /\ pos + n <= b /\ l \in Nat /\ n \in Nat /\ pos \in Nat
    BY <1>2, <1>3, <1>6, <1>7
  <2> HIDE DEF a, b, d
  <2>3. l + 3 <= d <=> pos + n = b
    BY <2>2
  <2> QED
    BY <2>1, <2>3 DEF b, d
<1>12. CASE pos + n = e[k + 1]
  <2>1. delivered' = Append(delivered, FetchDataVector(buf, l)) /\ incBuffer_' = <<>>
    BY <1>9, <1>10, <1>11, <1>12
  <2>2. pos' = e[k + 1] /\ Consumed' = k + 1
    BY <1>1, <1>2, <1>12
  <2>3. k + 1 \in 0..Len(sent) /\ Progress(e, k + 1)'
    BY <1>1, <1>2, <1>5, <2>1, <2>2, PacketDone DEF l
  <2> QED
    BY <2>3
<1>13. CASE pos + n # e[k + 1]
  <2>1. incBuffer_' = buf /\ UNCHANGED delivered
    <3>1. ~(l > MaxPacketSize)
      BY <1>3, <1>6
    <3> QED
      BY <1>9, <1>10, <1>11, <1>13, <3>1
  <2>2. pos' < e[k + 1] /\ pos' >= e[k] + HeaderSize /\ pos' \in Nat
        /\ Len(incBuffer_') = pos' - e[k] /\ Consumed' = k
    <3>1. pos' = pos + n /\ Len(incBuffer_') = Len(buf)
      BY <1>1, <2>1
    <3>2. Len(incBuffer_') = pos' - e[k] /\ Consumed' = k
      <4>1. Consumed' = k
        BY <1>2, <1>13
      <4>2. Len(incBuffer_') = pos' - e[k]
        <5>1. pos' - e[k] = pos + n - e[k]
          BY <1>3, <1>6, <3>1
        <5>2. Len(incBuffer_') = pos + n - e[k]
          BY <1>7, <3>1, Zenon
        <5> QED
          BY <5>1, <5>2, Zenon
      <4> QED
        BY <4>1, <4>2
    <3> DEFINE a == e[k]
               b == e[k + 1]
    <3>3. a \in Nat /\ b = a + 3 + l /\ pos + n <= b /\ pos + n # b /\ pos >= a + 3
          /\ l \in Nat /\ n \in Nat /\ pos \in Nat
      BY <1>2, <1>3, <1>5, <1>6, <1>13 DEF HeaderSize
    <3> HIDE DEF a, b
    <3>4. pos + n < b /\ pos + n >= a + HeaderSize /\ pos + n \in Nat
      BY <3>3 DEF HeaderSize
    <3> QED
      BY <3>1, <3>2, <3>4 DEF a, b
  <2>3. Progress(e, k)'
    BY <1>1, <1>2, <1>5, <2>1, <2>2, PacketGoesOn DEF l
  <2> QED
    BY <2>3
<1> QED
  BY <1>12, <1>13

\* A read keeps the framing.
LEMMA ReadIInv ==
    ASSUME IInv, NEW n \in 1..MaxLength, ProcessRead(n)
    PROVE  IInv'
<1>1. TypeOK /\ NothingBeyond /\ BufferIsRecentInput /\ NoOverread /\ Framing
  BY DEF IInv
<1>2. TypeOK' /\ NothingBeyond' /\ BufferIsRecentInput' /\ NoOverread'
  BY <1>1, ReadBase
<1>3. aligned' = (aligned /\ Aligned(n)) /\ wire' = wire /\ sent' = sent
  BY DEF ProcessRead
<1>4. Framing'
  <2>1. PICK e \in [0..Len(sent) -> Nat] :
          /\ Layout(e, sent, wire)
          /\ aligned /\ NoOversize => \E k \in 0..Len(sent) : Progress(e, k)
    BY <1>1 DEF Framing
  <2>2. ASSUME aligned', NoOversize'
        PROVE  \E j \in 0..Len(sent) : Progress(e, j)'
    <3>1. aligned /\ Aligned(n)
      BY <1>3, <2>2
    <3>2. NoOversize
      BY <1>3, <2>2 DEF NoOversize
    <3>3. PICK k \in 0..Len(sent) : Progress(e, k)
      BY <2>1, <3>1, <3>2
    <3>4. CASE pos = e[k]
      BY <1>1, <2>1, <3>1, <3>2, <3>3, <3>4, ReadBeginning
    <3>5. CASE pos # e[k]
      BY <1>1, <2>1, <3>1, <3>2, <3>3, <3>5, ReadFurther
    <3> QED
      BY <3>4, <3>5
  <2>3. Layout(e, sent', wire')
    BY <1>3, <2>1
  <2>4. e \in [0..Len(sent') -> Nat] /\ (aligned' /\ NoOversize' => \E j \in 0..Len(sent') : Progress(e, j)')
    BY <1>3, <2>2
  <2> QED
    BY <2>3, <2>4 DEF Framing
<1> QED
  BY <1>2, <1>4 DEF IInv

\* The session deletes itself.
LEMMA ErrorIInv ==
    ASSUME IInv, ProcessReadError
    PROVE  IInv'
<1>1. open' \in BOOLEAN /\ UNCHANGED <<data_, incBuffer_, delivered, wire, pos, sent, aligned>>
  BY DEF ProcessReadError
<1>2. TypeOK'
  BY <1>1 DEF IInv, TypeOK
<1>3. NothingBeyond' /\ BufferIsRecentInput' /\ NoOverread'
  BY <1>1 DEF IInv, NothingBeyond, BufferIsRecentInput, NoOverread
<1>4. Framing'
  BY <1>1 DEF IInv, Framing, Progress, Consumed, NoOversize
<1> QED
  BY <1>2, <1>3, <1>4 DEF IInv

\* Every step keeps the invariant.
LEMMA NextIInv == IInv /\ [Next]_vars => IInv'
<1> SUFFICES ASSUME IInv, [Next]_vars PROVE IInv'
  OBVIOUS
<1>1. CASE \E p \in Payloads : SendPacket(p, Len(p))
  BY <1>1, SendIInv
<1>2. CASE \E p \in Payloads, s \in OversizeClaims : SendPacket(p, s)
  BY <1>2, SendIInv
<1>3. CASE \E n \in 1..MaxLength : ProcessRead(n)
  BY <1>3, ReadIInv
<1>4. CASE ProcessReadError
  BY <1>4, ErrorIInv
<1>5. CASE UNCHANGED vars
  <2>1. UNCHANGED <<data_, incBuffer_, open, delivered, wire, pos, sent, aligned>>
    BY <1>5 DEF vars
  <2>2. TypeOK'
    BY <2>1 DEF IInv, TypeOK
  <2>3. NothingBeyond' /\ BufferIsRecentInput' /\ NoOverread'
    BY <2>1 DEF IInv, NothingBeyond, BufferIsRecentInput, NoOverread
  <2>4. Framing'
    BY <2>1 DEF IInv, Framing, Progress, Consumed, NoOversize
  <2> QED
    BY <2>2, <2>3, <2>4 DEF IInv
<1> QED
  BY <1>1, <1>2, <1>3, <1>4, <1>5 DEF Next

\* The invariant holds in every reachable state.
LEMMA Invariance == Spec => []IInv
BY InitIInv, NextIInv, PTL DEF Spec

-----------------------------------------------------------------------------
(* The theorems.                                                           *)

\* Every variable of the session keeps its type, however the stream is cut.
THEOREM TypeCorrect == Spec => []TypeOK
<1>1. IInv => TypeOK
  BY DEF IInv
<1> QED
  BY <1>1, Invariance, PTL

\* processRead keeps in incBuffer_ what was read last and nothing that was
\* left in data_ before, and never as much as the largest packet once a
\* header is there (netbase.cpp:66, 71-79), however the stream is cut.
THEOREM BufferIsFresh == Spec => []BufferIsRecentInput
<1>1. IInv => BufferIsRecentInput
  BY DEF IInv
<1> QED
  BY <1>1, Invariance, PTL

\* fetchData never returns bytes from behind the buffer (coreproto.h:49-73),
\* because isPacketComplete is asked first, however the stream is cut.
THEOREM DeliveriesAreWithinBuffers == Spec => []NoOverread
<1>1. IInv => NoOverread
  BY DEF IInv
<1> QED
  BY <1>1, Invariance, PTL

\* When the reads are aligned with the packets, processRead stays in step
\* with the stream: one delivery for each packet, intact if the packet fits
\* into data_, and nothing left over (netbase.cpp:57-90).
THEOREM StaysInStep == Spec => []FramingInStep
<1>1. IInv => FramingInStep
  <2> SUFFICES ASSUME IInv, aligned, AtBoundary, NoOversize
               PROVE  /\ incBuffer_ = <<>>
                      /\ Len(delivered) = Consumed
                      /\ \A i \in 1..Consumed : Fits(Len(sent[i])) => delivered[i] = sent[i]
    BY DEF FramingInStep
  <2>1. TypeOK /\ Framing
    BY DEF IInv
  <2>2. PICK e \in [0..Len(sent) -> Nat] : Layout(e, sent, wire) /\ \E k \in 0..Len(sent) : Progress(e, k)
    BY <2>1 DEF Framing
  <2>3. PICK k \in 0..Len(sent) : Progress(e, k)
    BY <2>2
  <2>4. pos = e[k]
    <3> SUFFICES ASSUME pos # e[k] PROVE FALSE
      OBVIOUS
    <3>1. k < Len(sent) /\ pos >= e[k] + HeaderSize /\ pos < e[k + 1]
      BY <2>3 DEF Progress
    <3> DEFINE l == Len(sent[k + 1])
    <3>2. /\ l \in Nat /\ e[k] \in Nat /\ e[k + 1] = e[k] + 3 + l
          /\ \A i \in 1..(3 + l) : wire[e[k] + i].last <=> i = 3 + l
      BY <2>1, <2>2, <3>1, NextPacket
    <3> HIDE DEF l
    <3>3. pos \in Nat
      <4>1. Len(wire) \in Nat
        BY <2>1, LenProperties DEF TypeOK
      <4> QED
        BY <2>1, <4>1 DEF TypeOK
    <3> DEFINE a == e[k]
               b == e[k + 1]
    <3>4. a \in Nat /\ b = a + 3 + l /\ pos >= a + 3 /\ pos < b
      BY <3>1, <3>2 DEF HeaderSize
    <3> HIDE DEF a, b
    <3>5. pos # 0 /\ pos - a \in 1..(3 + l) /\ pos - a # 3 + l /\ a + (pos - a) = pos
      BY <3>2, <3>3, <3>4
    <3>6. ~wire[pos].last
      BY <3>2, <3>5 DEF a
    <3> QED
      BY <3>5, <3>6 DEF AtBoundary
  <2>5. Consumed = k /\ Len(delivered) = k /\ Len(incBuffer_) = 0
        /\ \A i \in 1..k : Fits(Len(sent[i])) => delivered[i] = sent[i]
    <3>1. Len(incBuffer_) = pos - e[k] /\ e[k] \in Nat
      BY <2>2, <2>3 DEF Progress
    <3>2. Len(incBuffer_) = 0
      BY <2>4, <3>1
    <3> QED
      BY <2>3, <3>2 DEF Progress
  <2>6. incBuffer_ = <<>>
    BY <2>1, <2>5, EmptySeq DEF TypeOK
  <2> QED
    BY <2>5, <2>6
<1> QED
  BY <1>1, Invariance, PTL
=============================================================================
