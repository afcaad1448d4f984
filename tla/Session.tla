------------------------------- MODULE Session -------------------------------
(***************************************************************************)
(* lib/netbase.cpp, the receiving side of SessionImpl.  data_ keeps what   *)
(* earlier reads left behind the bytes of the last one.                    *)
(*                                                                         *)
(* The environment is the peer, which sends packets, and the network,      *)
(* which decides how much of the stream one async_read_some returns.       *)
(***************************************************************************)
EXTENDS CoreProto, FiniteSets

CONSTANTS Payloads,       \* payloads of packets: sequences of "N", "F", "x"
          OversizeClaims, \* sizes that a packet may claim beyond its payload
          MaxPackets      \* bound on the packets sent

ASSUME SessionAssumption ==
    /\ MaxLength < MaxPacketSize + HeaderSize
    /\ \A p \in Payloads : p \in Seq({"N", "F", "x"}) /\ Len(p) <= MaxPacketSize
    /\ \A s \in OversizeClaims : s \in Nat /\ s > MaxPacketSize
    /\ MaxPackets \in Nat

VARIABLES data_,       \* the array a read fills from its start
          incBuffer_,  \* the beginning of a packet that is not complete
          open,        \* the session exists
          delivered,   \* what handlePacket was given, in order
          wire,        \* the bytes the peer sent
          pos,         \* how many of them have been read
          sent,        \* the payloads of the packets in wire
          aligned      \* all reads so far were aligned with the packets

vars == <<data_, incBuffer_, open, delivered, wire, pos, sent, aligned>>

TypeOK ==
    /\ data_ \in [1..MaxLength -> Cell]
    /\ incBuffer_ \in Seq(Cell)
    /\ open \in BOOLEAN
    /\ delivered \in Seq(Seq(Cell))
    /\ wire \in Seq(Cell)
    /\ pos \in 0..Len(wire)
    /\ sent \in Seq(Seq(Cell))
    /\ aligned \in BOOLEAN

Init ==
    /\ data_ \in Junk
    /\ incBuffer_ = <<>>
    /\ open = TRUE
    /\ delivered = <<>>
    /\ wire = <<>>
    /\ pos = 0
    /\ sent = <<>>
    /\ aligned = TRUE

-----------------------------------------------------------------------------
(* The peer and the network.                                               *)

SendPacket(p, claimed) ==
    /\ Len(sent) < MaxPackets
    /\ sent' = Append(sent, PayloadCells(p, Len(wire)))
    /\ wire' = wire \o CreatePacket(PayloadCells(p, Len(wire)), claimed)
    /\ UNCHANGED <<data_, incBuffer_, open, delivered, pos, aligned>>

\* The next read starts at the beginning of a packet.
AtBoundary == pos = 0 \/ wire[pos].last

\* An aligned read stays within one packet, returns the header in one piece,
\* and the whole packet if data_ can hold it.  A peer that waits between its
\* packets and a network that does not split small segments behave like that.
Aligned(n) ==
    /\ \A i \in 1..(n - 1) : ~wire[pos + i].last
    /\ AtBoundary => /\ n >= HeaderSize
                     /\ Fits(wire[pos + HeaderSize].v) => wire[pos + n].last

MayRead(n) ==
    /\ open
    /\ n <= MaxLength
    /\ pos + n <= Len(wire)

-----------------------------------------------------------------------------
(* SessionImpl::processRead                                                *)

\* Mutant of Received: everything in data_ counts as received.
Received_All(n) == [i \in 1..MaxLength |-> Filled(data_, wire, pos, n)[i]]

\* The range that is inserted into incBuffer_.
Received(n) == [i \in 1..n |-> Filled(data_, wire, pos, n)[i]]

\* incBuffer_ is empty: data_ holds a packet, the start of one, or nothing.
FirstPart(n) ==
    LET buf == Filled(data_, wire, pos, n)
    IN  /\ incBuffer_ = <<>>
        /\ \E pkgSize \in PkgSizes(buf) :
             \/ /\ IsPacketCompleteArray(buf, pkgSize)
                /\ delivered' = Append(delivered, FetchDataArray(buf, pkgSize))
                /\ UNCHANGED incBuffer_
             \/ /\ ~IsPacketCompleteArray(buf, pkgSize)
                /\ IsPacketStart(buf)
                /\ incBuffer_' = Received(n)
                /\ UNCHANGED delivered
             \/ /\ ~IsPacketStart(buf)
                /\ UNCHANGED <<incBuffer_, delivered>>

\* Mutant of NextPart: incBuffer_ is not cleared after a packet.
NextPart_NoClear(n) ==
    /\ incBuffer_ # <<>>
    /\ incBuffer_' = incBuffer_ \o Received(n)
    /\ delivered' = IF IsPacketCompleteVector(incBuffer_', incBuffer_'[3].v)
                    THEN Append(delivered, <<>>) ELSE delivered

\* incBuffer_ holds the start of a packet.  Without a complete header pkgSize
\* is compared although nothing was stored in it.
NextPart(n) ==
    LET buf == incBuffer_ \o Received(n)
        sizes == IF Len(buf) >= HeaderSize /\ HasMagic(buf) THEN PkgSizes(buf)
                 ELSE {0, MaxPacketSize + 1}
    IN  /\ incBuffer_ # <<>>
        /\ \E pkgSize \in sizes :
             \/ /\ IsPacketCompleteVector(buf, pkgSize)
                /\ delivered' = Append(delivered, FetchDataVector(buf, pkgSize))
                /\ incBuffer_' = <<>>
             \/ /\ ~IsPacketCompleteVector(buf, pkgSize)
                /\ incBuffer_' = IF pkgSize > MaxPacketSize THEN <<>> ELSE buf
                /\ UNCHANGED delivered

\* A read of n bytes completes and the next one is started.
ProcessRead(n) ==
    /\ MayRead(n)
    /\ data_' = Filled(data_, wire, pos, n)
    /\ pos' = pos + n
    /\ aligned' = (aligned /\ Aligned(n))
    /\ FirstPart(n) \/ NextPart(n)
    /\ UNCHANGED <<open, wire, sent>>

\* The read fails: the session deletes itself.
ProcessReadError ==
    /\ open
    /\ open' = FALSE
    /\ UNCHANGED <<data_, incBuffer_, delivered, wire, pos, sent, aligned>>

Next ==
    \/ \E p \in Payloads : SendPacket(p, Len(p))
    \/ \E p \in Payloads, s \in OversizeClaims : SendPacket(p, s)
    \/ \E n \in 1..MaxLength : ProcessRead(n)
    \/ ProcessReadError

Spec == Init /\ [][Next]_vars

-----------------------------------------------------------------------------
(* Properties.                                                             *)

\* The packets that have been read to their end.
Consumed == Cardinality({i \in 1..pos : wire[i].last})

\* No packet claims more than the maximum.
NoOversize == \A i \in DOMAIN wire : wire[i].k = "size" => wire[i].v <= MaxPacketSize

\* With aligned reads the session stays in step with the stream: at the end
\* of every packet nothing is left over for the next one, there was one
\* delivery for each packet, and every packet that fits into data_ was
\* delivered intact, whatever was in data_ before (netbase.cpp:57-90).
FramingInStep ==
    aligned /\ AtBoundary /\ NoOversize =>
        /\ incBuffer_ = <<>>
        /\ Len(delivered) = Consumed
        /\ \A i \in 1..Consumed : Fits(Len(sent[i])) => delivered[i] = sent[i]

\* However the stream is cut, incBuffer_ holds exactly the bytes read last,
\* never what an earlier read left in data_; and as long as it begins with a
\* header, less than the largest packet (netbase.cpp:66, 71-79).
BufferIsRecentInput ==
    /\ Len(incBuffer_) <= pos
    /\ incBuffer_ = SubSeq(wire, pos - Len(incBuffer_) + 1, pos)
    /\ Len(incBuffer_) >= HeaderSize /\ HasMagic(incBuffer_) =>
           Len(incBuffer_) < MaxPacketSize + HeaderSize

\* However the stream is cut, no delivery takes bytes from behind the buffer,
\* although the bound that fetchData tests is too large by two headers
\* (coreproto.h:49-73).
NoOverread ==
    \A i \in DOMAIN delivered :
        \A j \in DOMAIN delivered[i] : delivered[i][j].k # "beyond"

\* coreproto.h:13, "maxPacketSize = 0x3FFFFFFF; // 1GB": packets up to that
\* size are received, so every packet read to its end is delivered intact.
AllSizesDelivered ==
    aligned /\ AtBoundary => \A i \in 1..Consumed : delivered[i] = sent[i]
=============================================================================
