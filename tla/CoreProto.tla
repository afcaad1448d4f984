------------------------------ MODULE CoreProto ------------------------------
(***************************************************************************)
(* lib/coreproto.h, the packet format: "NF", the size of the payload in 32 *)
(* bits, the payload.                                                      *)
(*                                                                         *)
(* A stream is a sequence of cells.  A cell is a byte, except that the     *)
(* four bytes of the size are one cell: a read does not split a size.      *)
(***************************************************************************)
EXTENDS Naturals, Sequences, SequencesExt

CONSTANTS MaxLength,     \* the size of the array that a read fills
          MaxPacketSize  \* coreproto::maxPacketSize (0x3FFFFFFF)

HeaderSize == 3  \* 'N', 'F' and the size

ASSUME CoreProtoAssumption ==
    /\ MaxLength \in Nat /\ HeaderSize < MaxLength
    /\ MaxPacketSize \in Nat

\* A cell knows its value and whether it ends a packet.
Cell == [k : {"N", "F", "x", "size", "beyond"}, v : Nat, last : BOOLEAN]

Other == [k |-> "x", v |-> 0, last |-> FALSE]

\* An array that is not initialised.  The first cell is always written by a
\* read; the next two may happen to look like the rest of a header.
Junk == {[i \in 1..MaxLength |-> CASE i = 2 -> second [] i = 3 -> third [] OTHER -> Other] :
           second \in {[k |-> "F", v |-> 0, last |-> FALSE], Other},
           third \in {[k |-> "size", v |-> 1, last |-> FALSE], Other}}

\* The payload as cells that are told apart by their place in the stream, of
\* which at cells are there already.
PayloadCells(p, at) ==
    [i \in 1..Len(p) |-> [k |-> p[i], v |-> at + HeaderSize + i,
                          last |-> i = Len(p)]]

\* createPacket; claimed is the size in the header.
CreatePacket(payload, claimed) ==
    <<[k |-> "N", v |-> 0, last |-> FALSE],
      [k |-> "F", v |-> 0, last |-> FALSE],
      [k |-> "size", v |-> claimed, last |-> payload = <<>>]>> \o payload

HasMagic(buf) == buf[1].k = "N" /\ buf[2].k = "F"

IsPacketStart(buf) == HasMagic(buf)

\* ntohl of the four bytes after the magic.  Payload bytes in this place can
\* make any size; those above the maximum are all alike.
PkgSizes(buf) == IF buf[3].k = "size" THEN {buf[3].v} ELSE 0..(MaxPacketSize + 1)

\* Mutant of IsPacketCompleteArray: the header is not counted.
IsPacketCompleteArray_NoHeader(buf, pkgSize) ==
    HasMagic(buf) /\ pkgSize <= MaxPacketSize /\ pkgSize <= MaxLength

\* The overload for arrays: all of the array counts, whatever was read.
IsPacketCompleteArray(buf, pkgSize) ==
    HasMagic(buf) /\ pkgSize <= MaxPacketSize /\ pkgSize + HeaderSize <= MaxLength

IsPacketCompleteVector(buf, pkgSize) ==
    /\ Len(buf) >= HeaderSize
    /\ HasMagic(buf)
    /\ pkgSize <= MaxPacketSize
    /\ pkgSize + HeaderSize <= Len(buf)

\* The bytes after the header; memory behind the buffer is "beyond".
Bytes(buf, count) ==
    [i \in 1..count |-> IF HeaderSize + i <= Len(buf) THEN buf[HeaderSize + i]
                        ELSE [k |-> "beyond", v |-> 0, last |-> FALSE]]

FetchDataArray(buf, count) ==
    IF count > MaxLength + HeaderSize THEN <<>> ELSE Bytes(buf, count)

FetchDataVector(buf, count) ==
    IF HeaderSize < Len(buf) \/ count > Len(buf) + HeaderSize THEN <<>>
    ELSE Bytes(buf, count)

Fits(size) == size + HeaderSize <= MaxLength

\* Mutant of Filled: the read is given a larger size than the array has.
Filled_TooLong(array, stream, at, n) ==
    [i \in 1..(MaxLength + 1) |-> IF i <= n \/ i > MaxLength THEN stream[at + n]
                                  ELSE array[i]]

\* What a read of n bytes at a place of the stream leaves in the array: what
\* earlier reads left behind them stays.
Filled(array, stream, at, n) ==
    [i \in 1..MaxLength |-> IF i <= n THEN stream[at + i] ELSE array[i]]
=============================================================================
