------------------------------ MODULE ClientNet ------------------------------
(***************************************************************************)
(* lib/clientnet.cpp: a client that connects, and then sends a request and *)
(* blocks in one read_some for the reply, again and again.                 *)
(*                                                                         *)
(* The environment is a server that answers the requests in order, and     *)
(* that may send what it wrote once more (NetBase does, netbase.cpp:109),  *)
(* and a network that cuts the stream of replies and may break.            *)
(***************************************************************************)
EXTENDS CoreProto

CONSTANTS Payloads,  \* payloads of replies: sequences of "N", "F", "x"
          MaxSends   \* bound: calls of send

ASSUME ClientNetAssumption ==
    /\ \A p \in Payloads : p \in Seq({"N", "F", "x"}) /\ Len(p) <= MaxPacketSize
    /\ MaxSends \in Nat

VARIABLES client,    \* new, idle, in send(), or ended by an exception
          reply_,    \* the array that read_some fills
          requests,  \* how many requests were sent
          results,   \* what send() returned, in order
          wire,      \* the bytes that the server sent
          packets,   \* the payloads in them
          pos,       \* how many of them were read
          broken,    \* the connection is lost
          repeated,  \* the server has sent something twice
          whole      \* every read so far returned one packet and all of it

vars == <<client, reply_, requests, results, wire, packets, pos, broken, repeated, whole>>

Init ==
    /\ client = "new"
    /\ reply_ \in Junk
    /\ requests = 0 /\ results = <<>>
    /\ wire = <<>> /\ packets = <<>> /\ pos = 0
    /\ broken = FALSE /\ repeated = FALSE /\ whole = TRUE

-----------------------------------------------------------------------------
(* The client                                                              *)

\* Resolving, connecting and the handshake block; each may throw.  The
\* certificate of the server is not verified.
Connect ==
    /\ client = "new"
    /\ client' \in {"idle", "exception"}
    /\ UNCHANGED <<reply_, requests, results, wire, packets, pos, broken, repeated, whole>>

\* The first part of send: the result of the write is not looked at.
Write ==
    /\ client = "idle"
    /\ requests < MaxSends
    /\ requests' = requests + 1
    /\ client' = "sending"
    /\ UNCHANGED <<reply_, results, wire, packets, pos, broken, repeated, whole>>

\* A read of n bytes is one packet, from its beginning to its end.
Whole(n) ==
    /\ pos = 0 \/ wire[pos].last
    /\ wire[pos + n].last
    /\ \A i \in 1..(n - 1) : ~wire[pos + i].last

\* Mutant of ReadReply: the size is taken from the read.
ReadReply_BytesRead(n) ==
    /\ client = "sending"
    /\ pos + n <= Len(wire)
    /\ reply_' = Filled(reply_, wire, pos, n)
    /\ pos' = pos + n
    /\ whole' = (whole /\ Whole(n))
    /\ results' = Append(results, FetchDataArray(reply_', n))
    /\ client' = "idle"
    /\ UNCHANGED <<requests, wire, packets, broken, repeated>>

\* The second part: one read, however much it returns.  What it does not
\* return stays for the next send; what does not look like a packet is "".
ReadReply(n) ==
    /\ client = "sending"
    /\ pos + n <= Len(wire)
    /\ reply_' = Filled(reply_, wire, pos, n)
    /\ pos' = pos + n
    /\ whole' = (whole /\ Whole(n))
    /\ \E pkgSize \in PkgSizes(reply_') :
         results' = Append(results, IF IsPacketCompleteArray(reply_', pkgSize)
                                    THEN FetchDataArray(reply_', pkgSize) ELSE <<>>)
    /\ client' = "idle"
    /\ UNCHANGED <<requests, wire, packets, broken, repeated>>

\* read_some throws at the end of the stream of a lost connection.
ReadThrows ==
    /\ client = "sending"
    /\ broken /\ pos = Len(wire)
    /\ client' = "exception"
    /\ UNCHANGED <<reply_, requests, results, wire, packets, pos, broken, repeated, whole>>

-----------------------------------------------------------------------------
(* The server and the network                                              *)

ServerSends(payload) ==
    /\ ~broken
    /\ packets' = Append(packets, payload)
    /\ wire' = wire \o CreatePacket(payload, Len(payload))
    /\ UNCHANGED <<client, reply_, requests, results, pos, broken, whole>>

ServerReplies(p) ==
    /\ Len(packets) < IF repeated THEN requests + 1 ELSE requests
    /\ ServerSends(PayloadCells(p, Len(wire)))
    /\ UNCHANGED repeated

\* Once is enough to get out of step.
ServerRepeats ==
    /\ packets # <<>> /\ ~repeated
    /\ ServerSends(Last(packets))
    /\ repeated' = TRUE

ConnectionBreaks ==
    /\ client # "new" /\ ~broken
    /\ broken' = TRUE
    /\ UNCHANGED <<client, reply_, requests, results, wire, packets, pos, repeated, whole>>

Next ==
    \/ Connect
    \/ Write
    \/ \E n \in 1..MaxLength : ReadReply(n)
    \/ ReadThrows
    \/ \E p \in Payloads : ServerReplies(p)
    \/ ServerRepeats
    \/ ConnectionBreaks

Spec == Init /\ [][Next]_vars

-----------------------------------------------------------------------------
(* Properties.                                                             *)

\* As long as every read returns one whole packet, send() returns what the
\* server sent, in order, whatever is left in reply_ of longer replies; and if
\* the server sends every reply once, the result is the reply to this request,
\* and between two calls nothing is left to be read (clientnet.cpp:79-90).
RepliesMatchRequests ==
    whole =>
        /\ \A i \in DOMAIN results : results[i] = packets[i]
        /\ ~repeated /\ client = "idle" => Len(results) = requests /\ pos = Len(wire)
=============================================================================
