------------------------------ MODULE Framing ------------------------------
(***************************************************************************)
(* How one accepted connection takes packets off its byte stream: the      *)
(* PROXY header when the listener expects one (proxy_protocol_tcp.rs), the *)
(* handshake (handshake.rs), the frames a status or a login reads, and raw *)
(* reads of the relay, all but the first through the buffer that carries   *)
(* unread bytes from one reader to the next (buffered_stream.rs).  The     *)
(* network cuts the stream wherever it likes.                              *)
(*                                                                         *)
(* A byte is a number below 256.  A PROXY signature is told by its first   *)
(* byte, and the family of a v1 line by its seventh.                       *)
(***************************************************************************)
EXTENDS Packets, SequencesExt

CONSTANTS Scripts,       \* what a peer may send: [header, wire, hs, frames]
          Preface,       \* bytes of a PROXY header read before its kind is known
          V1Limit,       \* longest v1 line
          MaxHandshake,  \* MAX_HANDSHAKE_FRAME_BYTES
          MaxBuffered,   \* unread bytes a handshake may not exceed
          MaxPacket,     \* MAX_PACKET_BYTES
          MaxPing,       \* longest ping frame
          Chunk,         \* bytes one read takes from the socket
          None

VARIABLES
    script,   \* the peer's, hs is None when it is not a well-formed client
    net,      \* bytes sent and not yet taken from the socket
    head,     \* bytes taken as PROXY header
    buf, pos, \* BufferedStream
    pc,       \* what the connection reads next
    hs,       \* the handshake it has read
    out,      \* what has been handed to readers, as a sequence of byte sequences
    crowded   \* history: a fill left the handshake more than MaxBuffered unread bytes
vars == <<script, net, head, buf, pos, pc, hs, out, crowded>>

From(b, n) == SubSeq(b, n + 1, Len(b))

Bytes(s) == FlattenSeq(s)

-----------------------------------------------------------------------------
(* handshake.rs, try_parse.                                                  *)

\* The host without what a mod loader appends after a NUL, nor trailing root dots.
Stripped(host) ==
    LET plain == {n \in 0..Len(host) : \A i \in 1..n : host[i] # 0}
        bare == SubSeq(host, 1, Max(plain))
        kept == {0} \cup {i \in 1..Len(bare) : bare[i] # 46}
    IN  SubSeq(bare, 1, Max(kept))

\* The fields are sought in all that is buffered, only the frame is consumed.
try_parse(b) ==
    LET length == read_var_int(b)
        id == read_var_int(From(b, length.used))
        p1 == length.used + id.used
        protocol == read_var_int(From(b, p1))
        p2 == p1 + protocol.used
        host == read_var_int(From(b, p2))
        p3 == p2 + host.used + host.value
        next == read_var_int(From(b, p3 + 2))
        bogus == \/ length.error = "TooBig"
                 \/ length.ok /\ length.value \notin 0..MaxHandshake
        short == ~length.ok \/ Len(b) - length.used < length.value
        wrong == \/ ~id.ok \/ id.value # 0 \/ ~protocol.ok
                 \/ ~host.ok \/ host.value \notin 0..255
                 \/ Len(b) < p3 + 2 \/ ~next.ok
    IN  IF bogus THEN [outcome |-> "malformed"]
        ELSE IF short THEN [outcome |-> "incomplete"]
        ELSE IF wrong THEN [outcome |-> "malformed"]
        ELSE [outcome |-> "complete", size |-> length.used + length.value,
              protocol |-> protocol.value, next |-> next.value,
              host |-> Stripped(SubSeq(b, p3 - host.value + 1, p3)),
              port |-> b[p3 + 1] * 256 + b[p3 + 2]]

-----------------------------------------------------------------------------
(* read_proxy_protocol_header.                                               *)

IsV2 == head[1] = 13

IsV1 == head[1] = 80

HasCrlf(b) == \E i \in 2..Len(b) : b[i - 1] = 13 /\ b[i] = 10

\* The length the header must have reached before it is parsed or read on.
Target ==
    IF Len(head) < Preface THEN Preface
    ELSE IF IsV2 THEN Preface + head[15] * 256 + head[16]
    ELSE IF HasCrlf(head) THEN Len(head) ELSE Len(head) + 1

\* parse_v1 and parse_v2 on what was read.
BadHeader ==
    IF IsV1 THEN head[7] \notin {84, 85}
    ELSE LET family == head[14] \div 16
             size == head[15] * 256 + head[16]
         IN  \/ head[13] \div 16 # 2
             \/ /\ head[13] % 16 # 0
                /\ ~(family = 0 \/ (family = 1 /\ size >= 12) \/ (family = 2 /\ size >= 36))

Refused ==
    /\ Len(head) >= Preface
    /\ \/ ~IsV1 /\ ~IsV2
       \/ IsV1 /\ ~HasCrlf(head) /\ Len(head) >= V1Limit
       \/ Len(head) >= Target /\ BadHeader

\* read_exact_more: a read never asks for more than is known to be missing.
ReadHeader ==
    /\ pc = "proxy"
    /\ ~Refused
    /\ Len(head) < Target
    /\ \E n \in 1..Min({Target - Len(head), Len(net)}) :
         head' = head \o SubSeq(net, 1, n) /\ net' = From(net, n)
    /\ UNCHANGED <<script, buf, pos, pc, hs, out, crowded>>

HeaderRead ==
    /\ pc = "proxy"
    /\ Refused \/ (Len(head) >= Preface /\ Len(head) >= Target)
    /\ pc' = IF Refused THEN "failed" ELSE "handshake"
    /\ UNCHANGED <<script, net, head, buf, pos, hs, out, crowded>>

-----------------------------------------------------------------------------
(* buffered_stream.rs.                                                       *)

Unread == From(buf, pos)

Take(n) ==
    /\ out' = Append(out, SubSeq(Unread, 1, n))
    /\ pos' = pos + n

\* The length of the frame at the head of the unread bytes, if that is known.
FrameLength == read_var_int(Unread)

FrameLimit == IF pc = "ping" THEN MaxPing ELSE MaxPacket

\* M: a length has no upper limit.
M_OutOfRange == FrameLength.ok /\ FrameLength.value < 0

OutOfRange == FrameLength.ok /\ FrameLength.value \notin 0..FrameLimit

FrameSize == FrameLength.used + FrameLength.value

\* What the current reader makes of the bytes it has.
Verdict ==
    IF pc = "handshake" THEN try_parse(Unread).outcome
    ELSE IF OutOfRange THEN "malformed"
    ELSE IF FrameLength.ok /\ Len(Unread) >= FrameSize THEN "complete" ELSE "incomplete"

\* M: what was buffered before is replaced by the chunk.
M_Fill ==
    /\ pc \in {"handshake", "request", "ping", "login"}
    /\ Verdict = "incomplete"
    /\ \E n \in 1..Min({Chunk, Len(net)}) :
         /\ buf' = SubSeq(buf, 1, pos) \o SubSeq(net, 1, n)
         /\ net' = From(net, n)
         /\ crowded' = (pc = "handshake" /\ Len(buf') - pos > MaxBuffered)
    /\ pc' = IF crowded' THEN "failed" ELSE pc
    /\ UNCHANGED <<script, head, pos, hs, out>>

\* fill_more; a handshake is given up when the buffer holds too much, whole or not.
Fill ==
    /\ pc \in {"handshake", "request", "ping", "login"}
    /\ Verdict = "incomplete"
    /\ \E n \in 1..Min({Chunk, Len(net)}) :
         /\ buf' = buf \o SubSeq(net, 1, n)
         /\ net' = From(net, n)
         /\ crowded' = (pc = "handshake" /\ Len(buf') - pos > MaxBuffered)
    /\ pc' = IF crowded' THEN "failed" ELSE pc
    /\ UNCHANGED <<script, head, pos, hs, out>>

\* read_handshake returns: a status or a login is served, or there is no route, or the
\* login is refused.
ReadHandshake ==
    /\ pc = "handshake"
    /\ Verdict = "complete"
    /\ hs' = try_parse(Unread)
    /\ Take(hs'.size)
    /\ pc' \in {IF hs'.next = 1 THEN "request" ELSE "login", "closed"}
    /\ UNCHANGED <<script, net, head, buf, crowded>>

\* read_frame returns: a status request, which has packet id 0, is followed by an
\* optional ping, a Login Start by the relay, unless no backend answers.
ReadFrame ==
    /\ pc \in {"request", "ping", "login"}
    /\ Verdict = "complete"
    /\ Take(FrameSize)
    /\ \/ pc' = "closed"
       \/ pc = "request" /\ read_var_int(From(Unread, FrameLength.used)).value = 0 /\ pc' = "ping"
       \/ pc = "ping" /\ pc' = "done"
       \/ pc = "login" /\ pc' = "relay"
    /\ UNCHANGED <<script, net, head, buf, hs, crowded>>

Reject ==
    /\ pc \in {"handshake", "request", "ping", "login"}
    /\ Verdict = "malformed"
    /\ pc' = "failed"
    /\ UNCHANGED <<script, net, head, buf, pos, hs, out, crowded>>

\* poll_read: the buffer first, and the socket only when it is empty.
PollRead ==
    /\ pc = "relay"
    /\ IF pos < Len(buf)
         THEN \E n \in 1..Min({Chunk, Len(Unread)}) :
                /\ out' = Append(out, SubSeq(Unread, 1, n))
                /\ IF pos + n = Len(buf) THEN buf' = <<>> /\ pos' = 0
                   ELSE pos' = pos + n /\ UNCHANGED buf
                /\ UNCHANGED net
         ELSE /\ \E n \in 1..Min({Chunk, Len(net)}) :
                   out' = Append(out, SubSeq(net, 1, n)) /\ net' = From(net, n)
              /\ UNCHANGED <<buf, pos>>
    /\ UNCHANGED <<script, head, pc, hs, crowded>>

\* A read returns 0: the peer has closed its side.
Eof ==
    /\ net = <<>>
    /\ \/ pc = "proxy" /\ ~Refused /\ Len(head) < Target /\ pc' = "closed"
       \/ pc \in {"handshake", "request", "ping", "login"} /\ Verdict = "incomplete" /\ pc' = "closed"
       \/ pc = "relay" /\ pos = Len(buf) /\ pc' = "done"
    /\ UNCHANGED <<script, net, head, buf, pos, hs, out, crowded>>

\* The deadline of all reads before the login, or that of the ping.
Expire ==
    /\ pc \in {"proxy", "handshake", "request", "ping", "login"}
    /\ pc' = "closed"
    /\ UNCHANGED <<script, net, head, buf, pos, hs, out, crowded>>

Init ==
    /\ script \in Scripts
    /\ net = script.header \o script.wire
    /\ head = <<>> /\ buf = <<>> /\ pos = 0
    /\ pc = IF script.header = <<>> THEN "handshake" ELSE "proxy"
    /\ hs = None
    /\ out = <<>>
    /\ crowded = FALSE

Next ==
    \/ ReadHeader \/ HeaderRead
    \/ Fill \/ ReadHandshake \/ ReadFrame \/ Reject
    \/ PollRead
    \/ Eof \/ Expire

Spec == Init /\ [][Next]_vars

Over == pc \in {"done", "failed", "closed"}

-----------------------------------------------------------------------------
TypeOK ==
    /\ pc \in {"proxy", "handshake", "request", "ping", "login", "relay",
               "done", "failed", "closed"}
    /\ pos \in 0..Len(buf)
    /\ crowded \in BOOLEAN

\* "consuming exactly the header's bytes and no more": once the header is read, what
\* was taken as header is what was sent as one.
HeaderExact == pc \notin {"proxy", "failed", "closed"} => head = script.header

\* "retaining any unconsumed bytes and transparently feeding them back": wherever the
\* network cuts the stream, what has been handed out, what is buffered and what is
\* still to come are the bytes sent, in order, none lost and none twice.
BytesInOrder == head \o Bytes(out) \o Unread \o net = script.header \o script.wire

\* A well-formed client is understood however its bytes are cut and however many
\* packets share a segment: the handshake has the fields sent, without mod markers and
\* root dots, every frame is one that was sent, and the connection is never given up,
\* unless a fill brings more than MaxBuffered bytes while the handshake is awaited.
Understood ==
    script.hs # None =>
        /\ pc = "failed" => crowded
        /\ hs # None => /\ <<hs.protocol, hs.port, hs.next>>
                             = <<script.hs.protocol, script.hs.port, script.hs.next>>
                        /\ hs.host = Stripped(script.hs.host)
        /\ \A i \in 1..Min({Len(out), Len(script.frames) + 1}) :
             out[i] = (<<encode_handshake(script.hs)>> \o script.frames)[i]

\* What a framed reader holds while it waits is bounded by the largest packet it takes
\* and one chunk, except behind a length that never ends: read_frame takes any error of
\* read_var_int, TooBig included, for bytes to come.
BufferBounded ==
    \/ Len(Unread) < Max({MaxBuffered, 5 + MaxPacket}) + Chunk
    \/ FrameLength.error = "TooBig"
=============================================================================
