-------------------------------- MODULE Parser --------------------------------
(***************************************************************************)
(* CParser (app_sdk/source/parser): the packets of the game protocol cut    *)
(* out of the byte stream as recv happens to deliver it.                    *)
(*                                                                          *)
(* A unit is a piece of a packet that recv never splits.  Packet k is       *)
(* HdrLen header units, the last of which is the size field, and size[k]    *)
(* body units.  A unit is named by its packet and its place in it, so that  *)
(* what OnParsePacket is given shows where it came from.                    *)
(***************************************************************************)
EXTENDS Integers, Sequences

CONSTANTS NPacket,     \* bound: packets the peer sends
          HdrLen,      \* sizeof(MsgHeader)
          MaxSize,     \* bound: the largest body
          MaxRecv,     \* the buffer that CClient::OnRead gives to recv
          WholeHeaders \* whether recv never returns a part of a header

ASSUME ParserAssumption ==
    /\ NPacket \in Nat
    /\ HdrLen \in Nat \ {0}
    /\ MaxSize \in Nat
    /\ MaxRecv \in Nat \ {0}
    /\ WholeHeaders \in BOOLEAN

Packet == 1..NPacket

VARIABLES
    size,       \* size of each packet's body, as the peer chose it
    wire,       \* units that recv has not returned yet
    buf,        \* the rest of the buffer Parse is working on
    open,       \* Parse has not returned False
    state,      \* m_eState
    hdr,        \* m_hdr: the unit at each place of the header
    hdrSize,    \* m_hdr.size
    hdrLen,     \* m_nRecvHdrLen
    content,    \* m_strContent
    delivered   \* the calls of OnParsePacket: header, content and length

vars == <<size, wire, buf, open, state, hdr, hdrSize, hdrLen, content, delivered>>

Units(k, from, to) == [i \in 1..(to - from + 1) |-> <<k, from + i - 1>>]
Header(k) == Units(k, 1, HdrLen)
Body(k)   == Units(k, HdrLen + 1, HdrLen + size[k])

\* Packets k, k + 1, ... as the peer writes them.
StreamFrom(k) ==
    LET from[j \in 1..(NPacket + 1)] ==
            IF j > NPacket THEN <<>> ELSE Header(j) \o Body(j) \o from[j + 1]
    IN  from[k]

\* m_hdr before the first packet: CGame::GetInstance has static storage, so zero.
Blank == <<0, 0>>

Init ==
    /\ size \in [Packet -> 0..MaxSize]
    /\ wire = StreamFrom(1)
    /\ buf = <<>>
    /\ open = TRUE
    /\ state = "hdr"
    /\ hdr = [i \in 1..HdrLen |-> Blank]
    /\ hdrSize = 0
    /\ hdrLen = 0
    /\ content = <<>>
    /\ delivered = <<>>

\* recv returns the next n units and Parse is called with them.
Recv(n) ==
    /\ open
    /\ buf = <<>>
    /\ WholeHeaders /\ n < Len(wire) => wire[n + 1][2] \notin 2..HdrLen
    /\ buf' = SubSeq(wire, 1, n)
    /\ wire' = SubSeq(wire, n + 1, Len(wire))
    /\ UNCHANGED <<size, open, state, hdr, hdrSize, hdrLen, content, delivered>>

\* nWantSize: what is missing, or as much of it as the buffer still holds.
WantSize(missing) == IF Len(buf) < missing THEN Len(buf) ELSE missing

Rest(n) == SubSeq(buf, n + 1, Len(buf))

\* One turn of the loop in eState_ParseHdr.  memcpy goes to the start of m_hdr
\* whatever part of the header is there already.  Units that are not a size field
\* make any size.
ParseHdr ==
    /\ buf # <<>>
    /\ state = "hdr"
    /\ LET n == WantSize(HdrLen - hdrLen) IN
       /\ hdr' = [i \in 1..HdrLen |-> IF i <= n THEN buf[i] ELSE hdr[i]]
       /\ hdrSize' \in IF n < HdrLen THEN {hdrSize}
                       ELSE IF buf[HdrLen][2] = HdrLen THEN {size[buf[HdrLen][1]]}
                       ELSE 0..MaxSize
       /\ hdrLen' = hdrLen + n
       /\ state' = IF hdrLen' = HdrLen THEN "content" ELSE "hdr"
       /\ buf' = Rest(n)
    /\ UNCHANGED <<size, wire, open, content, delivered>>

\* Mutant of IsComplete: looked at before the units of this turn are appended.
IsCompleteBefore(n) == Len(content) = hdrSize

\* The n units of this turn make the body complete.
IsComplete(n) == Len(content) + n = hdrSize

\* Mutant of ResetState: m_nRecvHdrLen is not reset.
ResetStateOnly ==
    /\ state' = "hdr"
    /\ hdrLen' = hdrLen
    /\ content' = <<>>

ResetState ==
    /\ state' = "hdr"
    /\ hdrLen' = 0
    /\ content' = <<>>

\* One turn of the loop in eState_ParseContent.  m_strContent is cleared before
\* OnParsePacket is called with it; OnParsePacket may tell Parse to give up.
ParseContent ==
    /\ buf # <<>>
    /\ state = "content"
    /\ LET n == WantSize(hdrSize - Len(content)) IN
       \/ /\ IsComplete(n)
          /\ ResetState
          /\ delivered' = Append(delivered, [hdr |-> hdr, content |-> content', len |-> hdrSize])
          /\ open' \in BOOLEAN
          /\ buf' = IF open' THEN Rest(n) ELSE <<>>
       \/ /\ ~IsComplete(n)
          /\ content' = content \o SubSeq(buf, 1, n)
          /\ buf' = Rest(n)
          /\ UNCHANGED <<state, hdrLen, delivered, open>>
    /\ UNCHANGED <<size, wire, hdr, hdrSize>>

Next ==
    \/ \E n \in 1..MaxRecv : n <= Len(wire) /\ Recv(n)
    \/ ParseHdr
    \/ ParseContent

Spec == Init /\ [][Next]_vars

-----------------------------------------------------------------------------
TypeOK ==
    /\ size \in [Packet -> 0..MaxSize]
    /\ open \in BOOLEAN
    /\ state \in {"hdr", "content"}
    /\ DOMAIN hdr = 1..HdrLen
    /\ hdrSize \in 0..MaxSize
    /\ hdrLen \in 0..HdrLen
    /\ Len(content) \in 0..hdrSize
    /\ Len(delivered) \in Nat

\* What Parse holds of the packet it is in the middle of.
Held == SubSeq(hdr, 1, hdrLen) \o content

\* At every turn of the loop the packets delivered, the part held, the rest of the
\* buffer and what recv has yet to return make up the stream: however recv splits
\* the bodies, no unit is skipped, read twice or taken for one of another packet.
InStep == open => StreamFrom(Len(delivered) + 1) = Held \o buf \o wire

\* OnParsePacket is given the header the peer sent, the peer's packets in order and
\* the length of each body (Parser.h:12-15 says what the fields are).
Framed ==
    \A k \in 1..Len(delivered) :
        /\ delivered[k].hdr = Header(k)
        /\ delivered[k].len = size[k]

\* When Parse returns, no packet it has received completely is still held back;
\* except one without a body, which waits for the next call.
NotLate ==
    open /\ buf = <<>> /\ state = "content" => Len(content) < hdrSize \/ hdrSize = 0


=============================================================================
