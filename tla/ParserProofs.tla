------------------------------ MODULE ParserProofs ------------------------------
(***************************************************************************)
(* The parser for any number of packets with bodies of any length: no      *)
(* packet received completely is held back; and, when recv never splits a  *)
(* header, every packet is cut out of the stream at the right place.       *)
(***************************************************************************)
EXTENDS Parser, SequenceTheorems, WellFoundedInduction, TLAPS

Unit == Packet \X Nat

-----------------------------------------------------------------------------
(* Sequences. *)

LEMMA Cutting ==
    ASSUME NEW S, NEW s \in Seq(S), NEW n \in 0..Len(s)
    PROVE  /\ SubSeq(s, 1, n) \in Seq(S) /\ SubSeq(s, n + 1, Len(s)) \in Seq(S)
           /\ Len(SubSeq(s, 1, n)) = n /\ Len(SubSeq(s, n + 1, Len(s))) = Len(s) - n
           /\ \A i \in 1..n : SubSeq(s, 1, n)[i] = s[i]
           /\ n < Len(s) => SubSeq(s, n + 1, Len(s))[1] = s[n + 1]
           /\ SubSeq(s, 1, n) \o SubSeq(s, n + 1, Len(s)) = s
<1> DEFINE a == SubSeq(s, 1, n)
           b == SubSeq(s, n + 1, Len(s))
<1>1. Len(s) \in Nat /\ n \in Nat /\ n <= Len(s) /\ \A i \in 1..Len(s) : s[i] \in S
    OBVIOUS
<1>2. a \in Seq(S) /\ Len(a) = n /\ \A i \in 1..n : a[i] = s[i]
    BY <1>1
<1>3. /\ b \in Seq(S) /\ Len(b) = Len(s) - n
      /\ \A i \in 1..(Len(s) - n) : b[i] = s[n + i]
    BY <1>1
<1> HIDE DEF a, b
<1>4. a \o b \in Seq(S) /\ Len(a \o b) = Len(s)
    BY <1>1, <1>2, <1>3, ConcatProperties
<1>5. ASSUME NEW i \in 1..Len(s) PROVE (a \o b)[i] = s[i]
  <2>1. (a \o b)[i] = IF i <= n THEN a[i] ELSE b[i - n]
      BY <1>1, <1>2, <1>3, ConcatProperties
  <2>2. CASE i <= n
      BY <1>1, <1>2, <2>1, <2>2
  <2>3. CASE i > n
    <3>1. i - n \in 1..(Len(s) - n) /\ n + (i - n) = i
        BY <1>1, <2>3
    <3>2. QED
        BY <1>1, <1>3, <2>1, <2>3, <3>1
  <2>4. i <= n \/ i > n
      BY <1>1
  <2>5. QED
      BY <2>2, <2>3, <2>4, Zenon
<1>6. a \o b = s
    BY <1>4, <1>5, SeqEqual
<1>7. n < Len(s) => b[1] = s[n + 1]
    BY <1>1, <1>3
<1>8. QED
    BY <1>2, <1>3, <1>6, <1>7 DEF a, b

LEMMA SameSplit ==
    ASSUME NEW S, NEW s \in Seq(S), NEW t \in Seq(S), NEW u \in Seq(S), NEW v \in Seq(S),
           s \o t = u \o v, Len(s) = Len(u)
    PROVE  s = u /\ t = v
<1>1. ASSUME NEW i \in 1..Len(s) PROVE s[i] = u[i]
  <2>1. i \in 1..(Len(s) + Len(t)) /\ i \in 1..(Len(u) + Len(v)) /\ i <= Len(s)
      OBVIOUS
  <2>2. (s \o t)[i] = s[i] /\ (u \o v)[i] = u[i]
      BY <2>1, ConcatProperties
  <2>3. QED
      BY <2>2
<1>2. s = u
    BY <1>1, SeqEqual
<1>3. t = v
    BY <1>2, ConcatSimplifications
<1>4. QED
    BY <1>2, <1>3

\* Facts about concatenation under names, so that a proof asks for one instance and no other.
Regrouped(s, t, u, v) ==
    /\ ((s \o t) \o u) \o v = s \o (t \o (u \o v))
    /\ (s \o t) \o (u \o v) = s \o ((t \o u) \o v)

Rejoined(s, t, u) == (s \o t) \o u = s \o (t \o u)

Joins(S, s, t) == s \o t \in Seq(S) /\ Len(s \o t) = Len(s) + Len(t)

SplitOnce(s, t, u, v) == s \o t = u \o v /\ Len(s) = Len(u) => t = v

LEMMA Rejoining ==
    ASSUME NEW S, NEW s \in Seq(S), NEW t \in Seq(S), NEW u \in Seq(S)
    PROVE  Rejoined(s, t, u)
BY ConcatAssociative DEF Rejoined

LEMMA Joining ==
    ASSUME NEW S, NEW s \in Seq(S), NEW t \in Seq(S)
    PROVE  Joins(S, s, t)
BY ConcatProperties DEF Joins

LEMMA Grouping ==
    ASSUME NEW S, NEW s \in Seq(S), NEW t \in Seq(S), NEW u \in Seq(S), NEW v \in Seq(S)
    PROVE  Regrouped(s, t, u, v)
<1>1. Joins(S, s, t) /\ Joins(S, u, v)
    BY Joining
<1>2. s \o t \in Seq(S) /\ u \o v \in Seq(S)
    BY <1>1 DEF Joins
<1>3. Rejoined(s \o t, u, v) /\ Rejoined(s, t, u \o v) /\ Rejoined(t, u, v)
    BY <1>2, Rejoining
<1>4. QED
    BY <1>3, Zenon DEF Rejoined, Regrouped

LEMMA Splitting ==
    ASSUME NEW S, NEW s \in Seq(S), NEW t \in Seq(S), NEW u \in Seq(S), NEW v \in Seq(S)
    PROVE  SplitOnce(s, t, u, v)
BY SameSplit DEF SplitOnce

-----------------------------------------------------------------------------
(* The stream. *)

\* A set of numbers has a least one.
LEMMA Least ==
    ASSUME NEW T, T \subseteq Nat, T # {}
    PROVE  \E x \in T : \A y \in T : ~(y < x)
<1>1. \E x \in T : \A y \in T : ~(<<y, x>> \in OpToRel(<, Nat))
    BY WFMin, NatLessThanWellFounded
<1>2. QED
    BY <1>1 DEF OpToRel

LEMMA HeaderFacts ==
    ASSUME NEW k \in Packet
    PROVE  /\ Header(k) \in Seq(Unit) /\ Len(Header(k)) = HdrLen
           /\ Header(k) = [i \in 1..HdrLen |-> <<k, i>>]
<1>1. Header(k) = [i \in 1..HdrLen |-> <<k, i>>]
    BY ParserAssumption DEF Header, Units
<1>2. QED
    BY <1>1, ParserAssumption DEF Unit

LEMMA BodyFacts ==
    ASSUME size \in [Packet -> 0..MaxSize], NEW k \in Packet
    PROVE  Body(k) \in Seq(Unit) /\ Len(Body(k)) = size[k]
<1>1. size[k] \in Nat
    BY ParserAssumption
<1>2. Body(k) = [i \in 1..size[k] |-> <<k, HdrLen + i>>]
    BY <1>1, ParserAssumption DEF Body, Units
<1>3. QED
    BY <1>1, <1>2, ParserAssumption DEF Unit

\* What StreamFrom is defined to be.
IsStream(f) ==
    f = [j \in 1..(NPacket + 1) |->
            IF j > NPacket THEN <<>> ELSE Header(j) \o Body(j) \o f[j + 1]]

\* The last packets as a function f gives them.
EndsWith(f, n) ==
    \A j \in (NPacket + 1 - n)..(NPacket + 1) :
        f[j] = IF j > NPacket THEN <<>> ELSE Header(j) \o Body(j) \o f[j + 1]

LEMMA StreamExists == \E f : IsStream(f)
<1> DEFINE T == {n \in 0..NPacket : ~\E f : EndsWith(f, n)}
<1>1. T = {}
  <2>1. SUFFICES ASSUME T # {} PROVE FALSE
      OBVIOUS
  <2>2. T \subseteq Nat
      BY ParserAssumption
  <2> HIDE DEF T
  <2>3. PICK x \in T : \A y \in T : ~(y < x)
      BY <2>1, <2>2, Least
  <2>4. x \in Nat /\ x <= NPacket /\ NPacket \in Nat /\ ~\E f : EndsWith(f, x)
      BY ParserAssumption DEF T
  <2>5. CASE x = 0
    <3>1. \A j \in (NPacket + 1 - 0)..(NPacket + 1) : j = NPacket + 1 /\ j > NPacket
        BY <2>4
    <3>2. EndsWith([j \in {NPacket + 1} |-> <<>>], 0)
        BY <3>1 DEF EndsWith
    <3>3. QED
        BY <2>4, <2>5, <3>2
  <2>6. CASE x > 0
    <3>1. x - 1 \in 0..NPacket /\ x - 1 < x
        BY <2>4, <2>6
    <3>2. PICK f : EndsWith(f, x - 1)
        BY <2>3, <3>1 DEF T
    <3> DEFINE a == NPacket + 1 - x
               F(j) == Header(j) \o Body(j) \o f[j + 1]
               g == [j \in 1..(NPacket + 1) |-> IF j = a THEN F(j) ELSE f[j]]
    <3>3. a \in 1..NPacket /\ a + 1 = NPacket + 1 - (x - 1)
        BY <2>4, <2>6
    <3> HIDE DEF a, F
    <3>4. ASSUME NEW j \in a..(NPacket + 1)
          PROVE  g[j] = IF j > NPacket THEN <<>> ELSE F(j)
      <4>1. CASE j = a
          BY <2>4, <3>3, <4>1
      <4>2. CASE j # a
        <5>1. j \in (a + 1)..(NPacket + 1) /\ g[j] = f[j]
            BY <2>4, <3>3, <4>2
        <5>2. QED
            BY <3>2, <3>3, <5>1 DEF EndsWith, F
      <4>3. QED
          BY <4>1, <4>2
    <3>5. \A j \in a..NPacket : g[j + 1] = f[j + 1]
        BY <2>4, <3>3
    <3> HIDE DEF g
    <3>6. ASSUME NEW j \in a..(NPacket + 1)
          PROVE  g[j] = IF j > NPacket THEN <<>> ELSE Header(j) \o Body(j) \o g[j + 1]
      <4>1. CASE j > NPacket
          BY <3>4, <4>1
      <4>2. CASE j <= NPacket
        <5>1. g[j] = F(j) /\ g[j + 1] = f[j + 1] /\ ~(j > NPacket)
            BY <2>4, <3>3, <3>4, <3>5, <4>2
        <5>2. QED
            BY <5>1 DEF F
      <4>3. QED
          BY <2>4, <3>3, <4>1, <4>2
    <3>7. EndsWith(g, x)
        BY <3>6 DEF EndsWith, a
    <3>8. QED
        BY <2>4, <3>7
  <2>7. QED
      BY <2>4, <2>5, <2>6
<1>2. PICK f : EndsWith(f, NPacket)
    BY <1>1, ParserAssumption
<1> DEFINE g == [j \in 1..(NPacket + 1) |-> f[j]]
<1>3. NPacket \in Nat /\ NPacket + 1 - NPacket = 1
    BY ParserAssumption
<1>4. ASSUME NEW j \in 1..(NPacket + 1)
      PROVE  g[j] = IF j > NPacket THEN <<>> ELSE Header(j) \o Body(j) \o g[j + 1]
  <2>1. f[j] = IF j > NPacket THEN <<>> ELSE Header(j) \o Body(j) \o f[j + 1]
      BY <1>2, <1>3 DEF EndsWith
  <2>2. j <= NPacket => g[j + 1] = f[j + 1]
      BY <1>3
  <2>3. QED
      BY <1>3, <2>1, <2>2
<1>5. IsStream(g)
    BY <1>4 DEF IsStream
<1>6. QED
    BY <1>5

\* The stream from a packet on is the packet and the stream after it.
LEMMA StreamFacts ==
    ASSUME size \in [Packet -> 0..MaxSize]
    PROVE  /\ StreamFrom(NPacket + 1) = <<>>
           /\ \A k \in Packet : StreamFrom(k) = Header(k) \o (Body(k) \o StreamFrom(k + 1))
           /\ \A k \in 1..(NPacket + 1) : StreamFrom(k) \in Seq(Unit)
<1> DEFINE g == CHOOSE f : IsStream(f)
<1>1. IsStream(g)
    BY StreamExists
<1>2. \A k : StreamFrom(k) = g[k]
    BY DEF StreamFrom, IsStream
<1> HIDE DEF g
<1>3. NPacket \in Nat /\ Packet = 1..NPacket
    BY ParserAssumption DEF Packet
<1>4. \A j \in 1..(NPacket + 1) :
         StreamFrom(j) = IF j > NPacket THEN <<>> ELSE (Header(j) \o Body(j)) \o StreamFrom(j + 1)
    BY <1>1, <1>2 DEF IsStream
<1>5. StreamFrom(NPacket + 1) = <<>>
    BY <1>3, <1>4
<1>6. \A k \in Packet : StreamFrom(k) = (Header(k) \o Body(k)) \o StreamFrom(k + 1)
    BY <1>3, <1>4
<1> DEFINE T == {n \in 0..NPacket : StreamFrom(NPacket + 1 - n) \notin Seq(Unit)}
<1>7. T = {}
  <2>1. SUFFICES ASSUME T # {} PROVE FALSE
      OBVIOUS
  <2>2. T \subseteq Nat
      BY <1>3
  <2> HIDE DEF T
  <2>3. PICK x \in T : \A y \in T : ~(y < x)
      BY <2>1, <2>2, Least
  <2> DEFINE k == NPacket + 1 - x
  <2>4. x \in 0..NPacket /\ StreamFrom(k) \notin Seq(Unit)
      BY DEF T
  <2>5. x # 0
    <3>1. x = 0 => k = NPacket + 1
        BY <1>3
    <3>2. <<>> \in Seq(Unit)
        OBVIOUS
    <3> HIDE DEF k
    <3>3. QED
        BY <1>5, <2>4, <3>1, <3>2
  <2>6. k \in Packet /\ x - 1 \in 0..NPacket /\ x - 1 < x /\ k + 1 = NPacket + 1 - (x - 1)
      BY <1>3, <2>4, <2>5
  <2>7. StreamFrom(k + 1) \in Seq(Unit)
      BY <2>3, <2>6 DEF T
  <2> HIDE DEF k
  <2>8. Header(k) \in Seq(Unit) /\ Body(k) \in Seq(Unit)
      BY <2>6, HeaderFacts, BodyFacts
  <2>9. Header(k) \o Body(k) \in Seq(Unit)
      BY <2>8, ConcatProperties
  <2>10. (Header(k) \o Body(k)) \o StreamFrom(k + 1) \in Seq(Unit)
      BY <2>7, <2>9, ConcatProperties
  <2>11. QED
      BY <1>6, <2>4, <2>6, <2>10
<1>8. ASSUME NEW k \in 1..(NPacket + 1) PROVE StreamFrom(k) \in Seq(Unit)
  <2>1. NPacket + 1 - k \in 0..NPacket /\ NPacket + 1 - (NPacket + 1 - k) = k
      BY <1>3
  <2>2. QED
      BY <1>7, <2>1
<1>9. ASSUME NEW k \in Packet
      PROVE  StreamFrom(k) = Header(k) \o (Body(k) \o StreamFrom(k + 1))
  <2>1. k + 1 \in 1..(NPacket + 1)
      BY <1>3
  <2>2. StreamFrom(k + 1) \in Seq(Unit)
      BY <1>8, <2>1
  <2>3. Header(k) \in Seq(Unit) /\ Body(k) \in Seq(Unit)
      BY HeaderFacts, BodyFacts
  <2>4. (Header(k) \o Body(k)) \o StreamFrom(k + 1) = Header(k) \o (Body(k) \o StreamFrom(k + 1))
    <3>1. Rejoined(Header(k), Body(k), StreamFrom(k + 1))
        BY <2>2, <2>3, Rejoining
    <3>2. QED
        BY <3>1 DEF Rejoined
  <2>5. QED
      BY <1>6, <2>4
<1>10. QED
    BY <1>5, <1>8, <1>9

LEMMA SameStream == size' = size => \A k : StreamFrom(k)' = StreamFrom(k) /\ Body(k)' = Body(k)
BY DEF StreamFrom, Header, Body, Units

-----------------------------------------------------------------------------
(* Types, and when a packet is complete: for any splitting by recv. *)

Delivery == [hdr : [1..HdrLen -> Unit \cup {Blank}], content : Seq(Unit), len : 0..MaxSize]

Types ==
    /\ size \in [Packet -> 0..MaxSize]
    /\ wire \in Seq(Unit) /\ buf \in Seq(Unit) /\ content \in Seq(Unit)
    /\ open \in BOOLEAN
    /\ state \in {"hdr", "content"}
    /\ hdr \in [1..HdrLen -> Unit \cup {Blank}]
    /\ hdrSize \in 0..MaxSize
    /\ hdrLen \in 0..HdrLen
    /\ delivered \in Seq(Delivery)

\* The state machine is in eState_ParseContent from the last header unit to the last
\* body unit; only a body of length zero is complete before it has begun.
Phase ==
    /\ state = "hdr" => content = <<>> /\ hdrLen < HdrLen
    /\ state = "content" => hdrLen = HdrLen
    /\ Len(content) <= hdrSize
    /\ state = "content" => Len(content) < hdrSize \/ hdrSize = 0

IInv == Types /\ Phase

\* What a turn takes from the buffer.
LEMMA WantFacts ==
    ASSUME Types, NEW m \in Nat
    PROVE  /\ WantSize(m) \in 0..Len(buf) /\ WantSize(m) \in Nat /\ WantSize(m) <= m
           /\ WantSize(m) = m \/ WantSize(m) = Len(buf)
           /\ Rest(WantSize(m)) \in Seq(Unit)
           /\ SubSeq(buf, 1, WantSize(m)) \in Seq(Unit)
           /\ Len(SubSeq(buf, 1, WantSize(m))) = WantSize(m)
           /\ SubSeq(buf, 1, WantSize(m)) \o Rest(WantSize(m)) = buf
           /\ m > 0 /\ buf # <<>> => WantSize(m) > 0
<1> DEFINE n == WantSize(m)
<1>1. Len(buf) \in Nat /\ buf \in Seq(Unit) /\ (buf # <<>> => Len(buf) > 0)
    BY EmptySeq DEF Types
<1>2. n \in 0..Len(buf) /\ n <= m /\ (n = m \/ n = Len(buf)) /\ (m > 0 /\ buf # <<>> => n > 0)
    BY <1>1 DEF WantSize
<1> HIDE DEF n
<1>3. /\ SubSeq(buf, 1, n) \in Seq(Unit) /\ Rest(n) \in Seq(Unit)
      /\ Len(SubSeq(buf, 1, n)) = n
      /\ SubSeq(buf, 1, n) \o Rest(n) = buf
    BY <1>1, <1>2, Cutting DEF Rest
<1>4. QED
    BY <1>2, <1>3 DEF n

LEMMA InitIInv == Init => IInv
<1> SUFFICES ASSUME Init PROVE IInv
    OBVIOUS
<1> USE ParserAssumption
<1>1. StreamFrom(1) \in Seq(Unit)
    BY StreamFacts DEF Init
<1>2. QED
    BY <1>1 DEF Init, IInv, Types, Phase

LEMMA RecvIInv == ASSUME IInv, NEW n \in 1..MaxRecv, n <= Len(wire), Recv(n) PROVE IInv'
<1>1. wire \in Seq(Unit) /\ n \in 0..Len(wire)
    BY ParserAssumption DEF IInv, Types
<1>2. buf' \in Seq(Unit) /\ wire' \in Seq(Unit)
    BY <1>1, Cutting DEF Recv
<1>3. QED
    BY <1>2 DEF IInv, Types, Phase, Recv

LEMMA ParseHdrIInv == ASSUME IInv, ParseHdr PROVE IInv'
<1> DEFINE n == WantSize(HdrLen - hdrLen)
<1>1. HdrLen - hdrLen \in Nat /\ hdrLen \in Nat /\ HdrLen \in Nat \ {0}
    BY ParserAssumption DEF IInv, Types
<1>2. /\ n \in 0..Len(buf) /\ n \in Nat /\ n <= HdrLen - hdrLen
      /\ Rest(n) \in Seq(Unit)
    BY <1>1, WantFacts DEF IInv
<1> HIDE DEF n
<1>3. /\ state = "hdr"
      /\ hdr' = [i \in 1..HdrLen |-> IF i <= n THEN buf[i] ELSE hdr[i]]
      /\ hdrSize' \in IF n < HdrLen THEN {hdrSize}
                      ELSE IF buf[HdrLen][2] = HdrLen THEN {size[buf[HdrLen][1]]}
                      ELSE 0..MaxSize
      /\ hdrLen' = hdrLen + n
      /\ state' = IF hdrLen' = HdrLen THEN "content" ELSE "hdr"
      /\ buf' = Rest(n)
      /\ UNCHANGED <<size, wire, open, content, delivered>>
    BY DEF ParseHdr, n
<1>4. \A i \in 1..Len(buf) : buf[i] \in Unit
    BY DEF IInv, Types
<1>5. hdr' \in [1..HdrLen -> Unit \cup {Blank}]
  <2>1. hdr \in [1..HdrLen -> Unit \cup {Blank}]
      BY DEF IInv, Types
  <2>2. ASSUME NEW i \in 1..HdrLen, i <= n PROVE buf[i] \in Unit
      BY <1>1, <1>2, <1>4, <2>2
  <2>3. QED
      BY <1>3, <2>1, <2>2
<1>6. hdrSize' \in 0..MaxSize
  <2>1. CASE n < HdrLen
      BY <1>3, <2>1 DEF IInv, Types
  <2>2. CASE ~(n < HdrLen)
    <3>1. HdrLen \in 1..Len(buf)
        BY <1>1, <1>2, <2>2
    <3>2. buf[HdrLen][1] \in Packet
        BY <1>4, <3>1 DEF Unit
    <3>3. QED
        BY <1>3, <2>2, <3>2 DEF IInv, Types
  <2>3. QED
      BY <2>1, <2>2
<1>7. hdrLen' \in 0..HdrLen /\ (hdrLen' = HdrLen \/ hdrLen' < HdrLen)
    BY <1>1, <1>2, <1>3
<1>8. Types'
    BY <1>2, <1>3, <1>5, <1>6, <1>7 DEF IInv, Types
<1>9. content' = <<>> /\ Len(content') = 0 /\ hdrSize' \in Nat
    BY <1>3, <1>6, ParserAssumption DEF IInv, Phase
<1>10. Phase'
    BY <1>3, <1>7, <1>9 DEF Phase
<1>11. QED
    BY <1>8, <1>10 DEF IInv

\* A turn in the body takes n units, and has one of two outcomes.
Taken(n) ==
    /\ state = "content" /\ hdrLen = HdrLen
    /\ n <= hdrSize - Len(content)
    /\ SubSeq(buf, 1, n) \in Seq(Unit) /\ Len(SubSeq(buf, 1, n)) = n
    /\ Rest(n) \in Seq(Unit) /\ SubSeq(buf, 1, n) \o Rest(n) = buf
    /\ UNCHANGED <<size, wire, hdr, hdrSize>>

Completes(n) ==
    /\ Len(content) + n = hdrSize
    /\ state' = "hdr" /\ hdrLen' = 0 /\ content' = <<>>
    /\ delivered' = Append(delivered, [hdr |-> hdr, content |-> <<>>, len |-> hdrSize])
    /\ open' \in BOOLEAN
    /\ buf' = IF open' THEN Rest(n) ELSE <<>>

Continues(n) ==
    /\ Len(content) + n < hdrSize
    /\ content' = content \o SubSeq(buf, 1, n)
    /\ buf' = Rest(n)
    /\ UNCHANGED <<state, hdrLen, delivered, open>>

LEMMA ContentFacts ==
    ASSUME IInv, ParseContent
    PROVE  \E n \in 0..Len(buf) : Taken(n) /\ (Completes(n) \/ Continues(n))
<1> DEFINE n == WantSize(hdrSize - Len(content))
<1>1. /\ hdrSize - Len(content) \in Nat /\ hdrSize \in Nat /\ Len(content) \in Nat
      /\ state = "content" /\ hdrLen = HdrLen /\ Types
    BY ParserAssumption DEF IInv, Types, Phase, ParseContent
<1>2. /\ n \in 0..Len(buf) /\ n \in Nat /\ n <= hdrSize - Len(content)
      /\ SubSeq(buf, 1, n) \in Seq(Unit) /\ Len(SubSeq(buf, 1, n)) = n
      /\ Rest(n) \in Seq(Unit) /\ SubSeq(buf, 1, n) \o Rest(n) = buf
    BY <1>1, WantFacts
<1> HIDE DEF n
<1>3. UNCHANGED <<size, wire, hdr, hdrSize>>
    BY DEF ParseContent
<1>4. Taken(n)
    BY <1>1, <1>2, <1>3 DEF Taken
<1>5. CASE /\ IsComplete(n)
           /\ ResetState
           /\ delivered' = Append(delivered, [hdr |-> hdr, content |-> content', len |-> hdrSize])
           /\ open' \in BOOLEAN
           /\ buf' = IF open' THEN Rest(n) ELSE <<>>
  <2>1. Completes(n)
      BY <1>5 DEF ResetState, IsComplete, Completes
  <2>2. QED
      BY <1>2, <1>4, <2>1
<1>6. CASE /\ ~IsComplete(n)
           /\ content' = content \o SubSeq(buf, 1, n)
           /\ buf' = Rest(n)
           /\ UNCHANGED <<state, hdrLen, delivered, open>>
  <2>1. Len(content) + n < hdrSize
    <3>1. Len(content) + n # hdrSize
        BY <1>6 DEF IsComplete
    <3>2. hdrSize \in Nat /\ Len(content) \in Nat /\ n \in Nat /\ n <= hdrSize - Len(content)
        BY <1>1, <1>2
    <3>3. QED
        BY <3>1, <3>2
  <2>2. Continues(n)
      BY <1>6, <2>1 DEF Continues
  <2>3. QED
      BY <1>2, <1>4, <2>2
<1>7. QED
    BY <1>5, <1>6 DEF ParseContent, n

LEMMA ParseContentIInv == ASSUME IInv, ParseContent PROVE IInv'
<1>1. PICK n \in 0..Len(buf) : Taken(n) /\ (Completes(n) \/ Continues(n))
    BY ContentFacts
<1>2. CASE Continues(n)
  <2>1. content' \in Seq(Unit) /\ Len(content') = Len(content) + n
      BY <1>1, <1>2, ConcatProperties DEF Continues, Taken, IInv, Types
  <2>2. Types'
      BY <1>1, <1>2, <2>1 DEF Continues, Taken, IInv, Types
  <2>3. Len(content') < hdrSize' /\ Len(content') <= hdrSize'
      BY <1>1, <1>2, <2>1, ParserAssumption DEF Continues, Taken, IInv, Types
  <2>4. Phase'
      BY <1>1, <1>2, <2>3 DEF Continues, Taken, Phase
  <2>5. QED
      BY <2>2, <2>4 DEF IInv
<1>3. CASE Completes(n)
  <2>1. /\ state' = "hdr" /\ hdrLen' = 0 /\ content' = <<>> /\ Len(content') = 0
        /\ hdrLen' \in 0..HdrLen /\ hdrLen' < HdrLen
      BY <1>3, ParserAssumption DEF Completes
  <2>2. buf' \in Seq(Unit) /\ content' \in Seq(Unit)
      BY <1>1, <1>3, <2>1 DEF Completes, Taken
  <2>3. [hdr |-> hdr, content |-> <<>>, len |-> hdrSize] \in Delivery
      BY DEF Delivery, IInv, Types
  <2>4. delivered' \in Seq(Delivery)
      BY <1>3, <2>3 DEF Completes, IInv, Types
  <2>5. Types'
      BY <1>1, <1>3, <2>1, <2>2, <2>4 DEF Completes, Taken, IInv, Types
  <2>6. hdrSize' \in Nat
      BY <2>5, ParserAssumption DEF Types
  <2>7. Phase'
      BY <2>1, <2>6 DEF Phase
  <2>8. QED
      BY <2>5, <2>7 DEF IInv
<1>4. QED
    BY <1>1, <1>2, <1>3

LEMMA NextIInv == IInv /\ [Next]_vars => IInv'
<1> SUFFICES ASSUME IInv, [Next]_vars PROVE IInv'
    OBVIOUS
<1>1. CASE UNCHANGED vars
    BY <1>1 DEF vars, IInv, Types, Phase
<1>2. QED
    BY <1>1, RecvIInv, ParseHdrIInv, ParseContentIInv DEF Next

\* However recv splits the stream, when Parse returns no packet it has received is held
\* back, except one without a body (Parser.cpp:27-63).
THEOREM ParserIsPrompt == Spec => []NotLate
<1>1. IInv => NotLate
    BY DEF IInv, Phase, NotLate
<1>2. QED
    BY <1>1, InitIInv, NextIInv, PTL DEF Spec

-----------------------------------------------------------------------------
(* Framing, when recv never splits a header. *)

\* Between two packets, and in the middle of one.
AtHeader(k) == StreamFrom(k) = buf \o wire

InBody(k) ==
    /\ k \in Packet
    /\ hdr = Header(k) /\ hdrSize = size[k]
    /\ Body(k) \o StreamFrom(k + 1) = content \o (buf \o wire)

Aligned ==
    /\ wire # <<>> => wire[1][2] \notin 2..HdrLen
    /\ state = "hdr" => hdrLen = 0
    /\ ~open => buf = <<>>
    /\ Len(delivered) <= NPacket
    /\ Framed
    /\ \A k \in 1..(NPacket + 1) :
          open /\ k = Len(delivered) + 1 =>
              IF state = "hdr" THEN AtHeader(k) ELSE InBody(k)

LEMMA InitAligned == Init => Aligned
<1> SUFFICES ASSUME Init PROVE Aligned
    OBVIOUS
<1>1. size \in [Packet -> 0..MaxSize] /\ wire = StreamFrom(1) /\ buf = <<>> /\ state = "hdr"
      /\ hdrLen = 0 /\ delivered = <<>> /\ Len(delivered) = 0
    BY DEF Init
<1>2. wire \in Seq(Unit)
    BY <1>1, StreamFacts, ParserAssumption
<1>3. \A k : k = Len(delivered) + 1 => AtHeader(k)
    BY <1>1, <1>2, ConcatEmptySeq DEF AtHeader
<1>4. ASSUME wire # <<>> PROVE wire[1][2] \notin 2..HdrLen
  <2>1. 1 \in Packet
      BY <1>1, <1>4, StreamFacts, ParserAssumption DEF Packet
  <2>2. wire = Header(1) \o (Body(1) \o StreamFrom(2)) /\ StreamFrom(2) \in Seq(Unit)
    <3>1. 1 + 1 = 2 /\ 2 \in 1..(NPacket + 1)
        BY <2>1, ParserAssumption DEF Packet
    <3>2. QED
        BY <1>1, <2>1, <3>1, StreamFacts
  <2>3. Header(1) \in Seq(Unit) /\ Len(Header(1)) = HdrLen /\ Header(1)[1] = <<1, 1>>
      BY <2>1, HeaderFacts, ParserAssumption
  <2>4. Body(1) \o StreamFrom(2) \in Seq(Unit)
      BY <1>1, <2>1, <2>2, BodyFacts, ConcatProperties
  <2>5. wire[1] = <<1, 1>>
    <3>1. /\ Len(Body(1) \o StreamFrom(2)) \in Nat
          /\ 1 \in 1..(HdrLen + Len(Body(1) \o StreamFrom(2))) /\ 1 <= HdrLen
        BY <2>4, ParserAssumption
    <3>2. QED
        BY <2>2, <2>3, <2>4, <3>1, ConcatProperties
  <2>6. QED
      BY <2>5
<1>5. Framed /\ Len(delivered) <= NPacket
    BY <1>1, ParserAssumption DEF Framed
<1>6. QED
    BY <1>1, <1>3, <1>4, <1>5 DEF Aligned

LEMMA RecvAligned ==
    ASSUME WholeHeaders, IInv, Aligned, NEW n \in 1..MaxRecv, n <= Len(wire), Recv(n)
    PROVE  Aligned'
<1>1. wire \in Seq(Unit) /\ n \in 0..Len(wire) /\ Len(wire) \in Nat
    BY ParserAssumption DEF IInv, Types
<1>2. /\ buf' \in Seq(Unit) /\ wire' \in Seq(Unit) /\ buf' \o wire' = wire
      /\ Len(wire') = Len(wire) - n
      /\ n < Len(wire) => wire'[1] = wire[n + 1]
    BY <1>1, Cutting DEF Recv
<1>3. wire' # <<>> => wire'[1][2] \notin 2..HdrLen
  <2>1. wire' # <<>> => n < Len(wire)
      BY <1>1, <1>2, EmptySeq
  <2>2. QED
      BY <1>2, <2>1 DEF Recv
<1>4. buf \o wire = wire /\ buf' \o wire' = buf \o wire
    BY <1>1, <1>2, ConcatEmptySeq DEF Recv
<1>5. \A k : (AtHeader(k) => AtHeader(k)') /\ (InBody(k) => InBody(k)')
    BY <1>4, SameStream DEF AtHeader, InBody, Recv
<1>6. Framed'
    BY DEF Aligned, Framed, Recv
<1>7. QED
    BY <1>3, <1>5, <1>6 DEF Aligned, Recv

\* A turn that begins at a header finds the whole of it in the buffer.
LEMMA ParseHdrAligned ==
    ASSUME IInv, Aligned, ParseHdr
    PROVE  Aligned'
<1>1. /\ buf \in Seq(Unit) /\ wire \in Seq(Unit) /\ buf # <<>> /\ open /\ Len(delivered) \in Nat
      /\ hdrLen = 0 /\ content = <<>> /\ state = "hdr" /\ size \in [Packet -> 0..MaxSize]
      /\ NPacket \in Nat /\ HdrLen \in Nat \ {0} /\ size' = size
    BY ParserAssumption DEF IInv, Types, Phase, Aligned, ParseHdr
<1>2. PICK k \in 1..(NPacket + 1) : k = Len(delivered) + 1 /\ AtHeader(k)
    BY <1>1 DEF Aligned
<1> DEFINE rest == Body(k) \o StreamFrom(k + 1)
<1>3. k \in Packet
  <2>1. buf \o wire # <<>>
      BY <1>1, ConcatEqualIffEmpty
  <2>2. StreamFrom(k) # <<>>
      BY <1>2, <2>1 DEF AtHeader
  <2>3. k # NPacket + 1
      BY <1>1, <2>2, StreamFacts
  <2>4. QED
      BY <1>1, <1>2, <2>3 DEF Packet
<1>4. /\ Header(k) \in Seq(Unit) /\ Len(Header(k)) = HdrLen /\ rest \in Seq(Unit)
      /\ Header(k) = [i \in 1..HdrLen |-> <<k, i>>]
      /\ Header(k) \o rest = buf \o wire
  <2>1. k + 1 \in 1..(NPacket + 1)
      BY <1>1, <1>3 DEF Packet
  <2>2. StreamFrom(k + 1) \in Seq(Unit) /\ Body(k) \in Seq(Unit)
      BY <1>1, <1>3, <2>1, StreamFacts, BodyFacts
  <2>3. rest \in Seq(Unit)
      BY <2>2, ConcatProperties
  <2>4. StreamFrom(k) = Header(k) \o rest
      BY <1>1, <1>3, StreamFacts
  <2>5. QED
      BY <1>2, <1>3, <2>3, <2>4, HeaderFacts DEF AtHeader
<1> HIDE DEF rest
<1>5. ASSUME NEW i \in 1..HdrLen PROVE (buf \o wire)[i] = <<k, i>>
  <2> DEFINE h == Header(k)
  <2>1. h \in Seq(Unit) /\ Len(h) = HdrLen /\ h[i] = <<k, i>> /\ h \o rest = buf \o wire
      BY <1>4
  <2> HIDE DEF h
  <2>2. i \in 1..(Len(h) + Len(rest)) /\ i <= Len(h)
      BY <1>1, <1>4, <2>1
  <2>3. (h \o rest)[i] = h[i]
      BY <1>4, <2>1, <2>2, ConcatProperties
  <2>4. QED
      BY <2>1, <2>3, Zenon
<1>6. HdrLen <= Len(buf)
  <2>1. SUFFICES ASSUME Len(buf) < HdrLen PROVE FALSE
      BY <1>1
  <2>2. Len(buf) \in Nat /\ Len(buf) >= 1 /\ Len(wire) \in Nat
      BY <1>1, EmptySeq
  <2>3. Len(buf \o wire) = HdrLen + Len(rest) /\ Len(rest) \in Nat
    <3>1. Len(Header(k) \o rest) = Len(Header(k)) + Len(rest)
        BY <1>4, ConcatProperties
    <3>2. Len(rest) \in Nat
        BY <1>4
    <3>3. QED
        BY <1>4, <3>1, <3>2, Zenon
  <2>4. Len(buf \o wire) = Len(buf) + Len(wire)
      BY <1>1, ConcatProperties
  <2>5. Len(wire) >= 1
      BY <1>1, <2>1, <2>2, <2>3, <2>4
  <2>6. Len(buf) + 1 \in 1..(Len(buf) + Len(wire)) /\ ~(Len(buf) + 1 <= Len(buf))
        /\ Len(buf) + 1 - Len(buf) = 1
      BY <2>2, <2>5
  <2>7. (buf \o wire)[Len(buf) + 1] = wire[1]
      BY <1>1, <2>6, ConcatProperties
  <2>8. Len(buf) + 1 \in 1..HdrLen /\ Len(buf) + 1 \in 2..HdrLen
      BY <1>1, <2>1, <2>2
  <2>9. wire[1] = <<k, Len(buf) + 1>>
      BY <1>5, <2>7, <2>8
  <2>10. wire # <<>>
      BY <2>5, EmptySeq
  <2>11. QED
      BY <2>8, <2>9, <2>10 DEF Aligned
<1>7. WantSize(HdrLen - hdrLen) = HdrLen /\ hdrLen + HdrLen = HdrLen
    BY <1>1, <1>6 DEF WantSize
<1>8. /\ hdr' = [i \in 1..HdrLen |-> IF i <= HdrLen THEN buf[i] ELSE hdr[i]]
      /\ hdrSize' \in IF buf[HdrLen][2] = HdrLen THEN {size[buf[HdrLen][1]]} ELSE 0..MaxSize
      /\ hdrLen' = HdrLen /\ state' = "content"
      /\ buf' = Rest(HdrLen)
      /\ UNCHANGED <<size, wire, open, content, delivered>>
    BY <1>1, <1>7 DEF ParseHdr
<1>9. \A i \in 1..HdrLen : buf[i] = <<k, i>>
  <2>1. ASSUME NEW i \in 1..HdrLen PROVE (buf \o wire)[i] = buf[i]
    <3>1. i \in 1..(Len(buf) + Len(wire)) /\ i <= Len(buf)
        BY <1>1, <1>6
    <3>2. QED
        BY <1>1, <3>1, ConcatProperties
  <2>2. QED
      BY <1>5, <2>1
<1>10. hdr' = Header(k) /\ hdrSize' = size[k]
  <2>1. hdr' = [i \in 1..HdrLen |-> <<k, i>>]
      BY <1>8, <1>9
  <2>2. HdrLen \in 1..HdrLen /\ buf[HdrLen] = <<k, HdrLen>>
      BY <1>1, <1>9
  <2>3. QED
      BY <1>4, <1>8, <2>1, <2>2
<1>11. rest = buf' \o wire
  <2>1. HdrLen \in 0..Len(buf)
      BY <1>1, <1>6
  <2>2. PICK a \in Seq(Unit), b \in Seq(Unit) :
            b = Rest(HdrLen) /\ Len(a) = HdrLen /\ a \o b = buf
    <3>1. /\ SubSeq(buf, 1, HdrLen) \in Seq(Unit) /\ Rest(HdrLen) \in Seq(Unit)
          /\ Len(SubSeq(buf, 1, HdrLen)) = HdrLen
          /\ SubSeq(buf, 1, HdrLen) \o Rest(HdrLen) = buf
        BY <1>1, <2>1, Cutting DEF Rest
    <3>2. QED
        BY <3>1, Zenon
  <2>3. wire \in Seq(Unit) /\ Header(k) \in Seq(Unit) /\ rest \in Seq(Unit)
      BY <1>1, <1>4
  <2>4. Rejoined(a, b, wire) /\ Joins(Unit, b, wire)
      BY <2>3, Rejoining, Joining
  <2>5. b \o wire \in Seq(Unit)
      BY <2>4 DEF Joins
  <2>6. SplitOnce(Header(k), rest, a, b \o wire)
      BY <2>3, <2>5, Splitting
  <2>7. Header(k) \o rest = a \o (b \o wire) /\ Len(Header(k)) = Len(a)
      BY <1>4, <2>2, <2>4, Zenon DEF Rejoined
  <2>8. rest = b \o wire
      BY <2>6, <2>7, Zenon DEF SplitOnce
  <2>9. QED
      BY <1>8, <2>2, <2>8
<1>12. InBody(k)'
  <2>1. buf' \o wire \in Seq(Unit) /\ content' = <<>>
      BY <1>1, <1>4, <1>8, <1>11
  <2>2. content' \o (buf' \o wire') = rest
      BY <1>8, <1>11, <2>1, ConcatEmptySeq
  <2>3. rest = Body(k)' \o StreamFrom(k + 1)'
    <3>1. Body(k)' = Body(k) /\ StreamFrom(k + 1)' = StreamFrom(k + 1)
        BY <1>1, SameStream
    <3>2. QED
        BY <3>1 DEF rest
  <2>4. hdr' = Header(k)' /\ hdrSize' = size'[k]
      BY <1>1, <1>10 DEF Header, Units
  <2>5. QED
      BY <1>3, <2>2, <2>3, <2>4 DEF InBody
<1>13. Framed'
    BY <1>8 DEF Aligned, Framed
<1>14. ASSUME NEW j \in 1..(NPacket + 1), j = Len(delivered') + 1
       PROVE  j = k
    BY <1>2, <1>8, <1>14
<1>15. \A j \in 1..(NPacket + 1) : j = Len(delivered') + 1 => InBody(j)'
    BY <1>12, <1>14
<1>16. open' /\ Len(delivered') <= NPacket
    BY <1>1, <1>8 DEF Aligned
<1>17. wire' # <<>> => wire'[1][2] \notin 2..HdrLen
    BY <1>8 DEF Aligned
<1>18. QED
    BY <1>8, <1>13, <1>15, <1>16, <1>17 DEF Aligned

LEMMA ParseContentAligned ==
    ASSUME IInv, Aligned, ParseContent
    PROVE  Aligned'
<1>1. PICK n \in 0..Len(buf) : Taken(n) /\ (Completes(n) \/ Continues(n))
    BY ContentFacts
<1>2. /\ buf \in Seq(Unit) /\ wire \in Seq(Unit) /\ content \in Seq(Unit) /\ Len(delivered) \in Nat
      /\ size \in [Packet -> 0..MaxSize] /\ delivered \in Seq(Delivery)
      /\ NPacket \in Nat /\ open /\ state = "content" /\ Len(content) \in Nat
  <2>1. buf # <<>> /\ state = "content"
      BY DEF ParseContent
  <2>2. open
      BY <2>1 DEF Aligned
  <2>3. Len(content) \in Nat /\ Len(delivered) \in Nat
      BY DEF IInv, Types
  <2>4. QED
      BY <2>1, <2>2, <2>3, ParserAssumption DEF IInv, Types
<1>3. PICK k \in 1..(NPacket + 1) : k = Len(delivered) + 1 /\ InBody(k) /\ k \in Packet
  <2>1. Len(delivered) + 1 \in 1..(NPacket + 1)
      BY <1>2 DEF Aligned
  <2>2. InBody(Len(delivered) + 1)
      BY <1>2, <2>1 DEF Aligned
  <2>3. QED
      BY <2>1, <2>2 DEF InBody
<1> DEFINE front == SubSeq(buf, 1, n)
           more == StreamFrom(k + 1)
<1>4. /\ front \in Seq(Unit) /\ Len(front) = n /\ Rest(n) \in Seq(Unit)
      /\ front \o Rest(n) = buf
      /\ UNCHANGED <<size, wire, hdr, hdrSize>>
    BY <1>1 DEF Taken
<1>5. k + 1 \in 1..(NPacket + 1) /\ more \in Seq(Unit) /\ Body(k) \in Seq(Unit) /\ Len(Body(k)) = size[k]
  <2>1. k + 1 \in 1..(NPacket + 1)
      BY <1>2, <1>3 DEF Packet
  <2>2. QED
      BY <1>2, <1>3, <2>1, StreamFacts, BodyFacts
<1>6. \A j : StreamFrom(j)' = StreamFrom(j) /\ Body(j)' = Body(j)
    BY <1>4, SameStream
<1>7. /\ content \o front \in Seq(Unit) /\ Len(content \o front) = Len(content) + n
      /\ Rest(n) \o wire \in Seq(Unit)
      /\ (content \o front) \o (Rest(n) \o wire) = content \o (buf \o wire)
  <2>1. PICK a \in Seq(Unit), b \in Seq(Unit) :
            a = front /\ b = Rest(n) /\ Len(a) = n /\ a \o b = buf
      BY <1>4
  <2>2. content \in Seq(Unit) /\ wire \in Seq(Unit)
      BY <1>2
  <2>3. Regrouped(content, a, b, wire) /\ Joins(Unit, content, a) /\ Joins(Unit, b, wire)
      BY <2>2, Grouping, Joining
  <2>4. (content \o a) \o (b \o wire) = content \o (buf \o wire)
      BY <2>1, <2>3, Zenon DEF Regrouped
  <2>5. content \o a \in Seq(Unit) /\ Len(content \o a) = Len(content) + Len(a)
        /\ b \o wire \in Seq(Unit)
      BY <2>3 DEF Joins
  <2>6. QED
      BY <2>1, <2>4, <2>5, Zenon
<1> HIDE DEF front, more
<1>8. Body(k) \o more = (content \o front) \o (Rest(n) \o wire)
    BY <1>3, <1>7 DEF InBody, more
<1>9. CASE Completes(n)
  <2>1. more = Rest(n) \o wire
    <3>1. Len(content \o front) = Len(Body(k))
        BY <1>3, <1>5, <1>7, <1>9 DEF Completes, InBody
    <3>2. QED
      <4>1. SplitOnce(Body(k), more, content \o front, Rest(n) \o wire)
          BY <1>5, <1>7, Splitting
      <4>2. QED
          BY <1>8, <3>1, <4>1, Zenon DEF SplitOnce
  <2>2. /\ delivered' = Append(delivered, [hdr |-> hdr, content |-> <<>>, len |-> hdrSize])
        /\ state' = "hdr" /\ hdrLen' = 0 /\ buf' = IF open' THEN Rest(n) ELSE <<>>
      BY <1>9 DEF Completes
  <2>3. /\ Len(delivered') = k /\ k <= NPacket
        /\ \A j \in 1..Len(delivered) : delivered'[j] = delivered[j]
        /\ delivered'[k] = [hdr |-> hdr, content |-> <<>>, len |-> hdrSize]
    <3>1. [hdr |-> hdr, content |-> <<>>, len |-> hdrSize] \in Delivery
        BY DEF Delivery, IInv, Types
    <3>2. k <= NPacket
        BY <1>2, <1>3 DEF Packet
    <3>3. QED
        BY <1>2, <1>3, <2>2, <3>1, <3>2, AppendProperties
  <2>4. Framed'
    <3>1. ASSUME NEW j \in 1..Len(delivered')
          PROVE  delivered'[j].hdr = Header(j) /\ delivered'[j].len = size[j]
      <4>1. CASE j = k
        <5>1. hdr = Header(k) /\ hdrSize = size[k]
            BY <1>3 DEF InBody
        <5>2. delivered'[k].hdr = hdr /\ delivered'[k].len = hdrSize
            BY <2>3
        <5>3. QED
            BY <4>1, <5>1, <5>2, Zenon
      <4>2. CASE j # k
        <5>1. j \in 1..Len(delivered)
            BY <1>2, <1>3, <2>3, <4>2
        <5>2. QED
            BY <2>3, <5>1 DEF Aligned, Framed
      <4>3. QED
          BY <4>1, <4>2
    <3>2. QED
        BY <1>4, <3>1 DEF Framed
  <2>5. ASSUME NEW j \in 1..(NPacket + 1), open', j = Len(delivered') + 1
        PROVE  AtHeader(j)'
    <3>1. j = k + 1
        BY <2>3, <2>5
    <3>2. StreamFrom(k + 1)' = buf' \o wire'
        BY <1>4, <1>6, <2>1, <2>2, <2>5 DEF more
    <3>3. QED
        BY <3>1, <3>2 DEF AtHeader
  <2>6. QED
      BY <1>4, <2>2, <2>3, <2>4, <2>5 DEF Aligned
<1>10. CASE Continues(n)
  <2>1. /\ content' = content \o front /\ buf' = Rest(n)
        /\ UNCHANGED <<state, hdrLen, delivered, open>>
      BY <1>10 DEF Continues, front
  <2>2. InBody(k)'
      BY <1>3, <1>4, <1>6, <1>8, <2>1 DEF InBody, more
  <2>3. Framed'
      BY <1>4, <2>1 DEF Aligned, Framed
  <2>4. QED
    <3>1. ASSUME NEW j \in 1..(NPacket + 1), j = Len(delivered') + 1
          PROVE  j = k
        BY <1>3, <2>1, <3>1
    <3>2. QED
        BY <1>2, <1>4, <2>1, <2>2, <2>3, <3>1 DEF Aligned
<1>11. QED
    BY <1>1, <1>9, <1>10

LEMMA NextAligned == WholeHeaders /\ IInv /\ Aligned /\ [Next]_vars => Aligned'
<1> SUFFICES ASSUME WholeHeaders, IInv, Aligned, [Next]_vars PROVE Aligned'
    OBVIOUS
<1>1. CASE UNCHANGED vars
  <2>1. \A k : (AtHeader(k) => AtHeader(k)') /\ (InBody(k) => InBody(k)')
      BY <1>1, SameStream DEF vars, AtHeader, InBody
  <2>2. QED
      BY <1>1, <2>1 DEF vars, Aligned, Framed
<1>2. QED
    BY <1>1, RecvAligned, ParseHdrAligned, ParseContentAligned DEF Next

\* What is aligned is in step.
LEMMA AlignedInStep == IInv /\ Aligned => InStep
<1> SUFFICES ASSUME IInv, Aligned, open
             PROVE  StreamFrom(Len(delivered) + 1) = Held \o buf \o wire
    BY DEF InStep
<1>1. /\ buf \in Seq(Unit) /\ wire \in Seq(Unit) /\ content \in Seq(Unit) /\ Len(delivered) \in Nat
      /\ size \in [Packet -> 0..MaxSize] /\ NPacket \in Nat /\ HdrLen \in Nat
    BY ParserAssumption DEF IInv, Types
<1> DEFINE k == Len(delivered) + 1
<1>2. k \in 1..(NPacket + 1)
    BY <1>1 DEF Aligned
<1>3. CASE state = "hdr"
  <2>1. AtHeader(k) /\ hdrLen = 0 /\ content = <<>>
      BY <1>2, <1>3 DEF Aligned, IInv, Phase
  <2>2. SubSeq(hdr, 1, hdrLen) = <<>>
      BY <2>1, SubSeqEmpty
  <2>3. Held = <<>>
      BY <1>1, <2>1, <2>2, ConcatEmptySeq DEF Held
  <2>4. Held \o buf = buf
      BY <1>1, <2>3, ConcatEmptySeq
  <2>5. QED
      BY <2>1, <2>4 DEF AtHeader
<1>4. CASE state = "content"
  <2>1. InBody(k) /\ hdrLen = HdrLen /\ k \in Packet
      BY <1>2, <1>4 DEF Aligned, IInv, Phase, InBody
  <2> HIDE DEF k
  <2>2. Header(k) \in Seq(Unit) /\ Len(Header(k)) = HdrLen
      BY <2>1, HeaderFacts
  <2>3. SubSeq(hdr, 1, hdrLen) = Header(k)
      BY <2>1, <2>2, SubSeqFull DEF InBody
  <2>4. Held = Header(k) \o content
      BY <2>3 DEF Held
  <2>5. (Held \o buf) \o wire = Header(k) \o (content \o (buf \o wire))
    <3>1. Regrouped(Header(k), content, buf, wire)
        BY <1>1, <2>2, Grouping
    <3>2. QED
        BY <2>4, <3>1, Zenon DEF Regrouped
  <2>6. StreamFrom(k) = Header(k) \o (content \o (buf \o wire))
      BY <1>1, <2>1, StreamFacts DEF InBody
  <2>7. QED
      BY <2>5, <2>6 DEF k
<1>5. QED
    BY <1>3, <1>4 DEF IInv, Types

\* When every recv returns whole headers, for any number of packets with bodies of any
\* length and however the bodies are split: the loop of Parse always stands at the unit
\* of the stream it takes itself to be at, and OnParsePacket is given the header and the
\* length of each packet in turn (Parser.cpp:24-71, Parser.h:12-15).
THEOREM ParserIsInStep == Spec => [](WholeHeaders => InStep /\ Framed)
<1> DEFINE Inv == WholeHeaders => Aligned
<1>1. Init => Inv
    BY InitAligned
<1>2. IInv /\ Inv /\ [Next]_vars => Inv'
    BY NextAligned
<1>3. IInv /\ Inv => (WholeHeaders => InStep /\ Framed)
    BY AlignedInStep DEF Aligned
<1>4. QED
    BY InitIInv, NextIInv, <1>1, <1>2, <1>3, PTL DEF Spec

\* A packet has a header at least, so the stream from it on is not empty.
LEMMA StreamNotEmpty ==
    ASSUME size \in [Packet -> 0..MaxSize], NEW k \in Packet
    PROVE  StreamFrom(k) # <<>>
<1>1. Header(k) \in Seq(Unit) /\ Len(Header(k)) = HdrLen
    BY HeaderFacts
<1>2. k + 1 \in 1..(NPacket + 1)
    BY ParserAssumption DEF Packet
<1>3. Body(k) \in Seq(Unit) /\ StreamFrom(k + 1) \in Seq(Unit)
    BY <1>2, BodyFacts, StreamFacts
<1>4. Joins(Unit, Body(k), StreamFrom(k + 1))
    BY <1>3, Joining
<1>5. Body(k) \o StreamFrom(k + 1) \in Seq(Unit)
    BY <1>4 DEF Joins
<1>6. Joins(Unit, Header(k), Body(k) \o StreamFrom(k + 1))
    BY <1>1, <1>5, Joining
<1>7. StreamFrom(k) = Header(k) \o (Body(k) \o StreamFrom(k + 1))
    BY StreamFacts
<1>8. Len(StreamFrom(k)) = HdrLen + Len(Body(k) \o StreamFrom(k + 1))
    BY <1>1, <1>6, <1>7, Zenon DEF Joins
<1>9. Len(Body(k) \o StreamFrom(k + 1)) \in Nat
    BY <1>5
<1>10. Len(StreamFrom(k)) # 0
    BY <1>8, <1>9, ParserAssumption
<1>11. QED
    BY <1>10, EmptySeq

\* Every packet of the peer has been given to OnParsePacket.
AllDelivered == Len(delivered) = NPacket

\* All but the last, which has no body and waits for a next call of Parse.
LastWaits == Len(delivered) + 1 = NPacket /\ size[NPacket] = 0

\* When everything the peer sent has gone through Parse, every packet has been delivered,
\* each once, but for a last one without a body: such a packet is looked at only when
\* more bytes come (Parser.cpp:24-71).
THEOREM ParserDeliversAll ==
    Spec => [](WholeHeaders /\ open /\ buf = <<>> /\ wire = <<>> =>
                    AllDelivered \/ LastWaits)
<1> DEFINE Inv == WholeHeaders => Aligned
           Goal == WholeHeaders /\ open /\ buf = <<>> /\ wire = <<>> =>
                       AllDelivered \/ LastWaits
<1>1. Init => Inv
    BY InitAligned
<1>2. IInv /\ Inv /\ [Next]_vars => Inv'
    BY NextAligned
<1>3. IInv /\ Inv => Goal
  <2> SUFFICES ASSUME IInv, Aligned, open, buf = <<>>, wire = <<>>
               PROVE  AllDelivered \/ LastWaits
      OBVIOUS
  <2>1. /\ size \in [Packet -> 0..MaxSize] /\ content \in Seq(Unit) /\ Len(delivered) \in Nat
        /\ NPacket \in Nat /\ state \in {"hdr", "content"} /\ HdrLen \in Nat \ {0}
      BY ParserAssumption DEF IInv, Types
  <2>2. PICK k \in 1..(NPacket + 1) : k = Len(delivered) + 1
      BY <2>1 DEF Aligned
  <2>3. buf \o wire = <<>>
      BY ConcatEmptySeq
  <2>4. CASE state = "hdr"
    <3>1. StreamFrom(k) = <<>>
        BY <2>2, <2>3, <2>4 DEF Aligned, AtHeader
    <3>2. k \notin Packet
        BY <2>1, <3>1, StreamNotEmpty
    <3>3. k = NPacket + 1
        BY <2>1, <2>2, <3>2 DEF Packet
    <3>4. QED
        BY <2>1, <2>2, <3>3 DEF AllDelivered
  <2>5. CASE state = "content"
    <3>1. InBody(k) /\ (Len(content) < hdrSize \/ hdrSize = 0)
        BY <2>2, <2>5 DEF Aligned, IInv, Phase
    <3>2. k \in Packet /\ hdrSize = size[k] /\ Body(k) \o StreamFrom(k + 1) = content
        BY <2>1, <2>3, <3>1, ConcatEmptySeq DEF InBody
    <3>3. k + 1 \in 1..(NPacket + 1)
        BY <2>1, <3>2 DEF Packet
    <3>4. Body(k) \in Seq(Unit) /\ Len(Body(k)) = size[k] /\ StreamFrom(k + 1) \in Seq(Unit)
        BY <2>1, <3>2, <3>3, BodyFacts, StreamFacts
    <3>5. Len(content) = Len(Body(k)) + Len(StreamFrom(k + 1))
      <4>1. Joins(Unit, Body(k), StreamFrom(k + 1))
          BY <3>4, Joining
      <4>2. QED
          BY <3>2, <4>1, Zenon DEF Joins
    <3>6. Len(content) \in Nat /\ size[k] \in Nat /\ Len(StreamFrom(k + 1)) \in Nat
          /\ Len(content) <= hdrSize
        BY <2>1, <3>2, <3>4, ParserAssumption DEF IInv, Phase
    <3>7. size[k] = 0 /\ Len(StreamFrom(k + 1)) = 0
        BY <3>1, <3>2, <3>4, <3>5, <3>6
    <3>8. k = NPacket
      <4>1. StreamFrom(k + 1) = <<>>
          BY <3>4, <3>7, EmptySeq
      <4>2. k + 1 \notin Packet
          BY <2>1, <3>3, <4>1, StreamNotEmpty
      <4>3. QED
          BY <2>1, <3>2, <4>2 DEF Packet
    <3>9. QED
        BY <2>2, <3>7, <3>8 DEF LastWaits
  <2>6. QED
      BY <2>1, <2>4, <2>5
<1>4. QED
    BY InitIInv, NextIInv, <1>1, <1>2, <1>3, PTL DEF Spec

=============================================================================
