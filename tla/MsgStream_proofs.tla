-------------------------- MODULE MsgStream_proofs --------------------------
(***************************************************************************)
(* Proofs about Buffer and MsgStream.  Each operation of Buffer keeps the  *)
(* buffer well-formed and does to its content what it is for; from that    *)
(* the connection's two buffers hold what they should, for every size of   *)
(* heads, bodies and arrays, and onMsg cuts the input into the messages    *)
(* that were sent.                                                         *)
(***************************************************************************)
EXTENDS MsgStream, SequenceTheorems, TLAPS

----------------------------------------------------------------------------
(* The operations of Buffer.                                               *)

LEMMA BufferFields ==
    ASSUME NEW B, IsBuffer(B)
    PROVE  /\ B.b \in Nat /\ B.e \in Nat /\ B.cap \in Nat /\ B.b <= B.e /\ B.e <= B.cap
           /\ B.mem \in [1 .. B.cap -> Nat] /\ size(B) \in Nat /\ size(B) <= B.e
           /\ B.b + size(B) = B.e
  BY DEF IsBuffer, size

LEMMA ContentType ==
    ASSUME NEW B, IsBuffer(B)
    PROVE  Content(B) \in Seq(Nat) /\ Len(Content(B)) = size(B)
  <1>1. \A i \in 1 .. size(B) : B.b + i \in 1 .. B.cap
    BY BufferFields
  <1>2. \A i \in 1 .. size(B) : B.mem[B.b + i] \in Nat
    BY <1>1, BufferFields
  <1> QED
    BY <1>2, BufferFields DEF Content

\* A buffer made of its fields.
LEMMA MakeBuffer ==
    ASSUME NEW b \in Nat, NEW e \in Nat, NEW cap \in Nat, NEW mem \in [1 .. cap -> Nat],
           b <= e, e <= cap
    PROVE  IsBuffer([b |-> b, e |-> e, cap |-> cap, mem |-> mem])
  BY DEF IsBuffer

LEMMA EmptyOK == IsBuffer(Empty) /\ Content(Empty) = <<>>
  <1>1. <<>> \in [1 .. 0 -> Nat]
    OBVIOUS
  <1> QED
    BY <1>1 DEF Empty, IsBuffer, Content, size

LEMMA ExpandOK ==
    ASSUME NEW B, IsBuffer(B), NEW len \in Nat
    PROVE  /\ IsBuffer(expand(B, len)) /\ Content(expand(B, len)) = Content(B)
           /\ expand(B, len).e + len <= expand(B, len).cap
  <1> DEFINE n == Larger(Exp, Larger(2 * B.cap, size(B) + len))
             m == [i \in 1 .. n |-> IF i <= size(B) THEN B.mem[B.b + i] ELSE Undefined]
             E == [b |-> 0, e |-> size(B), cap |-> n, mem |-> m]
  <1>1. n \in Nat /\ size(B) + len <= n
    BY BufferAssumption, BufferFields DEF Larger
  <1>2. \A i \in 1 .. size(B) : B.b + i \in 1 .. B.cap /\ B.mem[B.b + i] \in Nat
    BY BufferFields
  <1> HIDE DEF n
  <1>3. m \in [1 .. n -> Nat]
    BY <1>1, <1>2, BufferFields DEF Undefined
  <1>4. IsBuffer(E)
    <2>1. size(B) \in Nat /\ n \in Nat /\ size(B) <= n
      BY <1>1, BufferFields
    <2> HIDE DEF m
    <2> QED
      BY <1>3, <2>1, MakeBuffer
  <1>5. \A i \in 1 .. size(B) : i \in 1 .. n /\ m[i] = B.mem[B.b + i]
    BY <1>1, BufferFields
  <1>6. Content(E) = Content(B)
    <2>1. size(E) = size(B)
      BY BufferFields DEF size
    <2>2. Content(E) = [i \in 1 .. size(B) |-> m[0 + i]]
      BY <2>1 DEF Content
    <2>3. \A i \in 1 .. size(B) : m[0 + i] = B.mem[B.b + i]
      BY <1>5, BufferFields
    <2> HIDE DEF m
    <2> QED
      BY <2>2, <2>3 DEF Content
  <1>7. expand(B, len) = E
    BY DEF expand, n
  <1> QED
    BY <1>1, <1>4, <1>6, <1>7

LEMMA MoveHeadOK ==
    ASSUME NEW B, IsBuffer(B), NEW len \in Nat, size(B) + len < B.cap \div 2
    PROVE  /\ IsBuffer(moveHead(B)) /\ Content(moveHead(B)) = Content(B)
           /\ moveHead(B).e + len <= moveHead(B).cap
  <1> DEFINE m == [i \in 1 .. B.cap |-> IF i <= size(B) THEN B.mem[B.b + i] ELSE B.mem[i]]
             E == [b |-> 0, e |-> size(B), cap |-> B.cap, mem |-> m]
  <1>1. size(B) + len <= B.cap
    BY BufferFields
  <1>2. \A i \in 1 .. size(B) : B.b + i \in 1 .. B.cap /\ B.mem[B.b + i] \in Nat
    BY BufferFields, SMTT(20)
  <1>3. m \in [1 .. B.cap -> Nat]
    BY <1>2, BufferFields, SMTT(20)
  <1>4. IsBuffer(E)
    <2>1. size(B) \in Nat /\ B.cap \in Nat /\ size(B) <= B.cap
      BY <1>1, BufferFields
    <2> HIDE DEF m
    <2> QED
      BY <1>3, <2>1, MakeBuffer
  <1>5. \A i \in 1 .. size(B) : i \in 1 .. B.cap /\ m[i] = B.mem[B.b + i]
    BY <1>1, BufferFields
  <1>6. Content(E) = Content(B)
    <2>1. size(E) = size(B)
      BY BufferFields DEF size
    <2>2. Content(E) = [i \in 1 .. size(B) |-> m[0 + i]]
      BY <2>1 DEF Content
    <2>3. \A i \in 1 .. size(B) : m[0 + i] = B.mem[B.b + i]
      BY <1>5, BufferFields
    <2> HIDE DEF m
    <2> QED
      BY <2>2, <2>3 DEF Content
  <1> QED
    BY <1>1, <1>4, <1>6 DEF moveHead

LEMMA MakeRoomOK ==
    ASSUME NEW B, IsBuffer(B), NEW len \in Nat
    PROVE  /\ IsBuffer(makeRoom(B, len)) /\ Content(makeRoom(B, len)) = Content(B)
           /\ makeRoom(B, len).e + len <= makeRoom(B, len).cap
  BY ExpandOK, MoveHeadOK DEF makeRoom

LEMMA MakeRoomToReadOK ==
    ASSUME NEW B, IsBuffer(B)
    PROVE  IsBuffer(makeRoomToRead(B)) /\ Content(makeRoomToRead(B)) = Content(B)
  BY ExpandOK DEF makeRoomToRead

\* The places past the first z of b are those past b + z.
LEMMA Shifted ==
    ASSUME NEW b \in Nat, NEW z \in Nat, NEW n \in Nat, NEW i \in 1 .. z + n, ~ (i <= z)
    PROVE  b + i \in (b + z) + 1 .. (b + z) + n /\ (b + i) - (b + z) = i - z
  OBVIOUS

LEMMA FillOK ==
    ASSUME NEW B, IsBuffer(B), NEW s \in Seq(Nat), B.e + Len(s) <= B.cap
    PROVE  IsBuffer(fill(B, s)) /\ Content(fill(B, s)) = Content(B) \o s
  <1> DEFINE m == [i \in 1 .. B.cap |->
                      IF i \in B.e + 1 .. B.e + Len(s) THEN s[i - B.e] ELSE B.mem[i]]
             E == [b |-> B.b, e |-> B.e + Len(s), cap |-> B.cap, mem |-> m]
  <1>0. Len(s) \in Nat /\ \A i \in 1 .. Len(s) : s[i] \in Nat
    OBVIOUS
  <1>1. fill(B, s) = E
    <2>1. fill(B, s) = [B EXCEPT !.e = @ + Len(s), !.mem = m]
      BY DEF fill
    <2>2. B = [b |-> B.b, e |-> B.e, cap |-> B.cap, mem |-> B.mem]
      BY DEF IsBuffer
    <2> HIDE DEF m
    <2> QED
      BY <2>1, <2>2
  <1>2. \A i \in B.e + 1 .. B.e + Len(s) : i - B.e \in 1 .. Len(s)
    BY <1>0, BufferFields
  <1>3. m \in [1 .. B.cap -> Nat]
    BY <1>0, <1>2, BufferFields
  <1>4. IsBuffer(E)
    <2>1. /\ B.b \in Nat /\ B.e + Len(s) \in Nat /\ B.cap \in Nat
          /\ B.b <= B.e + Len(s) /\ B.e + Len(s) <= B.cap
      BY <1>0, BufferFields
    <2> HIDE DEF m
    <2> QED
      BY <1>3, <2>1, MakeBuffer
  <1>5. size(E) = size(B) + Len(s)
    BY <1>0, BufferFields DEF size
  <1>6. \A i \in 1 .. size(B) + Len(s) :
           m[B.b + i] = IF i <= size(B) THEN B.mem[B.b + i] ELSE s[i - size(B)]
    <2> SUFFICES ASSUME NEW i \in 1 .. size(B) + Len(s)
                 PROVE  m[B.b + i] = IF i <= size(B) THEN B.mem[B.b + i] ELSE s[i - size(B)]
      OBVIOUS
    <2>1. B.b + i \in 1 .. B.cap
      BY <1>0, BufferFields
    <2>2. CASE i <= size(B)
      <3>1. B.b + i \notin B.e + 1 .. B.e + Len(s)
        BY <1>0, <2>2, BufferFields
      <3> QED
        BY <2>1, <2>2, <3>1
    <2>3. CASE ~ (i <= size(B))
      <3>1. B.b + i \in B.e + 1 .. B.e + Len(s) /\ (B.b + i) - B.e = i - size(B)
        <4>1. B.b \in Nat /\ B.e \in Nat /\ size(B) \in Nat /\ B.b + size(B) = B.e
          BY BufferFields
        <4>2. /\ B.b + i \in (B.b + size(B)) + 1 .. (B.b + size(B)) + Len(s)
              /\ (B.b + i) - (B.b + size(B)) = i - size(B)
          BY <1>0, <2>3, <4>1, Shifted, SMTT(20)
        <4> QED
          BY <4>1, <4>2
      <3> QED
        BY <2>1, <2>3, <3>1
    <2> QED
      BY <2>2, <2>3
  <1>7. Content(E) = Content(B) \o s
    <2>1. Content(E) = [i \in 1 .. size(B) + Len(s) |-> m[B.b + i]]
      BY <1>5 DEF Content
    <2>2. /\ Content(B) \in Seq(Nat) /\ Len(Content(B)) = size(B) /\ size(B) \in Nat
      BY ContentType, BufferFields
    <2>3. /\ Content(B) \o s \in Seq(Nat) /\ Len(Content(B) \o s) = size(B) + Len(s)
          /\ \A i \in 1 .. size(B) + Len(s) : (Content(B) \o s)[i] =
                IF i <= size(B) THEN Content(B)[i] ELSE s[i - size(B)]
      <3> DEFINE C == Content(B)
      <3>1. C \in Seq(Nat) /\ Len(C) = size(B)
        BY <2>2
      <3> HIDE DEF C
      <3>2. /\ C \o s \in Seq(Nat) /\ Len(C \o s) = Len(C) + Len(s)
            /\ \A i \in 1 .. Len(C) + Len(s) : (C \o s)[i] =
                  IF i <= Len(C) THEN C[i] ELSE s[i - Len(C)]
        BY <3>1, ConcatProperties, Zenon
      <3>3. /\ C \o s \in Seq(Nat) /\ Len(C \o s) = size(B) + Len(s)
            /\ \A i \in 1 .. size(B) + Len(s) : (C \o s)[i] =
                  IF i <= size(B) THEN C[i] ELSE s[i - size(B)]
        BY <3>1, <3>2, Zenon
      <3> QED
        BY <3>3 DEF C
    <2>4. \A i \in 1 .. size(B) + Len(s) : i <= size(B) => Content(B)[i] = B.mem[B.b + i]
      BY <2>2 DEF Content
    <2>5. Content(E) \in Seq(Nat) /\ Len(Content(E)) = size(B) + Len(s)
      BY <1>4, <1>5, ContentType
    <2> HIDE DEF m
    <2>6. \A i \in 1 .. size(B) + Len(s) : Content(E)[i] = (Content(B) \o s)[i]
      BY <1>6, <2>1, <2>3, <2>4
    <2> HIDE DEF E
    <2> QED
      BY <2>3, <2>5, <2>6, SeqEqual
  <1> QED
    BY <1>1, <1>4, <1>7

LEMMA AppendOK ==
    ASSUME NEW B, IsBuffer(B), NEW s \in Seq(Nat)
    PROVE  IsBuffer(append(B, s)) /\ Content(append(B, s)) = Content(B) \o s
  <1>1. Len(s) \in Nat
    OBVIOUS
  <1> QED
    BY <1>1, MakeRoomOK, FillOK DEF append

LEMMA ConsumeOK ==
    ASSUME NEW B, IsBuffer(B), NEW n \in 0 .. size(B)
    PROVE  /\ IsBuffer(consume(B, n))
           /\ Content(consume(B, n)) = SubSeq(Content(B), n + 1, size(B))
  <1>0. n \in Nat /\ n <= size(B) /\ size(B) \in Nat
    BY BufferFields
  <1>1. CASE B.b + n = B.e
    <2>1. n = size(B)
      BY <1>0, <1>1, BufferFields
    <2>2. SubSeq(Content(B), n + 1, size(B)) = <<>>
      BY <1>0, <2>1, ContentType
    <2> QED
      BY <1>1, <2>2, EmptyOK DEF consume
  <1>2. CASE B.b + n # B.e
    <2> DEFINE E == [b |-> B.b + n, e |-> B.e, cap |-> B.cap, mem |-> B.mem]
    <2>1. consume(B, n) = E
      BY <1>2 DEF consume, IsBuffer
    <2>2. IsBuffer(E)
      BY <1>0, BufferFields, MakeBuffer, SMTT(20)
    <2>3. size(E) = size(B) - n
      BY <1>0, BufferFields DEF size
    <2>4. Content(E) = [i \in 1 .. size(B) - n |-> B.mem[(B.b + n) + i]]
      BY <2>3 DEF Content
    <2>5. SubSeq(Content(B), n + 1, size(B)) = [i \in 1 .. size(B) - n |-> Content(B)[i + n]]
      BY <1>0, ContentType
    <2>6. \A i \in 1 .. size(B) - n : Content(B)[i + n] = B.mem[(B.b + n) + i]
      <3> SUFFICES ASSUME NEW i \in 1 .. size(B) - n
                   PROVE  Content(B)[i + n] = B.mem[(B.b + n) + i]
        OBVIOUS
      <3>1. i + n \in 1 .. size(B) /\ B.b + (i + n) = (B.b + n) + i
        BY <1>0, BufferFields
      <3> QED
        BY <3>1 DEF Content
    <2> QED
      BY <2>1, <2>2, <2>4, <2>5, <2>6
  <1> QED
    BY <1>1, <1>2

----------------------------------------------------------------------------
(* Numbered bytes.                                                         *)

LEMMA NumberedType ==
    ASSUME NEW f \in Nat, NEW n \in Nat
    PROVE  Numbered(f, n) \in Seq(Nat) /\ Len(Numbered(f, n)) = n
  BY DEF Numbered

LEMMA NumberedConcat ==
    ASSUME NEW f \in Nat, NEW n \in Nat, NEW k \in Nat
    PROVE  Numbered(f, n) \o Numbered(f + n, k) = Numbered(f, n + k)
  <1> DEFINE s == Numbered(f, n)  t == Numbered(f + n, k)  u == Numbered(f, n + k)
  <1>1. /\ s \in Seq(Nat) /\ Len(s) = n /\ t \in Seq(Nat) /\ Len(t) = k
        /\ u \in Seq(Nat) /\ Len(u) = n + k
    <2>1. f + n \in Nat /\ n + k \in Nat
      OBVIOUS
    <2>2. s \in Seq(Nat) /\ Len(s) = n
      BY NumberedType
    <2>3. t \in Seq(Nat) /\ Len(t) = k
      BY <2>1, NumberedType
    <2>4. u \in Seq(Nat) /\ Len(u) = n + k
      BY <2>1, NumberedType
    <2> QED
      BY <2>2, <2>3, <2>4
  <1>2. /\ \A i \in 1 .. n : s[i] = f + i - 1
        /\ \A i \in 1 .. k : t[i] = f + n + i - 1
        /\ \A i \in 1 .. n + k : u[i] = f + i - 1
    BY DEF Numbered
  <1> HIDE DEF s, t, u
  <1>3. /\ s \o t \in Seq(Nat) /\ Len(s \o t) = Len(s) + Len(t)
        /\ \A i \in 1 .. Len(s) + Len(t) : (s \o t)[i] = IF i <= Len(s) THEN s[i] ELSE t[i - Len(s)]
    BY <1>1, ConcatProperties, Zenon
  <1>4. \A i \in 1 .. n + k : (s \o t)[i] = u[i]
    <2> SUFFICES ASSUME NEW i \in 1 .. n + k PROVE (s \o t)[i] = u[i]
      OBVIOUS
    <2>1. (s \o t)[i] = IF i <= n THEN s[i] ELSE t[i - n]
      BY <1>1, <1>3
    <2>2. ~ (i <= n) => i - n \in 1 .. k
      OBVIOUS
    <2> QED
      BY <1>2, <2>1, <2>2
  <1>5. s \o t = u
    BY <1>1, <1>3, <1>4, SeqEqual
  <1> QED
    BY <1>5 DEF s, t, u

LEMMA NumberedDrop ==
    ASSUME NEW f \in Nat, NEW n \in Nat, NEW k \in 0 .. n
    PROVE  SubSeq(Numbered(f, n), k + 1, n) = Numbered(f + k, n - k)
  <1> DEFINE s == Numbered(f, n)  u == Numbered(f + k, n - k)
  <1>1. /\ s \in Seq(Nat) /\ Len(s) = n /\ u \in Seq(Nat) /\ Len(u) = n - k
    <2>1. f + k \in Nat /\ n - k \in Nat
      OBVIOUS
    <2>2. s \in Seq(Nat) /\ Len(s) = n
      BY NumberedType
    <2>3. u \in Seq(Nat) /\ Len(u) = n - k
      BY <2>1, NumberedType
    <2> QED
      BY <2>2, <2>3
  <1>2. /\ \A i \in 1 .. n : s[i] = f + i - 1
        /\ u = [i \in 1 .. n - k |-> f + k + i - 1]
    BY DEF Numbered
  <1> HIDE DEF s, u
  <1>3. SubSeq(s, k + 1, n) = [i \in 1 .. n - k |-> s[i + k]]
    BY <1>1
  <1>4. \A i \in 1 .. n - k : s[i + k] = f + k + i - 1
    BY <1>2
  <1>5. SubSeq(s, k + 1, n) = u
    BY <1>2, <1>3, <1>4
  <1> QED
    BY <1>5 DEF s, u

----------------------------------------------------------------------------
(* The connection.                                                         *)

SInv == TypeOK /\ InputKept /\ OutputKept

LEMMA InitOK == Init => SInv
  <1> SUFFICES ASSUME Init PROVE SInv
    OBVIOUS
  <1>1. IsBuffer(Empty) /\ Content(Empty) = <<>>
    BY EmptyOK
  <1>2. Content(output) = Numbered(1, 0)
    BY <1>1 DEF Init, Numbered
  <1>3. OutputKept
    BY <1>2 DEF Init, OutputKept
  <1>4. InputKept
    BY <1>1 DEF Init, InputKept, Empty
  <1>5. TypeOK
    <2>1. IsBuffer(input) /\ IsBuffer(output)
      BY <1>1 DEF Init
    <2>2. msgs \in Seq(Messages) /\ handed \in Seq(Seq(Nat)) /\ rest \in Seq(Nat)
      BY DEF Init
    <2>3. stale \in BOOLEAN
      BY Zenon DEF Init
    <2>4. /\ codec \in {"external", "length"} /\ at \in {"poll", "reading", "callback"}
          /\ fault \in {"none", "partial", "null", "negative"}
      BY DEF Init
    <2>5. /\ total \in Nat /\ next \in Nat /\ start \in Nat /\ conn \in Nat
          /\ encoded \in Nat /\ wrote \in Nat /\ wrote <= encoded
      BY DEF Init
    <2> QED
      BY <2>1, <2>2, <2>3, <2>4, <2>5 DEF TypeOK
  <1> QED
    BY <1>3, <1>4, <1>5 DEF SInv

\* What HandOver does to input_, of whatever length the message is.
LEMMA HandOverOK ==
    ASSUME SInv, fault # "partial", NEW n \in 0 .. size(input), HandOver(n)
    PROVE  /\ IsBuffer(input') /\ Content(input') = rest' /\ rest' \in Seq(Nat) /\ handed' \in Seq(Seq(Nat))
  <1>1. IsBuffer(input) /\ Content(input) = rest /\ Len(rest) = size(input)
    BY ContentType DEF SInv, TypeOK, InputKept
  <1>2. IsBuffer(input') /\ Content(input') = SubSeq(Content(input), n + 1, size(input))
    BY <1>1, ConsumeOK DEF HandOver
  <1>3. Content(input') = rest'
    BY <1>1, <1>2 DEF HandOver
  <1>4. rest' \in Seq(Nat)
    BY <1>2, <1>3, ContentType
  <1>5. SubSeq(Content(input), 1, n) \in Seq(Nat)
    <2>1. Content(input) \in Seq(Nat) /\ Len(Content(input)) = size(input) /\ size(input) \in Nat
      BY <1>1, ContentType, BufferFields
    <2> QED
      BY <2>1
  <1>6. handed' \in Seq(Seq(Nat))
    BY <1>5 DEF HandOver, SInv, TypeOK
  <1> QED
    BY <1>2, <1>3, <1>4, <1>6

LEMMA PeerSendsOK ==
    ASSUME SInv, NEW len \in Bodies, NEW known \in BOOLEAN, PeerSends(len, known) PROVE SInv'
  <1>1. UNCHANGED <<codec, input, next, start, conn, at, handed, output, encoded, wrote, rest,
                    stale, fault>>
    BY DEF PeerSends, outVars
  <1>2. msgs' \in Seq(Messages) /\ total' \in Nat
    BY StreamAssumption DEF PeerSends, SInv, TypeOK, Messages
  <1>3. TypeOK'
    BY <1>1, <1>2 DEF SInv, TypeOK
  <1> QED
    BY <1>1, <1>3 DEF SInv, InputKept, OutputKept

LEMMA EncodeOK == ASSUME SInv, NEW len \in Replies, encode(len) PROVE SInv'
  <1>0. len \in Nat /\ HeadLen \in Nat /\ encoded \in Nat /\ wrote \in Nat /\ wrote <= encoded
    BY StreamAssumption DEF SInv, TypeOK
  <1>1. UNCHANGED <<codec, input, msgs, total, next, start, conn, at, handed, wrote, rest, stale, fault>>
    BY DEF encode, inVars
  <1> DEFINE h == Numbered(encoded + 1, HeadLen)  l == Numbered(encoded + HeadLen + 1, len)
             O == append(output, h)
  <1>2. h \in Seq(Nat) /\ l \in Seq(Nat)
    BY <1>0, NumberedType
  <1>3. IsBuffer(output) /\ Content(output) = Numbered(wrote + 1, encoded - wrote)
    BY DEF SInv, TypeOK, OutputKept
  <1>4. IsBuffer(O) /\ Content(O) = Content(output) \o h
    BY <1>2, <1>3, AppendOK
  <1>5. output' = append(O, l) /\ encoded' = encoded + HeadLen + len
    BY DEF encode
  <1> HIDE DEF O
  <1>6. IsBuffer(output') /\ Content(output') = Content(O) \o l
    BY <1>2, <1>4, <1>5, AppendOK
  <1>7. Content(O) = Numbered(wrote + 1, (encoded - wrote) + HeadLen)
    <2>1. (wrote + 1) + (encoded - wrote) = encoded + 1 /\ encoded - wrote \in Nat /\ wrote + 1 \in Nat
      BY <1>0
    <2>2. Numbered(wrote + 1, encoded - wrote) \o Numbered((wrote + 1) + (encoded - wrote), HeadLen)
             = Numbered(wrote + 1, (encoded - wrote) + HeadLen)
      BY <1>0, <2>1, NumberedConcat, ZenonT(40)
    <2> QED
      BY <1>3, <1>4, <2>1, <2>2
  <1>8. Content(output') = Numbered(wrote' + 1, encoded' - wrote')
    <2> DEFINE k == (encoded - wrote) + HeadLen
    <2>1. (wrote + 1) + k = encoded + HeadLen + 1 /\ k \in Nat /\ wrote + 1 \in Nat
          /\ k + len = (encoded + HeadLen + len) - wrote
      BY <1>0
    <2> HIDE DEF k
    <2>2. Numbered(wrote + 1, k) \o Numbered((wrote + 1) + k, len) = Numbered(wrote + 1, k + len)
      BY <1>0, <2>1, NumberedConcat, ZenonT(40)
    <2>3. Content(O) = Numbered(wrote + 1, k)
      BY <1>7 DEF k
    <2> QED
      BY <1>1, <1>5, <1>6, <2>1, <2>2, <2>3
  <1>9. TypeOK'
    BY <1>0, <1>1, <1>5, <1>6 DEF SInv, TypeOK
  <1> QED
    BY <1>1, <1>8, <1>9 DEF SInv, InputKept, OutputKept

LEMMA IsendOK == ASSUME SInv, NEW n \in 1 .. size(output), isend(n) PROVE SInv'
  <1>0. /\ encoded \in Nat /\ wrote \in Nat /\ wrote <= encoded
        /\ IsBuffer(output) /\ Content(output) = Numbered(wrote + 1, encoded - wrote)
    BY DEF SInv, TypeOK, OutputKept
  <1>1. UNCHANGED <<codec, input, msgs, total, next, start, conn, at, handed, encoded, rest, stale, fault>>
    BY DEF isend, inVars
  <1>2. size(output) = encoded - wrote
    <2>1. wrote + 1 \in Nat /\ encoded - wrote \in Nat
      BY <1>0
    <2>2. Len(Numbered(wrote + 1, encoded - wrote)) = encoded - wrote
      BY <2>1, NumberedType
    <2> QED
      BY <1>0, <2>2, ContentType
  <1>3. n \in 0 .. size(output) /\ n \in 0 .. encoded - wrote /\ n \in Nat /\ wrote + 1 \in Nat
        /\ encoded - wrote \in Nat
    BY <1>0, <1>2
  <1>4. /\ IsBuffer(output')
        /\ Content(output') = SubSeq(Numbered(wrote + 1, encoded - wrote), n + 1, encoded - wrote)
    BY <1>0, <1>2, <1>3, ConsumeOK DEF isend
  <1>5. Content(output') = Numbered((wrote + 1) + n, (encoded - wrote) - n)
    BY <1>3, <1>4, NumberedDrop
  <1>6. wrote' = wrote + n /\ (wrote + 1) + n = (wrote + n) + 1
        /\ (encoded - wrote) - n = encoded - (wrote + n) /\ wrote + n <= encoded
    BY <1>0, <1>3 DEF isend
  <1>7. TypeOK'
    BY <1>0, <1>1, <1>3, <1>4, <1>6 DEF SInv, TypeOK
  <1> QED
    BY <1>1, <1>5, <1>6, <1>7 DEF SInv, InputKept, OutputKept

LEMMA ReadOK == ASSUME SInv, NEW n \in 1 .. total, Read(n) PROVE SInv'
  <1> DEFINE B == makeRoomToRead(input)  s == Numbered(next, n)
  <1>0. n \in Nat /\ next \in Nat /\ IsBuffer(input) /\ Content(input) = rest
    BY DEF Read, Running, SInv, TypeOK, InputKept
  <1>1. UNCHANGED <<codec, msgs, total, start, conn, handed, output, encoded, wrote, fault>>
    BY DEF Read, outVars
  <1>2. IsBuffer(B) /\ Content(B) = rest
    BY <1>0, MakeRoomToReadOK
  <1>3. s \in Seq(Nat) /\ Len(s) = n
    BY <1>0, NumberedType
  <1>4. /\ n \in 1 .. space(B) /\ input' = fill(B, s) /\ rest' = rest \o s
        /\ next' = next + n /\ at' = "reading"
    BY DEF Read
  <1>5. stale' \in BOOLEAN
    BY DEF Read
  <1> HIDE DEF B, s
  <1>6. B.e + Len(s) <= B.cap
    BY <1>2, <1>3, <1>4, BufferFields DEF space
  <1>7. IsBuffer(input') /\ Content(input') = rest'
    BY <1>2, <1>3, <1>4, <1>6, FillOK
  <1>8. rest' \in Seq(Nat)
    BY <1>7, ContentType
  <1>9. TypeOK'
    BY <1>0, <1>1, <1>4, <1>5, <1>7, <1>8 DEF SInv, TypeOK
  <1> QED
    BY <1>1, <1>7, <1>9, BufferFields DEF SInv, InputKept, OutputKept

LEMMA AgainLostOK == SInv /\ (Again \/ Lost) => SInv'
  <1> SUFFICES ASSUME SInv, Again \/ Lost PROVE SInv'
    OBVIOUS
  <1>1. UNCHANGED <<codec, input, msgs, total, handed, output, encoded, wrote, rest, stale, fault>>
    BY DEF Again, Lost, inVars, outVars
  <1>2. next' \in Nat /\ start' \in Nat /\ conn' \in Nat /\ at' \in {"poll", "callback"}
    BY DEF Again, Lost, NewConn, inVars, SInv, TypeOK
  <1>3. TypeOK'
    BY <1>1, <1>2 DEF SInv, TypeOK
  <1> QED
    BY <1>1, <1>3 DEF SInv, InputKept, OutputKept

\* Steps of the callbacks that leave input_ alone or hand over a message of it.
LEMMA CallbackOK ==
    ASSUME SInv, UNCHANGED <<codec, msgs, total, output, encoded, wrote, stale>>,
           next' \in Nat, start' \in Nat, conn' \in Nat, at' \in {"poll", "callback"},
           fault = "none", fault' \in {"none", "null", "negative"},
           \/ UNCHANGED <<input, handed, rest>>
           \/ \E n \in 0 .. size(input) : HandOver(n)
    PROVE  SInv'
  <1>1. /\ IsBuffer(input') /\ Content(input') = rest'
        /\ rest' \in Seq(Nat) /\ handed' \in Seq(Seq(Nat))
    <2>1. IsBuffer(input) /\ Content(input) = rest /\ rest \in Seq(Nat) /\ handed \in Seq(Seq(Nat))
      BY DEF SInv, TypeOK, InputKept
    <2> QED
      BY <2>1, HandOverOK
  <1>2. TypeOK'
    BY <1>1 DEF SInv, TypeOK
  <1>3. InputKept'
    BY <1>1, BufferFields DEF InputKept
  <1> QED
    BY <1>2, <1>3 DEF SInv, OutputKept

LEMMA HeadsType == SInv => \A h \in Heads : h.len \in Nat
  <1> SUFFICES ASSUME SInv, NEW h \in Heads PROVE h.len \in Nat
    OBVIOUS
  <1>1. \A m \in Headed : m.len \in Bodies
    <2>1. msgs \in Seq(Messages)
      BY DEF SInv, TypeOK
    <2>2. \A i \in 1 .. Len(msgs) : msgs[i] \in Messages
      BY <2>1
    <2> QED
      BY <2>2 DEF Headed, Messages
  <1>2. h.len \in Bodies
    <2>1. CASE Headed # {}
      BY <1>1, <2>1 DEF Heads
    <2>2. CASE Headed = {}
      BY <2>2 DEF Heads
    <2> QED
      BY <2>1, <2>2
  <1> QED
    BY <1>2, StreamAssumption

\* A body that has not arrived: nothing is said of input_ any more.
LEMMA PartialOK ==
    ASSUME SInv, fault = "none", codec = "external", NEW n \in Nat, HandOverPartial(n), fault' = "partial",
           UNCHANGED <<codec, msgs, total, next, start, conn, output, encoded, wrote, stale>>,
           at' = "poll"
    PROVE  SInv'
  <1>1. IsBuffer(input) /\ handed \in Seq(Seq(Nat))
    BY DEF SInv, TypeOK
  <1> DEFINE s == [i \in 1 .. n |-> IF i <= size(input) THEN Content(input)[i] ELSE Undefined]
  <1>2. Content(input) \in Seq(Nat) /\ Len(Content(input)) = size(input) /\ size(input) \in Nat
    BY <1>1, ContentType, BufferFields
  <1>3. \A i \in 1 .. n : i <= size(input) => Content(input)[i] \in Nat
    BY <1>2
  <1>4. s \in Seq(Nat)
    BY <1>3 DEF Undefined
  <1>5. handed' = Append(handed, s) /\ rest' = <<>>
    BY DEF HandOverPartial
  <1> HIDE DEF s
  <1>6. handed' \in Seq(Seq(Nat)) /\ rest' \in Seq(Nat)
    BY <1>1, <1>4, <1>5
  <1>7. TypeOK'
    BY <1>6 DEF SInv, TypeOK
  <1> QED
    BY <1>7 DEF SInv, InputKept, OutputKept

LEMMA DecodeOK == SInv /\ decode => SInv'
  <1> SUFFICES ASSUME SInv, decode PROVE SInv'
    OBVIOUS
  <1>0. size(input) \in Nat /\ HeadLen \in Nat
    BY StreamAssumption, BufferFields DEF decode, SInv, TypeOK
  <1>1. /\ UNCHANGED <<codec, msgs, total, next, start, conn, output, encoded, wrote, stale>>
        /\ at' = "poll" /\ fault = "none" /\ codec = "external"
    BY DEF decode, inVars, outVars
  <1>2. \/ /\ fault' \in {"none", "null", "negative"}
           /\ \/ UNCHANGED <<input, handed, rest>>
              \/ \E n \in 0 .. size(input) : HandOver(n)
        \/ fault' = "partial" /\ \E n \in Nat : HandOverPartial(n)
    BY <1>0, <1>1, HeadsType DEF decode
  <1> QED
    BY <1>1, <1>2, CallbackOK, PartialOK DEF SInv, TypeOK

LEMMA TryDecodeOK == SInv /\ tryDecode => SInv'
  <1> SUFFICES ASSUME SInv, tryDecode PROVE SInv'
    OBVIOUS
  <1>0. size(input) \in Nat /\ HeadLen \in Nat
    BY StreamAssumption, BufferFields DEF tryDecode, SInv, TypeOK
  <1>1. UNCHANGED <<codec, msgs, total, output, encoded, wrote, stale>> /\ fault = "none"
    BY DEF tryDecode, Refused, inVars, outVars
  <1>2. /\ next' \in Nat /\ start' \in Nat /\ conn' \in Nat /\ at' \in {"poll", "callback"}
        /\ fault' \in {"none", "null", "negative"}
    BY <1>1 DEF tryDecode, Refused, NewConn, inVars, SInv, TypeOK
  <1>3. \/ UNCHANGED <<input, handed, rest>>
        \/ \E n \in 0 .. size(input) : HandOver(n)
    BY <1>0, HeadsType DEF tryDecode, Refused
  <1> QED
    BY <1>1, <1>2, <1>3, CallbackOK DEF SInv, TypeOK

LEMMA StutterOK == SInv /\ UNCHANGED vars => SInv'
  BY DEF vars, inVars, outVars, SInv, TypeOK, InputKept, OutputKept

LEMMA NextOK == SInv /\ [Next]_vars => SInv'
  BY StutterOK, PeerSendsOK, EncodeOK, IsendOK, ReadOK, AgainLostOK, DecodeOK, TryDecodeOK DEF Next

LEMMA Invariant == Spec => []SInv
  BY InitOK, NextOK, PTL DEF Spec

\* Both buffers stay well-formed: no operation of handleRead, encode, isend or onMsg's
\* callback lets b_, e_ and cap_ pass one another or writes outside of the array, and
\* ExternalMsgCodec's callback does so only by consuming a body that has not arrived.
THEOREM TypeCorrect == Spec => []TypeOK
  BY Invariant, PTL DEF SInv

\* input_ holds the bytes that were read and not consumed, in order: always under onMsg,
\* and under registerToMS until a body that has not arrived is consumed.
THEOREM InputStaysKept == Spec => []InputKept
  BY Invariant, PTL DEF SInv

\* output_ holds the bytes that were encoded and not taken by the socket, in order.
THEOREM OutputStaysKept == Spec => []OutputKept
  BY Invariant, PTL DEF SInv

----------------------------------------------------------------------------
(* What the framing of onMsg rests on: the messages lie behind one another *)
(* in the stream, what is in input_ starts with one, and what was handed   *)
(* over lies before it.                                                    *)

\* The messages lie behind one another in the stream, and a connection starts with one.
Indices == 1 .. Len(msgs)
End(m) == m.first + HeadLen + m.len
IsStart(ms, t, x) == x = t + 1 \/ \E k \in 1 .. Len(ms) : ms[k].first = x
Layout ==
    /\ \A k \in Indices : msgs[k].first >= 1 /\ End(msgs[k]) <= total + 1 /\ IsStart(msgs, total, End(msgs[k]))
    /\ \A j, k \in Indices : j < k => End(msgs[j]) <= msgs[k].first
    /\ 1 <= start /\ start <= next /\ next <= total + 1 /\ IsStart(msgs, total, start)

\* What was read and not consumed is a piece of the stream that starts with a message
\* and ends at the next byte to be read, or at the end of the connection before.
Aligned ==
    /\ \A i \in 1 .. Len(rest) : rest[i] = rest[1] + i - 1
    /\ rest = <<>> => IsStart(msgs, total, next)
    /\ rest # <<>> => /\ \E k \in Indices : msgs[k].first = rest[1]
                      /\ rest[1] + Len(rest) <= next
                      /\ rest[1] >= start => rest[1] + Len(rest) = next
                      /\ rest[1] < start => next = start

\* What was handed over are messages in order, all before what is left.
Delivered ==
    /\ \A i \in 1 .. Len(handed) :
          /\ \E k \in Indices : handed[i] = Bytes(msgs[k]) /\ msgs[k].len <= MaxBody
          /\ handed[i][1] < next
          /\ rest # <<>> => handed[i][1] < rest[1]
    /\ \A i, j \in 1 .. Len(handed) : i < j => handed[i][1] < handed[j][1]

Framed == Aligned /\ Delivered

FInv == SInv /\ Layout /\ (codec = "length" /\ ~ stale => Framed)

LEMMA StreamTypes ==
    ASSUME SInv
    PROVE  /\ Len(msgs) \in Nat /\ total \in Nat /\ next \in Nat /\ start \in Nat
           /\ \A k \in Indices : /\ msgs[k] \in Messages /\ msgs[k].first \in Nat
                                 /\ msgs[k].len \in Nat /\ msgs[k].len \in Bodies
                                 /\ End(msgs[k]) \in Nat /\ End(msgs[k]) > msgs[k].first
           /\ HeadLen \in Nat /\ HeadLen > 0
           /\ rest \in Seq(Nat) /\ Len(rest) \in Nat
           /\ \A i \in 1 .. Len(rest) : rest[i] \in Nat
  <1>1. msgs \in Seq(Messages) /\ Len(msgs) \in Nat
    BY DEF SInv, TypeOK
  <1>2. \A k \in Indices : msgs[k] \in Messages
    BY <1>1 DEF Indices
  <1>3. HeadLen \in Nat /\ HeadLen > 0 /\ Bodies \subseteq Nat
    BY StreamAssumption
  <1>4. rest \in Seq(Nat) /\ Len(rest) \in Nat /\ \A i \in 1 .. Len(rest) : rest[i] \in Nat
    BY DEF SInv, TypeOK
  <1>5. total \in Nat /\ next \in Nat /\ start \in Nat
    BY DEF SInv, TypeOK
  <1>6. \A k \in Indices : msgs[k].first \in Nat /\ msgs[k].len \in Bodies
    BY <1>2 DEF Messages
  <1>7. \A k \in Indices : msgs[k].first \in Nat /\ msgs[k].len \in Nat
    BY <1>3, <1>6
  <1>8. \A k \in Indices : End(msgs[k]) \in Nat /\ End(msgs[k]) > msgs[k].first
    BY <1>3, <1>7 DEF End
  <1> QED
    BY <1>1, <1>2, <1>3, <1>4, <1>5, <1>6, <1>7, <1>8

LEMMA BytesOf ==
    ASSUME SInv, NEW k \in Indices
    PROVE  /\ Bytes(msgs[k]) \in Seq(Nat) /\ Len(Bytes(msgs[k])) = HeadLen + msgs[k].len
           /\ \A i \in 1 .. HeadLen + msgs[k].len : Bytes(msgs[k])[i] = msgs[k].first + i - 1
  <1>1. msgs[k].first \in Nat /\ HeadLen + msgs[k].len \in Nat
    BY StreamTypes
  <1>2. /\ Bytes(msgs[k]) \in Seq(Nat) /\ Len(Bytes(msgs[k])) = HeadLen + msgs[k].len
    BY <1>1, NumberedType DEF Bytes
  <1> QED
    BY <1>2 DEF Bytes, Numbered

\* Messages have different first bytes, and one ends before the next begins.
LEMMA FirstsApart ==
    ASSUME SInv, Layout, NEW j \in Indices, NEW k \in Indices
    PROVE  /\ msgs[j].first = msgs[k].first => j = k
           /\ msgs[j].first < msgs[k].first => End(msgs[j]) <= msgs[k].first
  <1>1. /\ j \in Nat /\ k \in Nat /\ msgs[j].first \in Nat /\ msgs[k].first \in Nat
        /\ End(msgs[j]) \in Nat /\ End(msgs[k]) \in Nat
        /\ End(msgs[j]) > msgs[j].first /\ End(msgs[k]) > msgs[k].first
    BY StreamTypes, SMTT(20) DEF Indices
  <1>2. /\ j < k => End(msgs[j]) <= msgs[k].first
        /\ k < j => End(msgs[k]) <= msgs[j].first
    BY DEF Layout
  <1> QED
    BY <1>1, <1>2

\* The head at the front of input_ is that of one message only.
LEMMA FrontMessage ==
    ASSUME SInv, fault = "none", Layout, Aligned, size(input) >= HeadLen
    PROVE  \E k \in Indices : /\ msgs[k].first = rest[1]
                              /\ Headed = {msgs[k]}
                              /\ Heads = {[len |-> msgs[k].len, known |-> msgs[k].known]}
  <1>1. Content(input) = rest /\ Len(rest) = size(input) /\ size(input) \in Nat
    BY ContentType, BufferFields DEF SInv, TypeOK, InputKept
  <1>2. Len(rest) > 0 /\ Len(rest) >= HeadLen /\ rest # <<>>
    BY <1>1, StreamTypes
  <1>3. PICK k \in Indices : msgs[k].first = rest[1]
    BY <1>2 DEF Aligned
  <1>4. \A j \in Indices : (\A i \in 1 .. HeadLen : rest[i] = Bytes(msgs[j])[i]) <=> j = k
    <2> TAKE j \in Indices
    <2>1. \A i \in 1 .. HeadLen : Bytes(msgs[j])[i] = msgs[j].first + i - 1
      <3>1. 1 .. HeadLen \subseteq 1 .. HeadLen + msgs[j].len
        BY StreamTypes
      <3> QED
        BY <3>1, BytesOf
    <2>2. \A i \in 1 .. HeadLen : rest[i] = msgs[k].first + i - 1
      BY <1>2, <1>3, StreamTypes DEF Aligned
    <2>3. 1 \in 1 .. HeadLen
      BY StreamTypes
    <2>4. ASSUME \A i \in 1 .. HeadLen : rest[i] = Bytes(msgs[j])[i] PROVE j = k
      <3>1. msgs[j].first + 1 - 1 = msgs[k].first + 1 - 1
        BY <2>1, <2>2, <2>3, <2>4
      <3> QED
        BY <3>1, FirstsApart, StreamTypes
    <2> QED
      BY <2>1, <2>2, <2>4
  <1>5. Headed = {msgs[k]}
    BY <1>1, <1>4 DEF Headed, Indices
  <1>6. Heads = {[len |-> msgs[k].len, known |-> msgs[k].known]}
    BY <1>5 DEF Heads
  <1> QED
    BY <1>3, <1>5, <1>6

----------------------------------------------------------------------------
(* The layout of the stream.                                               *)

LEMMA SendLayout ==
    ASSUME SInv, NEW len \in Bodies, NEW known \in BOOLEAN, PeerSends(len, known)
    PROVE  /\ Len(msgs') = Len(msgs) + 1
           /\ \A k \in Indices : k \in Indices' /\ msgs'[k] = msgs[k]
           /\ \A k \in Indices' : k \in Indices \/ k = Len(msgs) + 1
           /\ msgs'[Len(msgs) + 1].first = total + 1
           /\ End(msgs'[Len(msgs) + 1]) = total' + 1
           /\ \A x : IsStart(msgs, total, x) => IsStart(msgs', total', x)
  <1> DEFINE m == [first |-> total + 1, len |-> len, known |-> known]
  <1>1. msgs \in Seq(Messages) /\ Len(msgs) \in Nat /\ total \in Nat /\ len \in Nat /\ HeadLen \in Nat
    BY StreamAssumption DEF SInv, TypeOK
  <1>2. m \in Messages /\ msgs' = Append(msgs, m) /\ total' = total + HeadLen + len
    BY <1>1 DEF Messages, PeerSends
  <1>3. m.first = total + 1 /\ m.len = len
    OBVIOUS
  <1> HIDE DEF m
  <1>4. /\ Len(msgs') = Len(msgs) + 1
        /\ \A k \in 1 .. Len(msgs) : msgs'[k] = msgs[k]
        /\ msgs'[Len(msgs) + 1] = m
    BY <1>1, <1>2
  <1>5. /\ \A k \in Indices : k \in Indices' /\ msgs'[k] = msgs[k]
        /\ \A k \in Indices' : k \in Indices \/ k = Len(msgs) + 1
        /\ Len(msgs) + 1 \in Indices'
    BY <1>1, <1>4 DEF Indices
  <1>6. End(m) = total' + 1
    BY <1>1, <1>2, <1>3 DEF End
  <1>7. ASSUME NEW x, IsStart(msgs, total, x) PROVE IsStart(msgs', total', x)
    BY <1>3, <1>4, <1>5, <1>7 DEF IsStart, Indices
  <1> QED
    BY <1>3, <1>4, <1>5, <1>6, <1>7

LEMMA LayoutOK == SInv /\ Layout /\ [Next]_vars => Layout'
  <1> SUFFICES ASSUME SInv, Layout, [Next]_vars PROVE Layout'
    OBVIOUS
  <1>0. total \in Nat /\ next \in Nat /\ start \in Nat
    BY StreamTypes
  <1>1. ASSUME UNCHANGED <<msgs, total>>, start' = start \/ start' = total + 1,
               start' <= next', next' <= total + 1
        PROVE  Layout'
    <2>1. \A x : IsStart(msgs, total, x) <=> IsStart(msgs', total', x)
      BY <1>1
    <2>2. Indices' = Indices /\ \A m : End(m)' = End(m)
      BY <1>1 DEF Indices, End
    <2>3. 1 <= start' /\ IsStart(msgs', total', start')
      BY <1>0, <1>1, <2>1 DEF Layout, IsStart
    <2> QED
      BY <1>1, <2>1, <2>2, <2>3 DEF Layout, End
  <1>2. ASSUME NEW len \in Bodies, NEW known \in BOOLEAN, PeerSends(len, known) PROVE Layout'
    <2>1. UNCHANGED <<next, start>> /\ total' = total + HeadLen + len
      BY <1>2 DEF PeerSends
    <2> DEFINE z == Len(msgs) + 1
    <2>2. /\ \A k \in Indices : k \in Indices' /\ msgs'[k] = msgs[k]
          /\ \A k \in Indices' : k \in Indices \/ k = z
          /\ msgs'[z].first = total + 1 /\ End(msgs'[z]) = total' + 1
          /\ \A x : IsStart(msgs, total, x) => IsStart(msgs', total', x)
      BY <1>2, SendLayout
    <2>3. total' \in Nat /\ total <= total' /\ \A k \in Indices : k \in Nat /\ k < z
      BY <1>0, <2>1, StreamAssumption, StreamTypes DEF Indices
    <2>4. IsStart(msgs', total', total' + 1)
      BY DEF IsStart
    <2> HIDE DEF z
    <2>5. ASSUME NEW k \in Indices'
          PROVE  msgs'[k].first >= 1 /\ End(msgs'[k]) <= total' + 1 /\ IsStart(msgs', total', End(msgs'[k]))
      <3>1. CASE k \in Indices
        <4>1. End(msgs[k]) \in Nat /\ End(msgs[k]) <= total + 1 /\ IsStart(msgs, total, End(msgs[k]))
              /\ msgs[k].first >= 1
          BY <3>1, StreamTypes DEF Layout
        <4>2. End(msgs[k]) <= total' + 1
          BY <1>0, <2>3, <4>1
        <4> QED
          BY <2>2, <3>1, <4>1, <4>2
      <3>2. CASE k = z
        BY <1>0, <2>2, <2>3, <2>4, <3>2
      <3> QED
        BY <2>2, <3>1, <3>2
    <2>6. ASSUME NEW j \in Indices', NEW k \in Indices', j < k
          PROVE  End(msgs'[j]) <= msgs'[k].first
      <3>1. CASE k \in Indices
        <4>1. j \in Indices
          BY <2>2, <2>3, <2>6, <3>1 DEF z
        <4> QED
          BY <2>2, <2>6, <3>1, <4>1 DEF Layout
      <3>2. CASE k = z
        <4>1. j \in Indices
          BY <2>2, <2>3, <2>6, <3>2, StreamTypes DEF z
        <4> QED
          BY <2>2, <3>2, <4>1 DEF Layout
      <3> QED
        BY <2>2, <3>1, <3>2
    <2>7. 1 <= start' /\ start' <= next' /\ next' <= total' + 1 /\ IsStart(msgs', total', start')
      BY <1>0, <2>1, <2>2, <2>3 DEF Layout
    <2> QED
      BY <2>5, <2>6, <2>7 DEF Layout, End
  <1>3. ASSUME NEW n \in 1 .. total, Read(n) PROVE Layout'
    <2>1. UNCHANGED <<msgs, total, start>> /\ next' = next + n /\ next + n <= total + 1
      BY <1>3 DEF Read
    <2> QED
      BY <1>0, <1>1, <2>1 DEF Layout
  <1>4. ASSUME NewConn, UNCHANGED <<msgs, total>> PROVE Layout'
    BY <1>0, <1>1, <1>4 DEF NewConn
  <1>5. ASSUME UNCHANGED <<msgs, total, next, start>> PROVE Layout'
    BY <1>0, <1>1, <1>5 DEF Layout
  <1>6. CASE Lost
    BY <1>4, <1>6 DEF Lost
  <1>7. CASE tryDecode
    BY <1>4, <1>5, <1>7 DEF tryDecode, Refused, inVars
  <1>8. CASE Again \/ decode \/ UNCHANGED vars
    BY <1>5, <1>8 DEF Again, decode, inVars, vars
  <1>9. ASSUME NEW len \in Replies, encode(len) PROVE Layout'
    BY <1>5, <1>9 DEF encode, inVars
  <1>10. ASSUME NEW n \in 1 .. size(output), isend(n) PROVE Layout'
    BY <1>5, <1>10 DEF isend, inVars
  <1> QED
    BY <1>2, <1>3, <1>6, <1>7, <1>8, <1>9, <1>10 DEF Next

----------------------------------------------------------------------------
(* The framing of onMsg.                                                   *)

\* Steps that leave alone what Framed speaks of.
LEMMA FramedStays ==
    ASSUME Framed, UNCHANGED <<msgs, total, next, start, rest, handed>>
    PROVE  Framed'
  <1>1. Indices' = Indices /\ \A k \in Indices : Bytes(msgs[k])' = Bytes(msgs[k])
    BY DEF Indices, Bytes, Numbered
  <1>2. Aligned'
    BY <1>1 DEF Framed, Aligned, IsStart
  <1>3. Delivered'
    BY <1>1 DEF Framed, Delivered
  <1> QED
    BY <1>2, <1>3 DEF Framed

LEMMA SendFramed ==
    ASSUME SInv, Framed, NEW len \in Bodies, NEW known \in BOOLEAN, PeerSends(len, known)
    PROVE  Framed'
  <1>1. UNCHANGED <<next, start, rest, handed>>
    BY DEF PeerSends
  <1>2. /\ \A k \in Indices : k \in Indices' /\ msgs'[k] = msgs[k]
        /\ \A x : IsStart(msgs, total, x) => IsStart(msgs', total', x)
    BY SendLayout
  <1>3. Aligned'
    BY <1>1, <1>2 DEF Framed, Aligned
  <1>4. \A k \in Indices : Bytes(msgs[k])' = Bytes(msgs[k])
    BY <1>2 DEF Bytes, Numbered
  <1>5. Delivered'
    BY <1>1, <1>2, <1>4 DEF Framed, Delivered
  <1> QED
    BY <1>3, <1>5 DEF Framed

LEMMA HandedFirst ==
    ASSUME SInv, Delivered, NEW i \in 1 .. Len(handed)
    PROVE  handed[i][1] \in Nat
  <1>1. PICK k \in Indices : handed[i] = Bytes(msgs[k])
    BY DEF Delivered
  <1>2. 1 \in 1 .. HeadLen + msgs[k].len
    BY StreamTypes
  <1>3. handed[i][1] = msgs[k].first + 1 - 1
    BY <1>1, <1>2, BytesOf
  <1> QED
    BY <1>3, StreamTypes

\* The stream moves on, and what was handed over stays behind it.
LEMMA DeliveredStays ==
    ASSUME SInv, Delivered, UNCHANGED <<msgs, handed>>, next' \in Nat, next <= next',
           rest' # <<>> => rest'[1] = next \/ (rest # <<>> /\ rest'[1] = rest[1])
    PROVE  Delivered'
  <1>1. next \in Nat
    BY StreamTypes
  <1>2. Indices' = Indices /\ \A k \in Indices : Bytes(msgs[k])' = Bytes(msgs[k])
    BY DEF Indices, Bytes, Numbered
  <1>3. \A i \in 1 .. Len(handed) : /\ handed[i][1] < next'
                                    /\ rest' # <<>> => handed[i][1] < rest'[1]
    <2> TAKE i \in 1 .. Len(handed)
    <2>1. handed[i][1] \in Nat
      BY HandedFirst
    <2>2. handed[i][1] < next /\ (rest # <<>> => handed[i][1] < rest[1])
      BY DEF Delivered
    <2> QED
      BY <1>1, <2>1, <2>2
  <1> QED
    BY <1>2, <1>3 DEF Delivered

\* A read that does not meet the remains of an older connection goes on where the last
\* one ended.
LEMMA ReadFramed ==
    ASSUME SInv, Layout, Framed, NEW n \in 1 .. total, Read(n), ~ stale'
    PROVE  Framed'
  <1> DEFINE s == Numbered(next, n)  L == Len(rest)
  <1>0. /\ total \in Nat /\ next \in Nat /\ start \in Nat /\ n \in Nat /\ n >= 1
        /\ rest \in Seq(Nat) /\ L \in Nat /\ start <= next
    BY StreamTypes DEF Layout
  <1>1. /\ UNCHANGED <<msgs, total, start, handed>> /\ next' = next + n /\ next + n <= total + 1
        /\ rest' = rest \o s
        /\ \A i \in 1 .. L : ~ (rest[i] < start)
    BY DEF Read
  <1>2. s \in Seq(Nat) /\ Len(s) = n /\ \A i \in 1 .. n : s[i] = next + i - 1
    BY <1>0, NumberedType DEF Numbered
  <1> HIDE DEF s
  <1>3. /\ Len(rest') = L + n
        /\ \A i \in 1 .. L + n : rest'[i] = IF i <= L THEN rest[i] ELSE s[i - L]
    BY <1>0, <1>1, <1>2, ConcatProperties
  <1>4. rest' # <<>> /\ next' \in Nat /\ next <= next'
    BY <1>0, <1>1, <1>3
  <1>5. Indices' = Indices
    BY <1>1 DEF Indices
  <1>6. rest # <<>> => L >= 1 /\ rest[1] \in Nat /\ rest[1] >= start /\ rest[1] + L = next
    <2> SUFFICES ASSUME rest # <<>>
                 PROVE  L >= 1 /\ rest[1] \in Nat /\ rest[1] >= start /\ rest[1] + L = next
      OBVIOUS
    <2>1. L >= 1
      BY <1>0
    <2>2. rest[1] \in Nat /\ ~ (rest[1] < start)
      BY <1>0, <1>1, <2>1
    <2> QED
      BY <1>0, <2>1, <2>2 DEF Framed, Aligned
  <1>7. rest = <<>> => L = 0
    OBVIOUS
  <1> HIDE DEF L
  <1> DEFINE f == next - L
  <1>8. f \in Nat /\ start <= f /\ f + L = next
    BY <1>0, <1>6, <1>7
  <1>9. \A i \in 1 .. L : rest[i] = f + i - 1
    <2> TAKE i \in 1 .. L
    <2>1. rest # <<>> /\ i \in Nat
      BY <1>0, <1>7
    <2>2. rest[1] = f /\ rest[1] \in Nat
      BY <1>0, <1>6, <1>8, <2>1
    <2>3. rest[i] = rest[1] + i - 1
      BY DEF Framed, Aligned, L
    <2> QED
      BY <2>2, <2>3
  <1> HIDE DEF f
  <1>10. \A i \in 1 .. L + n : rest'[i] = f + i - 1
    <2> TAKE i \in 1 .. L + n
    <2>1. CASE i <= L
      BY <1>0, <1>3, <1>9, <2>1
    <2>2. CASE ~ (i <= L)
      <3>1. i - L \in 1 .. n
        BY <1>0, <2>2
      <3>2. rest'[i] = next + (i - L) - 1
        BY <1>2, <1>3, <2>2, <3>1
      <3> QED
        BY <1>0, <1>8, <3>2
    <2> QED
      BY <2>1, <2>2
  <1>11. rest'[1] = f
    <2>1. 1 \in 1 .. L + n /\ f + 1 - 1 = f
      BY <1>0, <1>8
    <2> QED
      BY <1>10, <2>1
  <1>12. \E k \in Indices : msgs[k].first = f
    <2>1. CASE rest = <<>>
      <3>1. next # total + 1 /\ f = next
        BY <1>0, <1>1, <1>7, <1>8, <2>1
      <3> QED
        BY <2>1, <3>1 DEF Framed, Aligned, IsStart, Indices
    <2>2. CASE rest # <<>>
      <3>1. f = rest[1]
        BY <1>0, <1>6, <1>8, <2>2
      <3> QED
        BY <2>2, <3>1 DEF Framed, Aligned
    <2> QED
      BY <2>1, <2>2
  <1>13. Aligned'
    <2>1. f + (L + n) = next' /\ ~ (f < start') /\ f + (L + n) <= next'
      BY <1>0, <1>1, <1>8
    <2> QED
      BY <1>1, <1>3, <1>4, <1>5, <1>10, <1>11, <1>12, <2>1 DEF Aligned
  <1>14. Delivered'
    <2>1. rest'[1] = next \/ (rest # <<>> /\ rest'[1] = rest[1])
      BY <1>0, <1>6, <1>7, <1>8, <1>11
    <2> QED
      BY <1>1, <1>4, <2>1, DeliveredStays DEF Framed
  <1> QED
    BY <1>13, <1>14 DEF Framed

\* A connection that is lost leaves whole messages and a part of one behind.
LEMMA LostFramed ==
    ASSUME SInv, Layout, Framed, NewConn, UNCHANGED <<msgs, total, rest, handed>>
    PROVE  Framed'
  <1>0. total \in Nat /\ next \in Nat /\ next <= total + 1
    BY StreamTypes DEF Layout
  <1>1. next' = total + 1 /\ start' = total + 1
    BY DEF NewConn
  <1>2. rest # <<>> => rest[1] \in Nat /\ Len(rest) \in Nat /\ Len(rest) >= 1
    BY StreamTypes
  <1>3. Aligned'
    <2>1. rest # <<>> => rest[1] + Len(rest) <= total + 1 /\ rest[1] < total + 1
      BY <1>0, <1>2 DEF Framed, Aligned
    <2>2. IsStart(msgs', total', next')
      BY <1>1 DEF IsStart
    <2>3. Indices' = Indices
      BY DEF Indices
    <2>4. ~ (total + 1 < rest[1]) \/ rest = <<>>
      BY <1>0, <1>2, <2>1
    <2>5. rest # <<>> => ~ (rest[1] >= start')
      BY <1>0, <1>1, <1>2, <2>1
    <2> QED
      BY <1>1, <2>1, <2>2, <2>3, <2>5 DEF Framed, Aligned
  <1>4. Delivered'
    BY <1>0, <1>1, DeliveredStays DEF Framed
  <1> QED
    BY <1>3, <1>4 DEF Framed

\* A message of which all has arrived is handed over, and what is left begins with the
\* next one.
LEMMA HandOverFramed ==
    ASSUME SInv, fault = "none", Layout, Framed, size(input) >= HeadLen, NEW k \in Indices,
           msgs[k].first = rest[1], msgs[k].len <= MaxBody, size(input) >= HeadLen + msgs[k].len,
           HandOver(HeadLen + msgs[k].len), UNCHANGED inVars
    PROVE  Framed'
  <1> DEFINE n == HeadLen + msgs[k].len  f == msgs[k].first  L == Len(rest)
  <1>0. /\ total \in Nat /\ next \in Nat /\ start \in Nat /\ n \in Nat /\ n >= 1 /\ f \in Nat
        /\ rest \in Seq(Nat) /\ L \in Nat /\ start <= next /\ next <= total + 1
    <2>1. HeadLen \in Nat /\ HeadLen > 0 /\ msgs[k].len \in Nat
      BY StreamTypes
    <2>2. n \in Nat /\ n >= 1
      BY <2>1
    <2>3. /\ total \in Nat /\ next \in Nat /\ start \in Nat /\ f \in Nat
          /\ rest \in Seq(Nat) /\ L \in Nat
      BY StreamTypes
    <2>4. start <= next /\ next <= total + 1
      BY DEF Layout
    <2> QED
      BY <2>2, <2>3, <2>4
  <1>1. Content(input) = rest /\ n <= L
    BY ContentType, BufferFields DEF SInv, TypeOK, InputKept
  <1>2. /\ handed' = Append(handed, SubSeq(rest, 1, n)) /\ rest' = SubSeq(rest, n + 1, L)
        /\ UNCHANGED <<msgs, total, next, start>>
    BY <1>1 DEF HandOver, inVars
  <1>3. End(msgs[k]) = f + n /\ IsStart(msgs, total, f + n)
    <2>1. End(msgs[k]) = f + n
      BY StreamTypes, SMTT(20) DEF End
    <2> QED
      BY <2>1 DEF Layout
  <1>4. rest # <<>> /\ 1 \in 1 .. L
    BY <1>0, <1>1
  <1>5. Indices' = Indices /\ \A j \in Indices : Bytes(msgs[j])' = Bytes(msgs[j])
    BY <1>2 DEF Indices, Bytes, Numbered
  <1>6. \A i \in 1 .. L : rest[i] = f + i - 1
    BY DEF Framed, Aligned
  <1>7. /\ f + L <= next
        /\ f >= start => f + L = next
        /\ f < start => next = start
    BY <1>4 DEF Framed, Aligned
  <1>8. SubSeq(rest, 1, n) = Bytes(msgs[k])
    <2>1. /\ SubSeq(rest, 1, n) \in Seq(Nat) /\ Len(SubSeq(rest, 1, n)) = n
          /\ \A i \in 1 .. n : SubSeq(rest, 1, n)[i] = rest[i]
      <3>1. SubSeq(rest, 1, n) = [i \in 1 .. n |-> rest[i]]
        BY <1>0, <1>1
      <3>2. \A i \in 1 .. n : rest[i] \in Nat
        BY <1>0, <1>1
      <3>3. SubSeq(rest, 1, n) \in Seq(Nat) /\ DOMAIN SubSeq(rest, 1, n) = 1 .. n
        BY <1>0, <3>1, <3>2
      <3>4. Len(SubSeq(rest, 1, n)) = n
        BY <1>0, <1>1
      <3> QED
        BY <3>1, <3>3, <3>4
    <2>2. \A i \in 1 .. n : i \in 1 .. L
      BY <1>0, <1>1
    <2>3. \A i \in 1 .. n : Bytes(msgs[k])[i] = f + i - 1
      BY BytesOf
    <2>4. Bytes(msgs[k]) \in Seq(Nat) /\ Len(Bytes(msgs[k])) = n
      BY BytesOf
    <2>5. \A i \in 1 .. n : SubSeq(rest, 1, n)[i] = Bytes(msgs[k])[i]
      BY <1>6, <2>1, <2>2, <2>3
    <2> HIDE DEF n, f
    <2> QED
      BY <2>1, <2>4, <2>5, SeqEqual
  <1> HIDE DEF n, f, L
  <1>9. /\ Len(rest') = L - n
        /\ \A i \in 1 .. L - n : rest'[i] = rest[n + i]
    <2>1. n + 1 \in Int /\ L \in Int /\ L - (n + 1) + 1 = L - n
      BY <1>0, <1>1
    <2>2. \A i \in n + 1 .. L : rest[i] \in Nat
      BY <1>0, <1>1 DEF L
    <2>3. /\ Len(rest') = IF n + 1 <= L THEN L - n ELSE 0
          /\ \A i \in 1 .. L - n : rest'[i] = rest[(n + 1) + i - 1]
      BY <1>2, <2>1, <2>2, SubSeqProperties
    <2>4. \A i \in 1 .. L - n : (n + 1) + i - 1 = n + i
      BY <1>0, <1>1
    <2>5. Len(rest') = L - n
      BY <1>0, <1>1, <2>3
    <2>6. ASSUME NEW i \in 1 .. L - n PROVE rest'[i] = rest[n + i]
      <3>1. rest'[i] = rest[(n + 1) + i - 1]
        BY <2>3
      <3>2. (n + 1) + i - 1 = n + i
        BY <2>4
      <3> QED
        BY <3>1, <3>2
    <2> QED
      BY <2>5, <2>6
  <1>10. \A i \in 1 .. L - n : rest'[i] = (f + n) + i - 1
    <2> TAKE i \in 1 .. L - n
    <2>1. n + i \in 1 .. L
      BY <1>0, <1>1
    <2>2. rest'[i] = f + (n + i) - 1
      BY <1>6, <1>9, <2>1
    <2> QED
      BY <1>0, <2>2
  <1>11. rest' # <<>> => 1 \in 1 .. L - n /\ rest'[1] = f + n /\ n < L
    <2> SUFFICES ASSUME rest' # <<>> PROVE 1 \in 1 .. L - n /\ rest'[1] = f + n /\ n < L
      OBVIOUS
    <2>1. L - n # 0
      BY <1>0, <1>1, <1>2 DEF L
    <2>2. 1 \in 1 .. L - n /\ n < L
      BY <1>0, <1>1, <2>1
    <2>3. rest'[1] = (f + n) + 1 - 1
      BY <1>10, <2>2
    <2> QED
      BY <1>0, <2>2, <2>3
  <1>12. rest' = <<>> => L = n
    BY <1>0, <1>1, <1>9
  <1>13. Aligned'
    <2>1. \A i \in 1 .. Len(rest') : rest'[i] = rest'[1] + i - 1
      <3> TAKE i \in 1 .. Len(rest')
      <3>1. rest' # <<>> /\ i \in 1 .. L - n
        BY <1>9
      <3> QED
        BY <1>10, <1>11, <3>1
    <2>2. ASSUME rest' = <<>> PROVE IsStart(msgs, total, next)
      <3>1. CASE f >= start
        <4>1. f + n = next
          BY <1>7, <1>12, <2>2, <3>1
        <4> QED
          BY <1>3, <4>1
      <3>2. CASE f < start
        BY <1>7, <3>2 DEF Layout
      <3> QED
        BY <1>0, <3>1, <3>2
    <2>3. ASSUME rest' # <<>>
          PROVE  /\ \E j \in Indices : msgs[j].first = rest'[1]
                 /\ rest'[1] + Len(rest') <= next
                 /\ rest'[1] >= start => rest'[1] + Len(rest') = next
                 /\ rest'[1] < start => next = start
      <3>1. rest'[1] + Len(rest') = f + L /\ rest'[1] = f + n /\ f + n < f + L
        BY <1>0, <1>9, <1>11, <2>3
      <3>2. f + n # total + 1
        BY <1>0, <1>7, <3>1
      <3>3. \E j \in Indices : msgs[j].first = f + n
        BY <1>3, <3>2 DEF IsStart, Indices
      <3>4. f + n >= start => f >= start
        BY <1>0, <1>7, <3>1
      <3>5. f + n < start => f < start
        BY <1>0
      <3> QED
        BY <1>7, <3>1, <3>3, <3>4, <3>5
    <2> QED
      BY <1>2, <1>5, <2>1, <2>2, <2>3 DEF Aligned, IsStart
  <1>14. Delivered'
    <2>1. handed \in Seq(Seq(Nat)) /\ Len(handed) \in Nat
      BY DEF SInv, TypeOK
    <2> DEFINE z == Len(handed) + 1
    <2>2. /\ Len(handed') = z /\ handed'[z] = Bytes(msgs[k])
          /\ \A i \in 1 .. Len(handed) : handed'[i] = handed[i]
          /\ \A i \in 1 .. z : i \in 1 .. Len(handed) \/ i = z
      <3>1. Bytes(msgs[k]) \in Seq(Nat) /\ handed' = Append(handed, Bytes(msgs[k]))
        BY <1>2, <1>8, BytesOf
      <3> QED
        BY <2>1, <3>1
    <2>3. handed'[z][1] = f
      <3>1. 1 \in 1 .. n /\ f + 1 - 1 = f
        BY <1>0
      <3>2. Bytes(msgs[k])[1] = f + 1 - 1
        BY <3>1, BytesOf DEF n, f
      <3> QED
        BY <2>2, <3>1, <3>2
    <2>4. \A i \in 1 .. Len(handed) : handed[i][1] \in Nat /\ handed[i][1] < f /\ handed[i][1] < next
                                      /\ \E j \in Indices : handed[i] = Bytes(msgs[j]) /\ msgs[j].len <= MaxBody
      BY <1>4, HandedFirst DEF Framed, Delivered, f
    <2>5. f < next /\ (rest' # <<>> => f < rest'[1])
      BY <1>0, <1>1, <1>7, <1>11
    <2> HIDE DEF z
    <2>6. \A i \in 1 .. Len(handed') :
             /\ \E j \in Indices : handed'[i] = Bytes(msgs[j]) /\ msgs[j].len <= MaxBody
             /\ handed'[i][1] < next
             /\ rest' # <<>> => handed'[i][1] < rest'[1]
      <3> TAKE i \in 1 .. Len(handed')
      <3>1. CASE i = z
        BY <2>2, <2>3, <2>5, <3>1
      <3>2. CASE i \in 1 .. Len(handed)
        <4>1. handed[i][1] \in Nat /\ handed[i][1] < f /\ handed[i][1] < next
          BY <2>4, <3>2
        <4>2. rest' # <<>> => handed[i][1] < rest'[1]
          BY <1>0, <1>11, <4>1
        <4> QED
          BY <2>2, <2>4, <3>2, <4>1, <4>2
      <3> QED
        BY <2>2, <3>1, <3>2
    <2>7. \A i, j \in 1 .. Len(handed') : i < j => handed'[i][1] < handed'[j][1]
      <3> SUFFICES ASSUME NEW i \in 1 .. Len(handed'), NEW j \in 1 .. Len(handed'), i < j
                   PROVE  handed'[i][1] < handed'[j][1]
        OBVIOUS
      <3>1. i \in 1 .. Len(handed)
        BY <2>1, <2>2 DEF z
      <3>2. CASE j = z
        BY <2>2, <2>3, <2>4, <3>1, <3>2
      <3>3. CASE j \in 1 .. Len(handed)
        BY <2>2, <3>1, <3>3 DEF Framed, Delivered
      <3> QED
        BY <2>2, <3>2, <3>3
    <2> QED
      BY <1>2, <1>5, <2>6, <2>7 DEF Delivered
  <1> QED
    BY <1>13, <1>14 DEF Framed

\* What a step of onMsg does when the input begins with a message.
LEMMA TryDecodeCases ==
    ASSUME SInv, Layout, Aligned, tryDecode
    PROVE  \/ /\ size(input) < HeadLen /\ at' = "poll" /\ UNCHANGED <<input, handed, rest, inVars>>
           \/ \E k \in Indices :
                 /\ size(input) >= HeadLen /\ msgs[k].first = rest[1]
                 /\ \/ msgs[k].len > MaxBody /\ Refused
                    \/ /\ msgs[k].len <= MaxBody /\ size(input) >= HeadLen + msgs[k].len
                       /\ HandOver(HeadLen + msgs[k].len) /\ UNCHANGED <<at, inVars>>
                    \/ /\ msgs[k].len <= MaxBody /\ size(input) < HeadLen + msgs[k].len
                       /\ at' = "poll" /\ UNCHANGED <<input, handed, rest, inVars>>
  <1>0. fault = "none" /\ size(input) \in Nat /\ HeadLen \in Nat
    BY StreamTypes, BufferFields DEF tryDecode, SInv, TypeOK
  <1>1. CASE size(input) < HeadLen
    BY <1>0, <1>1 DEF tryDecode
  <1>2. CASE size(input) >= HeadLen
    <2>1. PICK k \in Indices : /\ msgs[k].first = rest[1] /\ Headed = {msgs[k]}
                               /\ Heads = {[len |-> msgs[k].len, known |-> msgs[k].known]}
      BY <1>0, <1>2, FrontMessage
    <2>2. \/ msgs[k].len > MaxBody /\ Refused
          \/ /\ msgs[k].len <= MaxBody /\ size(input) >= HeadLen + msgs[k].len
             /\ HandOver(HeadLen + msgs[k].len) /\ UNCHANGED <<at, inVars>>
          \/ /\ msgs[k].len <= MaxBody /\ size(input) < HeadLen + msgs[k].len
             /\ at' = "poll" /\ UNCHANGED <<input, handed, rest, inVars>>
      BY <1>0, <1>2, <2>1 DEF tryDecode
    <2> QED
      BY <1>2, <2>1, <2>2
  <1> QED
    BY <1>0, <1>1, <1>2

LEMMA TryDecodeFramed ==
    ASSUME SInv, Layout, Framed, tryDecode
    PROVE  Framed'
  <1>0. fault = "none" /\ Aligned
    BY DEF tryDecode, Framed
  <1>1. ASSUME UNCHANGED <<handed, rest, inVars>> PROVE Framed'
    BY <1>1, FramedStays DEF inVars
  <1>2. CASE Refused
    BY <1>2, LostFramed DEF Refused
  <1>3. ASSUME NEW k \in Indices, size(input) >= HeadLen, msgs[k].first = rest[1], msgs[k].len <= MaxBody,
               size(input) >= HeadLen + msgs[k].len, HandOver(HeadLen + msgs[k].len), UNCHANGED inVars
        PROVE  Framed'
    BY <1>0, <1>3, HandOverFramed
  <1> QED
    BY <1>0, <1>1, <1>2, <1>3, TryDecodeCases

LEMMA CodecStays == [Next]_vars => codec' = codec /\ (~ stale' => ~ stale)
  <1> SUFFICES ASSUME [Next]_vars PROVE codec' = codec /\ (~ stale' => ~ stale)
    OBVIOUS
  <1>1. /\ \A len \in Replies : encode(len) => UNCHANGED <<codec, stale>>
        /\ \A len \in Bodies, known \in BOOLEAN : PeerSends(len, known) => UNCHANGED <<codec, stale>>
    BY DEF encode, PeerSends
  <1>2. ASSUME NEW n \in 1 .. size(output), isend(n) PROVE UNCHANGED <<codec, stale>>
    BY <1>2 DEF isend
  <1>3. ASSUME NEW n \in 1 .. total, Read(n) PROVE codec' = codec /\ (~ stale' => ~ stale)
    BY <1>3 DEF Read
  <1>4. CASE Again \/ Lost \/ decode \/ tryDecode
    BY <1>4 DEF Again, Lost, decode, tryDecode
  <1>5. CASE UNCHANGED vars
    BY <1>5 DEF vars
  <1>6. CASE Next
    BY <1>1, <1>2, <1>3, <1>4, <1>6 DEF Next
  <1> QED
    BY <1>5, <1>6

LEMMA FramedOK == FInv /\ [Next]_vars => FInv'
  <1> SUFFICES ASSUME FInv, [Next]_vars PROVE FInv'
    OBVIOUS
  <1>1. SInv' /\ Layout'
    BY NextOK, LayoutOK DEF FInv
  <1>2. ASSUME codec' = "length", ~ stale' PROVE Framed'
    <2>1. codec = "length" /\ ~ stale
      BY <1>2, CodecStays DEF FInv
    <2>2. SInv /\ Layout /\ Framed
      BY <2>1 DEF FInv
    <2>3. ASSUME UNCHANGED <<handed, rest, inVars>> PROVE Framed'
      BY <2>2, <2>3, FramedStays DEF inVars
    <2>4. ASSUME NEW len \in Replies, encode(len) PROVE Framed'
      BY <2>3, <2>4 DEF encode
    <2>5. ASSUME NEW len \in Bodies, NEW known \in BOOLEAN, PeerSends(len, known) PROVE Framed'
      BY <2>2, <2>5, SendFramed
    <2>6. ASSUME NEW n \in 1 .. size(output), isend(n) PROVE Framed'
      BY <2>3, <2>6 DEF isend
    <2>7. ASSUME NEW n \in 1 .. total, Read(n) PROVE Framed'
      BY <1>2, <2>2, <2>7, ReadFramed
    <2>8. CASE Again
      BY <2>3, <2>8 DEF Again
    <2>9. CASE Lost
      BY <2>2, <2>9, LostFramed DEF Lost
    <2>10. CASE decode
      BY <2>1, <2>10 DEF decode
    <2>11. CASE tryDecode
      BY <2>2, <2>11, TryDecodeFramed
    <2>12. CASE UNCHANGED vars
      BY <2>3, <2>12 DEF vars
    <2> QED
      BY <2>4, <2>5, <2>6, <2>7, <2>8, <2>9, <2>10, <2>11, <2>12 DEF Next
  <1> QED
    BY <1>1, <1>2 DEF FInv

LEMMA InitFramed == Init => FInv
  <1> SUFFICES ASSUME Init PROVE FInv
    OBVIOUS
  <1>1. msgs = <<>> /\ rest = <<>> /\ handed = <<>> /\ total = 0 /\ next = 1 /\ start = 1
    BY DEF Init
  <1>2. Len(msgs) = 0 /\ Len(rest) = 0 /\ Len(handed) = 0 /\ IsStart(msgs, total, 1)
    BY <1>1 DEF IsStart
  <1>3. Layout
    BY <1>1, <1>2 DEF Layout, Indices
  <1>4. Framed
    BY <1>1, <1>2 DEF Framed, Aligned, Delivered
  <1> QED
    BY <1>3, <1>4, InitOK DEF FInv

LEMMA FramedInvariant == Spec => []FInv
  BY InitFramed, FramedOK, PTL DEF Spec

\* onMsg hands over the messages that were sent, whole and in order, wherever the
\* network cuts them, until a read adds to what an older connection left.
THEOREM MessagesAreWhole == Spec => []WholeMessages
  <1>1. FInv => WholeMessages
    BY DEF FInv, Framed, Delivered, WholeMessages, Indices
  <1> QED
    BY <1>1, FramedInvariant, PTL

----------------------------------------------------------------------------
(* Nothing whole is left when the callback returns.                        *)

\* Every message has a byte that is not in input_.
AllShort == \A k \in Indices : \E i \in 1 .. Len(Bytes(msgs[k])) :
                \A j \in 1 .. Len(rest) : rest[j] # Bytes(msgs[k])[i]

\* The front of input_ is a message LengthCodec refuses, of a connection that is closed.
Blocked == \E k \in Indices : /\ msgs[k].len > MaxBody /\ msgs[k].first < start
                              /\ rest # <<>> /\ rest[1] = msgs[k].first

\* When less than the first message is there, no message is.
LEMMA ShortLeavesNone ==
    ASSUME SInv, Layout, Aligned,
           \A k \in Indices : rest # <<>> /\ msgs[k].first = rest[1]
                              => Len(rest) < HeadLen + msgs[k].len
    PROVE  AllShort
  <1> SUFFICES ASSUME NEW k \in Indices
               PROVE  \E i \in 1 .. Len(Bytes(msgs[k])) :
                         \A j \in 1 .. Len(rest) : rest[j] # Bytes(msgs[k])[i]
    BY DEF AllShort
  <1> DEFINE n == HeadLen + msgs[k].len  g == msgs[k].first  L == Len(rest)
  <1>0. n \in Nat /\ n >= 1 /\ g \in Nat /\ L \in Nat /\ g + n = End(msgs[k])
        /\ \A j \in 1 .. L : rest[j] \in Nat
    <2>1. HeadLen \in Nat /\ HeadLen > 0 /\ msgs[k].len \in Nat /\ msgs[k].first \in Nat
      BY StreamTypes
    <2>2. n \in Nat /\ n >= 1 /\ g \in Nat /\ g + n = End(msgs[k])
      BY <2>1 DEF End
    <2>3. L \in Nat /\ \A j \in 1 .. L : rest[j] \in Nat
      BY StreamTypes
    <2> QED
      BY <2>2, <2>3
  <1>1. Len(Bytes(msgs[k])) = n /\ \A i \in 1 .. n : Bytes(msgs[k])[i] = g + i - 1
    BY BytesOf
  <1>2. CASE rest = <<>>
    <2>1. 1 \in 1 .. n /\ L = 0
      BY <1>0, <1>2
    <2> QED
      BY <1>1, <2>1
  <1>3. CASE rest # <<>>
    <2>1. PICK a \in Indices : msgs[a].first = rest[1]
      BY <1>3 DEF Aligned
    <2> DEFINE f == rest[1]
    <2>2. f \in Nat /\ \A j \in 1 .. L : rest[j] = f + j - 1
      BY <2>1, StreamTypes DEF Aligned
    <2>3. L < HeadLen + msgs[a].len /\ f + L < End(msgs[a]) /\ End(msgs[a]) \in Nat
      <3>1. L < HeadLen + msgs[a].len
        BY <1>3, <2>1
      <3>2. HeadLen \in Nat /\ msgs[a].len \in Nat /\ End(msgs[a]) = f + HeadLen + msgs[a].len
        BY <2>1, StreamTypes DEF End
      <3> QED
        BY <1>0, <2>2, <3>1, <3>2
    <2>4. \/ g < f
          \/ f + L <= g + n - 1
      <3>1. CASE g = f
        BY <1>0, <1>3, <2>2, <3>1
      <3>2. CASE f < g
        <4>1. End(msgs[a]) <= g
          BY <2>1, <3>2, FirstsApart
        <4> QED
          BY <1>0, <2>2, <2>3, <4>1
      <3> QED
        BY <1>0, <2>2, <3>1, <3>2
    <2> HIDE DEF f, g, L, n
    <2>5. CASE g < f
      <3>1. 1 \in 1 .. n /\ g + 1 - 1 = g
        BY <1>0
      <3>2. \A j \in 1 .. L : rest[j] # g
        BY <1>0, <2>2, <2>5
      <3> QED
        BY <1>1, <3>1, <3>2 DEF L
    <2>6. CASE f + L <= g + n - 1
      <3>1. n \in 1 .. n /\ Bytes(msgs[k])[n] = g + n - 1
        BY <1>0, <1>1
      <3>2. \A j \in 1 .. L : rest[j] # g + n - 1
        BY <1>0, <2>2, <2>6
      <3> QED
        BY <1>1, <3>1, <3>2 DEF L
    <2> QED
      BY <2>4, <2>5, <2>6
  <1> QED
    BY <1>2, <1>3

LEMMA SendShort ==
    ASSUME SInv, Layout, Aligned, AllShort, NEW len \in Bodies, NEW known \in BOOLEAN, PeerSends(len, known)
    PROVE  AllShort'
  <1>0. UNCHANGED rest
    BY DEF PeerSends
  <1> DEFINE z == Len(msgs) + 1
  <1>1. /\ \A k \in Indices : k \in Indices' /\ msgs'[k] = msgs[k]
        /\ \A k \in Indices' : k \in Indices \/ k = z
        /\ msgs'[z].first = total + 1 /\ z \in Indices'
    <2>1. Len(msgs') = z
      BY SendLayout
    <2>2. z \in 1 .. z
      BY StreamTypes
    <2> QED
      BY <2>1, <2>2, SendLayout DEF Indices
  <1>2. SInv'
    BY PeerSendsOK
  <1>3. \A k \in Indices : Bytes(msgs[k])' = Bytes(msgs[k])
    BY <1>1 DEF Bytes, Numbered
  <1> HIDE DEF z
  <1> SUFFICES ASSUME NEW k \in Indices'
               PROVE  \E i \in 1 .. Len(Bytes(msgs'[k])) :
                         \A j \in 1 .. Len(rest) : rest[j] # Bytes(msgs'[k])[i]
    BY <1>0 DEF AllShort, Bytes, Numbered
  <1>4. CASE k \in Indices
    BY <1>1, <1>3, <1>4 DEF AllShort
  <1>5. CASE k = z
    <2>1. /\ Len(Bytes(msgs'[z])) = HeadLen + msgs'[z].len
          /\ \A i \in 1 .. HeadLen + msgs'[z].len : Bytes(msgs'[z])[i] = msgs'[z].first + i - 1
          /\ 1 \in 1 .. HeadLen + msgs'[z].len
      <3>1. PeerSends(len, known) => msgs'[z] = [first |-> total + 1, len |-> len, known |-> known]
        BY DEF PeerSends, z, SInv, TypeOK
      <3>2. msgs'[z].len \in Nat /\ HeadLen \in Nat \ {0} /\ msgs'[z].first \in Nat
        BY <3>1, StreamAssumption, StreamTypes
      <3>3. Len(Bytes(msgs'[z])) = HeadLen + msgs'[z].len
        <4>1. HeadLen + msgs'[z].len \in Nat
          BY <3>2
        <4> QED
          BY <3>2, <4>1, NumberedType DEF Bytes
      <3> QED
        BY <3>2, <3>3 DEF Bytes, Numbered
    <2>2. total \in Nat
      BY StreamTypes
    <2>3. Bytes(msgs'[z])[1] = total + 1
      BY <1>1, <2>1, <2>2
    <2>4. \A j \in 1 .. Len(rest) : rest[j] # total + 1
      <3> TAKE j \in 1 .. Len(rest)
      <3>1. rest # <<>> /\ rest[1] + Len(rest) <= next /\ next <= total + 1 /\ rest[j] = rest[1] + j - 1
        BY DEF Aligned, Layout
      <3>2. rest[1] \in Nat /\ Len(rest) \in Nat /\ next \in Nat
        BY <3>1, StreamTypes
      <3> QED
        BY <2>2, <3>1, <3>2
    <2> QED
      BY <1>5, <2>1, <2>3, <2>4
  <1> QED
    BY <1>1, <1>4, <1>5

LEMMA TryDecodeShort ==
    ASSUME SInv, Layout, Aligned, tryDecode, at' = "poll"
    PROVE  (AllShort /\ UNCHANGED <<msgs, rest>>) \/ Blocked'
  <1>0. fault = "none" /\ at = "callback"
    BY DEF tryDecode
  <1>1. Len(rest) = size(input) /\ size(input) \in Nat /\ HeadLen \in Nat /\ HeadLen > 0
    BY <1>0, ContentType, BufferFields, StreamTypes DEF SInv, TypeOK, InputKept
  <1>2. CASE size(input) < HeadLen /\ UNCHANGED <<input, handed, rest, inVars>>
    <2>1. \A k \in Indices : Len(rest) < HeadLen + msgs[k].len
      BY <1>1, <1>2, StreamTypes
    <2> QED
      BY <1>2, <2>1, ShortLeavesNone DEF inVars
  <1>3. ASSUME NEW k \in Indices, size(input) >= HeadLen, msgs[k].first = rest[1], msgs[k].len > MaxBody, Refused
        PROVE  Blocked'
    <2>1. UNCHANGED <<msgs, total, rest>> /\ start' = total + 1
      BY <1>3 DEF Refused, NewConn
    <2>2. msgs[k].first < total + 1
      <3>1. End(msgs[k]) <= total + 1
        BY DEF Layout
      <3>2. /\ total \in Nat /\ msgs[k].first \in Nat /\ End(msgs[k]) \in Nat
            /\ End(msgs[k]) > msgs[k].first
        BY StreamTypes
      <3> QED
        BY <3>1, <3>2
    <2>3. rest # <<>>
      BY <1>1, <1>3
    <2> QED
      BY <1>3, <2>1, <2>2, <2>3 DEF Blocked, Indices
  <1>4. ASSUME NEW k \in Indices, size(input) >= HeadLen, msgs[k].first = rest[1],
               size(input) < HeadLen + msgs[k].len, UNCHANGED <<input, handed, rest, inVars>>
        PROVE  AllShort /\ UNCHANGED <<msgs, rest>>
    <2>1. \A j \in Indices : msgs[j].first = rest[1] => Len(rest) < HeadLen + msgs[j].len
      BY <1>1, <1>4, FirstsApart
    <2> QED
      BY <1>4, <2>1, ShortLeavesNone DEF inVars
  <1> QED
    BY <1>0, <1>2, <1>3, <1>4, TryDecodeCases

\* Only a read, or what onMsg takes out, changes the front of input_.
LEMMA BlockedStays ==
    ASSUME SInv, Blocked, UNCHANGED rest, start' >= start, start' \in Nat,
           \A k \in Indices : k \in Indices' /\ msgs'[k] = msgs[k]
    PROVE  Blocked'
  <1>1. PICK k \in Indices : /\ msgs[k].len > MaxBody /\ msgs[k].first < start
                             /\ rest # <<>> /\ rest[1] = msgs[k].first
    BY DEF Blocked
  <1>2. msgs[k].first < start'
    BY <1>1, StreamTypes
  <1> QED
    BY <1>1, <1>2 DEF Blocked

LEMMA ShortStays == AllShort /\ UNCHANGED <<msgs, rest>> => AllShort'
  <1> SUFFICES ASSUME AllShort, UNCHANGED <<msgs, rest>> PROVE AllShort'
    OBVIOUS
  <1>1. Indices' = Indices /\ \A k \in Indices : Bytes(msgs[k])' = Bytes(msgs[k])
    BY DEF Indices, Bytes, Numbered
  <1> QED
    BY <1>1 DEF AllShort

LEMMA NoneLeftOK == FInv /\ NoneLeft /\ [Next]_vars => NoneLeft'
  <1> SUFFICES ASSUME FInv, NoneLeft, [Next]_vars, codec' = "length", ~ stale', at' = "poll"
               PROVE  Blocked' \/ AllShort'
    BY DEF NoneLeft, AllShort, Blocked, Indices
  <1>1. codec = "length" /\ ~ stale
    BY CodecStays DEF FInv
  <1>2. SInv /\ Layout /\ Framed /\ Aligned /\ start \in Nat
    BY <1>1, StreamTypes DEF FInv, Framed
  <1>3. at = "poll" => Blocked \/ AllShort
    BY <1>1 DEF NoneLeft, AllShort, Blocked, Indices
  <1>4. ASSUME UNCHANGED <<msgs, rest, at, start>> PROVE Blocked' \/ AllShort'
    <2>1. Indices' = Indices /\ start' >= start /\ start' \in Nat
      BY <1>2, <1>4 DEF Indices
    <2> QED
      BY <1>2, <1>3, <1>4, <2>1, ShortStays, BlockedStays
  <1>5. ASSUME NEW len \in Replies, encode(len) PROVE Blocked' \/ AllShort'
    BY <1>4, <1>5 DEF encode, inVars
  <1>6. ASSUME NEW len \in Bodies, NEW known \in BOOLEAN, PeerSends(len, known)
        PROVE  Blocked' \/ AllShort'
    <2>1. at = "poll" /\ UNCHANGED <<rest, start>>
      BY <1>6 DEF PeerSends
    <2>2. CASE AllShort
      BY <1>2, <1>6, <2>2, SendShort
    <2>3. CASE Blocked
      <3>1. start' >= start /\ start' \in Nat
        BY <1>2, <2>1
      <3>2. \A k \in Indices : k \in Indices' /\ msgs'[k] = msgs[k]
        BY <1>2, <1>6, SendLayout
      <3> QED
        BY <1>2, <2>1, <2>3, <3>1, <3>2, BlockedStays
    <2> QED
      BY <1>3, <2>1, <2>2, <2>3
  <1>7. ASSUME NEW n \in 1 .. size(output), isend(n) PROVE Blocked' \/ AllShort'
    BY <1>4, <1>7 DEF isend, inVars
  <1>8. ASSUME NEW n \in 1 .. total, Read(n) PROVE Blocked' \/ AllShort'
    BY <1>8 DEF Read
  <1>9. CASE Again \/ Lost
    <2>1. UNCHANGED <<msgs, rest>> /\ ~ (size(input) > 0) /\ fault = "none"
      BY <1>9 DEF Again, Lost, Running, inVars
    <2>2. Len(rest) = size(input) /\ size(input) \in Nat
      BY <1>2, <2>1, ContentType, BufferFields DEF SInv, TypeOK, InputKept
    <2>3. rest = <<>>
      BY <1>2, <2>1, <2>2, StreamTypes
    <2> QED
      BY <1>2, <2>1, <2>3, ShortLeavesNone, ShortStays
  <1>10. CASE decode
    BY <1>1, <1>10 DEF decode
  <1>11. CASE tryDecode
    BY <1>2, <1>11, TryDecodeShort, ShortStays
  <1>12. CASE UNCHANGED vars
    BY <1>4, <1>12 DEF vars, inVars
  <1> QED
    BY <1>5, <1>6, <1>7, <1>8, <1>9, <1>10, <1>11, <1>12 DEF Next

\* When onMsg returns, input_ holds less than one message, and none waits there for bytes
\* of a later one; or the first one is longer than MaxBody and its connection is closed.
THEOREM NothingIsLeft == Spec => []NoneLeft
  <1>1. Init => NoneLeft
    <2> SUFFICES ASSUME Init PROVE Len(msgs) = 0
      BY DEF NoneLeft
    <2> QED
      BY DEF Init
  <1> QED
    BY <1>1, NoneLeftOK, FramedInvariant, PTL DEF Spec
=============================================================================
