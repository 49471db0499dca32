------------------------------ MODULE MsgStream ------------------------------
(***************************************************************************)
(* The bytes of a client connection, in input_ and output_, and the read   *)
(* callback that cuts the input into messages: the one of registerToMS,    *)
(* with ExternalMsgCodec, or the one of onMsg, with LengthCodec.           *)
(*                                                                         *)
(* The bytes of each direction are numbered in the order in which they are *)
(* sent, over all connections.  A message is a head (HeadLen bytes) and a  *)
(* body; the network delivers in pieces of any size, and may break the     *)
(* connection between any two, after which the next one begins with the    *)
(* head of a message.                                                      *)
(***************************************************************************)
EXTENDS Buffer

CONSTANTS HeadLen,       \* sizeof(BaseHead), or magic and length
          Bodies,        \* the lengths of bodies the peer sends
          Replies,       \* the lengths of bodies encoded here
          MaxBody,       \* the longest body LengthCodec takes, 1024 * 1024
          MaxMsgs,       \* bound on the messages received
          MaxOut,        \* bound on the bytes encoded before the last message
          MaxConns       \* bound on the connections

ASSUME StreamAssumption ==
    HeadLen \in Nat \ {0} /\ Bodies \subseteq Nat /\ Replies \subseteq Nat
    /\ MaxBody \in Nat /\ MaxMsgs \in Nat /\ MaxOut \in Nat /\ MaxConns \in Nat

VARIABLES codec,         \* which callback is set
          input, output, \* input_, output_
          msgs,          \* the messages the peer has sent
          total,         \* bytes the peer has sent
          next,          \* the next byte to be read from the socket
          start,         \* the first byte of this connection
          conn,          \* connections so far
          at,            \* the place in handleRead
          handed,        \* the bytes of each message handed over
          encoded, wrote,\* bytes encoded to output_, and taken by the socket
          rest,          \* history: bytes read and not consumed
          stale,         \* history: a read found bytes of an older connection
          fault          \* bytes taken that were not there, or a message that is none

inVars == <<msgs, total, next, start, conn>>
outVars == <<output, encoded, wrote>>
vars == <<codec, input, inVars, at, handed, outVars, rest, stale, fault>>

Messages == [first : Nat, len : Bodies, known : BOOLEAN]
Numbered(from, n) == [i \in 1 .. n |-> from + i - 1]
Bytes(m) == Numbered(m.first, HeadLen + m.len)

\* After "partial", which only ExternalMsgCodec reaches, b_ of input_ is past its e_.
TypeOK ==
    /\ codec \in {"external", "length"}
    /\ codec = "length" \/ fault # "partial" => IsBuffer(input)
    /\ IsBuffer(output)
    /\ msgs \in Seq(Messages)
    /\ total \in Nat /\ next \in Nat /\ start \in Nat /\ conn \in Nat
    /\ at \in {"poll", "reading", "callback"}
    /\ handed \in Seq(Seq(Nat)) /\ rest \in Seq(Nat)
    /\ encoded \in Nat /\ wrote \in Nat /\ wrote <= encoded
    /\ stale \in BOOLEAN /\ fault \in {"none", "partial", "null", "negative"}

Init ==
    /\ codec \in {"external", "length"}
    /\ input = Empty /\ output = Empty
    /\ msgs = <<>> /\ total = 0 /\ next = 1 /\ start = 1 /\ conn = 1
    /\ at = "poll" /\ handed = <<>>
    /\ encoded = 0 /\ wrote = 0
    /\ rest = <<>> /\ stale = FALSE /\ fault = "none"

Running == fault = "none" /\ conn <= MaxConns

----------------------------------------------------------------------------
(* Sending.                                                                *)

\* The peer encodes a message and writes it to the socket.
PeerSends(len, known) ==
    /\ Running /\ Len(msgs) < MaxMsgs /\ (codec = "length" => known)
    /\ msgs' = Append(msgs, [first |-> total + 1, len |-> len, known |-> known])
    /\ total' = total + HeadLen + len
    /\ UNCHANGED <<codec, input, next, start, conn, at, handed, outVars, rest, stale, fault>>

\* encode, by ExternalMsgCodec or LengthCodec: the head, whose values are appended
\* here in one piece, and then the body, which may be empty.
encode(len) ==
    /\ Running /\ encoded < MaxOut
    /\ output' = append(append(output, Numbered(encoded + 1, HeadLen)),
                        Numbered(encoded + HeadLen + 1, len))
    /\ encoded' = encoded + HeadLen + len
    /\ UNCHANGED <<codec, input, inVars, at, handed, wrote, rest, stale, fault>>

\* isend takes n bytes of output_ (handleWrite and sendOutput).
isend(n) ==
    /\ Running /\ n \in 1 .. size(output)
    /\ output' = consume(output, n)
    /\ wrote' = wrote + n
    /\ UNCHANGED <<codec, input, inVars, at, handed, encoded, rest, stale, fault>>

----------------------------------------------------------------------------
(* Receiving: handleRead.                                                  *)

\* read() returns n bytes.
Read(n) ==
    /\ Running /\ at \in {"poll", "reading"} /\ at' = "reading"
    /\ LET B == makeRoomToRead(input)
       IN  /\ n \in 1 .. space(B) /\ next + n <= total + 1
           /\ input' = fill(B, Numbered(next, n))
    /\ next' = next + n
    /\ rest' = rest \o Numbered(next, n)
    /\ stale' = (stale \/ \E i \in 1 .. Len(rest) : rest[i] < start)
    /\ UNCHANGED <<codec, msgs, total, start, conn, handed, outVars, fault>>

\* read() finds nothing (yet), and the callback is called.
Again ==
    /\ Running /\ at = "reading"
    /\ at' = IF size(input) > 0 THEN "callback" ELSE "poll"
    /\ UNCHANGED <<codec, input, inVars, handed, outVars, rest, stale, fault>>

\* The connection is gone, with what was not read; input_ and output_ stay.
NewConn == next' = total + 1 /\ start' = total + 1 /\ conn' = conn + 1

\* cleanup calls the callback for what is left, and the connection is made again.
Lost ==
    /\ Running /\ at \in {"poll", "reading"}
    /\ at' = IF size(input) > 0 THEN "callback" ELSE "poll"
    /\ NewConn
    /\ UNCHANGED <<codec, input, msgs, total, handed, outVars, rest, stale, fault>>

\* The messages whose head is at the beginning of input_: one, or none when the
\* bytes are the remains of something else.
Headed == {m \in {msgs[i] : i \in 1 .. Len(msgs)} :
              \A i \in 1 .. HeadLen : Content(input)[i] = Bytes(m)[i]}

\* What the head may say; bytes that are no head may say anything.
Heads == IF Headed # {} THEN {[len |-> m.len, known |-> m.known] : m \in Headed}
         ELSE [len : Bodies, known : BOOLEAN]

\* A mistake: the head is not consumed with the body.
HandOverBody(n) ==
    /\ handed' = Append(handed, SubSeq(Content(input), 1, n))
    /\ rest' = SubSeq(rest, n + 1, Len(rest))
    /\ input' = IF n > HeadLen THEN consume(input, n - HeadLen) ELSE consume(input, n)

\* A message of n bytes is consumed and handed over.
HandOver(n) ==
    /\ handed' = Append(handed, SubSeq(Content(input), 1, n))
    /\ rest' = SubSeq(rest, n + 1, Len(rest))
    /\ input' = consume(input, n)

\* A message of n bytes of which not all have arrived is consumed and handed over:
\* what lies behind e_ is taken for the rest of it, and b_ moves past e_.
HandOverPartial(n) ==
    /\ handed' = Append(handed, [i \in 1 .. n |-> IF i <= size(input) THEN Content(input)[i]
                                                  ELSE Undefined])
    /\ rest' = <<>>
    /\ input' = consume(input, n)

\* The callback of registerToMS: msgComplete, decode and handle.  One message is
\* decoded at most; one that cannot be decoded, because its command is not known or
\* its body is bad (~ known), stays; a body is parsed whether it has arrived or not,
\* and the bytes behind e_ may or may not make it a bad one; a message without a
\* body is handled as a null pointer.
decode ==
    /\ at = "callback" /\ fault = "none" /\ codec = "external" /\ at' = "poll"
    /\ \/ /\ size(input) < HeadLen
          /\ UNCHANGED <<input, handed, rest, fault>>
       \/ /\ size(input) >= HeadLen
          /\ \E h \in Heads :
               \/ h.len = 0 /\ HandOver(HeadLen) /\ fault' = "null"
               \/ /\ h.len > 0 /\ (~ h.known \/ size(input) < HeadLen + h.len)
                  /\ UNCHANGED <<input, handed, rest, fault>>
               \/ /\ h.len > 0 /\ h.known /\ size(input) >= HeadLen + h.len
                  /\ HandOver(HeadLen + h.len) /\ UNCHANGED fault
               \/ /\ h.len > 0 /\ h.known /\ size(input) < HeadLen + h.len
                  /\ HandOverPartial(HeadLen + h.len) /\ fault' = "partial"
    /\ UNCHANGED <<codec, inVars, outVars, stale>>

\* channel_->close() when tryDecode returns less than 0; input_ stays as it is.
Refused == at' = "poll" /\ NewConn /\ UNCHANGED <<input, handed, rest, msgs, total, fault>>

\* Mistakes tryDecode and onMsg could have made: a message is taken before all of
\* it is there, one message is taken per event.
tryDecodeEarly ==
    /\ at = "callback" /\ fault = "none" /\ codec = "length"
    /\ \/ size(input) < HeadLen /\ at' = "poll" /\ UNCHANGED <<input, handed, rest>>
       \/ size(input) >= HeadLen /\ HandOver(size(input)) /\ UNCHANGED at
    /\ UNCHANGED <<codec, inVars, outVars, stale, fault>>

tryDecodeOnce ==
    /\ at = "callback" /\ fault = "none" /\ codec = "length" /\ at' = "poll"
    /\ \/ size(input) < HeadLen /\ UNCHANGED <<input, handed, rest, inVars, fault>>
       \/ /\ size(input) >= HeadLen
          /\ \E h \in Heads : IF h.len > MaxBody THEN Refused
                              ELSE /\ UNCHANGED <<inVars, fault>>
                                   /\ IF size(input) >= HeadLen + h.len
                                      THEN HandOver(HeadLen + h.len)
                                      ELSE UNCHANGED <<input, handed, rest>>
    /\ UNCHANGED <<codec, outVars, stale>>

\* One round of the loop of onMsg.  A head that says more than MaxBody closes the
\* connection; bytes that are no head may also fail the test of the magic, or say a
\* negative length: one below - HeadLen is a result less than 0 as well, one above it
\* is a message that ends before it begins, of which fewer bytes than a head are
\* consumed.
tryDecode ==
    /\ at = "callback" /\ fault = "none" /\ codec = "length"
    /\ \/ /\ size(input) < HeadLen
          /\ at' = "poll" /\ UNCHANGED <<input, handed, rest, inVars, fault>>
       \/ /\ size(input) >= HeadLen
          /\ \E h \in Heads :
               \/ h.len > MaxBody /\ Refused
               \/ /\ h.len <= MaxBody /\ size(input) >= HeadLen + h.len
                  /\ HandOver(HeadLen + h.len) /\ UNCHANGED <<at, inVars, fault>>
               \/ /\ h.len <= MaxBody /\ size(input) < HeadLen + h.len
                  /\ at' = "poll" /\ UNCHANGED <<input, handed, rest, inVars, fault>>
       \/ /\ size(input) >= HeadLen /\ Headed = {}
          /\ \/ Refused
             \/ /\ \E n \in 1 .. HeadLen - 1 : HandOver(n)
                /\ fault' = "negative" /\ UNCHANGED <<at, inVars>>
    /\ UNCHANGED <<codec, outVars, stale>>

Next ==
    \/ \E len \in Bodies, known \in BOOLEAN : PeerSends(len, known)
    \/ \E len \in Replies : encode(len)
    \/ \E n \in 1 .. size(output) : isend(n)
    \/ \E n \in 1 .. total : Read(n)
    \/ Again \/ Lost \/ decode \/ tryDecode

Spec == Init /\ [][Next]_vars
----------------------------------------------------------------------------
(* Properties.                                                             *)

\* However the bytes are cut, read, moved within the array and taken out, input_
\* holds exactly those that were read and not consumed, in order: also after the
\* array was moved or reallocated under the bytes, and over a reconnection.  Under
\* onMsg this is always so; under registerToMS it is until ExternalMsgCodec consumes a
\* message whose body has not arrived, which msgComplete does not ask for.
InputKept ==
    codec = "length" \/ fault # "partial" => input.b <= input.e /\ Content(input) = rest

\* output_ holds exactly what was encoded and not taken by the socket, in order.
OutputKept == Content(output) = Numbered(wrote + 1, encoded - wrote)

\* onMsg hands over what was sent, message by message, whole, in order and none
\* twice, and none that is longer than MaxBody, wherever the network cuts, unless the
\* connection was lost in the middle of a message that was read in part and then made
\* again.
WholeMessages ==
    codec = "length" /\ ~ stale =>
        /\ \A i \in 1 .. Len(handed) : \E k \in 1 .. Len(msgs) :
              handed[i] = Bytes(msgs[k]) /\ msgs[k].len <= MaxBody
        /\ \A i, j \in 1 .. Len(handed) : i < j => handed[i][1] < handed[j][1]

\* When onMsg's callback returns no whole message is left in input_, so that none
\* waits for bytes of a later one; except that a message longer than MaxBody is at the
\* front of it, with whatever has arrived behind, and its connection was closed.
NoneLeft ==
    codec = "length" /\ ~ stale /\ at = "poll" =>
        \/ \E k \in 1 .. Len(msgs) : /\ msgs[k].len > MaxBody /\ msgs[k].first < start
                                     /\ rest # <<>> /\ rest[1] = msgs[k].first
        \/ \A k \in 1 .. Len(msgs) : \E i \in 1 .. Len(Bytes(msgs[k])) :
              \A j \in 1 .. Len(rest) : rest[j] # Bytes(msgs[k])[i]
=============================================================================
