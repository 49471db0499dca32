----------------------------- MODULE StreamBuf -----------------------------
(***************************************************************************)
(* The two recording buffers of a StoreSession and the read callback that  *)
(* fills them: each datagram is received straight into the buffer, its     *)
(* length is written into the two bytes before it, and when less than      *)
(* LOWATER bytes are left the buffer is exchanged for the other one.       *)
(*                                                                         *)
(* A buffer is a function from offsets to bytes; a byte says what it is a  *)
(* part of.  Offsets are size_t and wrap at Word.                          *)
(***************************************************************************)
EXTENDS Integers, Sequences

CONSTANTS BufSize,       \* BUFSIZE, 10 MB
          LoWater,       \* LOWATER, 1470
          PacketSize,    \* handy::kUdpPacketSize, 4096: what recvfrom takes at most
          LenSpace,      \* 2^16, the values of a uint16_t
          Word           \* 2^64

ASSUME SizesAssumption ==
    /\ BufSize \in Nat /\ LoWater \in Nat /\ PacketSize \in Nat
    /\ LenSpace \in Nat /\ Word \in Nat
    /\ 2 <= LoWater /\ LoWater + 2 <= BufSize /\ BufSize + PacketSize + 2 < Word
    /\ PacketSize < LenSpace

Offsets == 0 .. BufSize - 1

\* Byte j of the n-th datagram of the buffer, half h of the length v, and a byte that
\* was not written since the buffer came into use.
Datum(n, j) == <<"data", n, j>>
LenByte(v, h) == <<"len", v, h>>
Stale == <<"stale", 0, 0>>
Byte == {"stale", "data", "len"} \X Nat \X Nat

VARIABLES b,             \* b_: where the next datagram goes
          buf, next,     \* buf_ and next_
          recs, full,    \* history: the datagrams received into buf and into next
          small,         \* history: no datagram has been longer than LoWater - 2
          overrun        \* history: a datagram went past the end of the buffer

bufVars == <<b, buf, next, recs, full, small, overrun>>

BufInit ==
    /\ b = 2
    /\ buf = [a \in Offsets |-> Stale] /\ next = buf
    /\ recs = <<>> /\ full = <<>>
    /\ small = TRUE /\ overrun = FALSE

cap(at) == (Word + BufSize - at) % Word

\* A mistake: the exchange waits until there is nothing left.
isFullToTheBrim(at) == cap(at) = 0

isFull(at) == cap(at) < LoWater

\* recvfrom writes the datagram, the n-th of this buffer, at b_.
Recvfrom(n, len) ==
    [a \in Offsets |-> IF a \in b .. b + len - 1 THEN Datum(n, a - b) ELSE buf[a]]

\* Two bytes at offset p.  What is outside of the buffer is somebody else's.
appendValue(mem, p, value) ==
    [a \in Offsets |-> IF a \in p .. p + 1 THEN LenByte(value, a - p) ELSE mem[a]]

\* A mistake: no room is left for the next length.
consumeTight(mem, len) == [mem |-> appendValue(mem, b - 2, len % LenSpace), b |-> b + len]

\* The length goes to b_ - 2, and the next datagram behind this one, past the two bytes
\* of its length.  Right after an exchange b_ is 0: the length is written in front of the
\* buffer, into memory of the allocator, and the buffer does not get it.
consume(mem, len) == [mem |-> appendValue(mem, b - 2, len % LenSpace), b |-> b + len + 2]

\* The other buffer, from its first byte.  What an earlier round left in it is stale.
resetBuf(mem, rs) ==
    /\ b' = 0
    /\ buf' = [a \in DOMAIN next |-> Stale] /\ recs' = <<>>
    /\ next' = mem /\ full' = rs

\* The read callback of attatchToLoop.  An error of recvfrom changes nothing.  What is
\* to be written out when the buffer is full is not written yet ("TODO write to SFS").
\* Once a datagram has run over the end of the buffer nothing is known any more.
Receive(len) ==
    LET n   == Len(recs) + 1
        new == consume(Recvfrom(n, len), len)
        rs  == Append(recs, [at |-> b, len |-> len])
    IN  /\ ~overrun
        /\ overrun' = (b + len > BufSize)
        /\ small' = (small /\ len + 2 <= LoWater)
        /\ \/ /\ ~isFull(new.b)
              /\ b' = new.b /\ buf' = new.mem /\ recs' = rs
              /\ UNCHANGED <<next, full>>
           \/ /\ isFull(new.b)
              /\ resetBuf(new.mem, rs)

BufNext == \E len \in 0 .. PacketSize : Receive(len)

BufSpec == BufInit /\ [][BufNext]_bufVars

----------------------------------------------------------------------------

Record == [at : Nat, len : 0 .. PacketSize]

BufTypeOK == /\ b \in Nat
             /\ buf \in [Offsets -> Byte] /\ next \in [Offsets -> Byte]
             /\ recs \in Seq(Record) /\ full \in Seq(Record)
             /\ small \in BOOLEAN /\ overrun \in BOOLEAN

\* The datagram r, the n-th of the buffer, is in it byte for byte.
Whole(mem, n, r) == \A j \in 0 .. r.len - 1 : mem[r.at + j] = Datum(n, j)

\* The two bytes in front of the datagram r are in the buffer and hold its length.
LengthFound(mem, r) ==
    r.at >= 2 /\ mem[r.at - 2] = LenByte(r.len, 0) /\ mem[r.at - 1] = LenByte(r.len, 1)

\* A reader who stands at a datagram and knows its length gets all of it, finds the
\* length of the next right behind it, and goes on like that to the last.
ReadsOn(mem, rs) ==
    \A n \in DOMAIN rs :
        /\ Whole(mem, n, rs[n])
        /\ n > 1 => /\ rs[n].at = rs[n - 1].at + rs[n - 1].len + 2
                    /\ LengthFound(mem, rs[n])

FirstLengthFound(mem, rs) == rs # <<>> /\ rs[1].at # 0 => LengthFound(mem, rs[1])

\* Both buffers can be read back, the one being filled and the one set aside to be
\* written out, although each length is written between two datagrams after the first
\* of them has been received.
\* The length of the first datagram is found only in the buffer the session began with:
\* in every later one that datagram is at 0 and its length was written elsewhere, so a
\* reader has to know it from somewhere else.
ReadsBack ==
    ~overrun =>
        /\ ReadsOn(buf, recs) /\ FirstLengthFound(buf, recs)
        /\ ReadsOn(next, full) /\ FirstLengthFound(next, full)

\* As long as no datagram comes within two bytes of LOWATER the next one has room, and
\* nothing is received behind the end of the buffer.
SmallFits == small => b + LoWater <= BufSize /\ ~overrun
=============================================================================
