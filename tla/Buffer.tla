-------------------------------- MODULE Buffer --------------------------------
(***************************************************************************)
(* handy's Buffer: an array of which the bytes from b_ to e_ are in use.   *)
(* A buffer is a record; mem is the array, in which a byte that was never  *)
(* written is Undefined.  Every operation may move the bytes; none may     *)
(* change what Content shows of them, except at its ends.                  *)
(***************************************************************************)
EXTENDS Naturals, Sequences

CONSTANT Exp             \* exp_, the least number of bytes to allocate

ASSUME BufferAssumption == Exp \in Nat \ {0}

Undefined == 0
Empty == [b |-> 0, e |-> 0, cap |-> 0, mem |-> <<>>]

size(B) == B.e - B.b
space(B) == B.cap - B.e
Content(B) == [i \in 1 .. size(B) |-> B.mem[B.b + i]]

IsBuffer(B) ==
    /\ B = [b |-> B.b, e |-> B.e, cap |-> B.cap, mem |-> B.mem]
    /\ B.b \in Nat /\ B.e \in Nat /\ B.cap \in Nat
    /\ B.b <= B.e /\ B.e <= B.cap
    /\ B.mem \in [1 .. B.cap -> Nat]

Larger(x, y) == IF x >= y THEN x ELSE y

expand(B, len) ==
    LET n == Larger(Exp, Larger(2 * B.cap, size(B) + len))
    IN  [b |-> 0, e |-> size(B), cap |-> n,
         mem |-> [i \in 1 .. n |-> IF i <= size(B) THEN B.mem[B.b + i] ELSE Undefined]]

\* A mistake: the offsets are moved and the bytes are not.
moveHeadOffsets(B) == [B EXCEPT !.b = 0, !.e = size(B)]

moveHead(B) ==
    [b |-> 0, e |-> size(B), cap |-> B.cap,
     mem |-> [i \in 1 .. B.cap |-> IF i <= size(B) THEN B.mem[B.b + i] ELSE B.mem[i]]]

\* makeRoom(size_t)
makeRoom(B, len) ==
    IF B.e + len <= B.cap THEN B
    ELSE IF size(B) + len < B.cap \div 2 THEN moveHead(B)
    ELSE expand(B, len)

\* makeRoom(), before a read of up to space() bytes.
makeRoomToRead(B) == IF space(B) < Exp THEN expand(B, 0) ELSE B

\* The bytes s written at end(), and addSize.
fill(B, s) ==
    [B EXCEPT !.e = @ + Len(s),
              !.mem = [i \in 1 .. B.cap |->
                          IF i \in B.e + 1 .. B.e + Len(s) THEN s[i - B.e] ELSE B.mem[i]]]

append(B, s) == fill(makeRoom(B, Len(s)), s)

consume(B, len) == IF B.b + len = B.e THEN Empty ELSE [B EXCEPT !.b = @ + len]
=============================================================================
