------------------------------- MODULE Bytes -------------------------------
(* Numbers in network order, as Messages::encode, Socket::bsend and         *)
(* GossipFrame::send write them and their receivers read them back. A byte  *)
(* is a number below Base, which is 256 in the code; a small Base makes the *)
(* numbers wrap and the length marker appear at small sizes.                *)
EXTENDS Integers, Sequences

CONSTANT Base

ASSUME BaseAssumption == Base \in Nat /\ Base > 1

Byte == 0 .. Base - 1
Word == Base * Base
Long == Word * Word

\* Mutation: one byte is put without being cut to a byte.
Put1Uncut(n) == <<n>>

Put1(n) == <<n % Base>>
Put2(n) == <<(n \div Base) % Base, n % Base>>
Put4(n) ==
  LET high == (n \div Word) % Word
      low  == n % Word
  IN <<(high \div Base) % Base, high % Base, (low \div Base) % Base, low % Base>>
Put8(n) == Put4((n \div Long) % Long) \o Put4(n % Long)

Get1(b) == b[1]
Get2(b) == b[1] * Base + b[2]
Get4(b) == Get2(b) * Word + b[3] * Base + b[4]
Get8(b) == Get4(b) * Long + Get4(SubSeq(b, 5, 8))

(* What is left of a buffer after k bytes, and whether it holds as many.    *)
Rest(b, k) == SubSeq(b, k + 1, Len(b))
Holds(b, k) == k <= Len(b)
============================================================================
