------------------------------- MODULE Frames -------------------------------
(* The encoding of a message into one block of bytes: every frame is        *)
(* preceded by its size, one byte below the marker, or the marker and four  *)
(* bytes.                                                                    *)
EXTENDS Bytes, SequencesExt

Marker == Base - 1

Frame == Seq(Byte)

Total(frames) ==
  LET sum[k \in 0 .. Len(frames)] == IF k = 0 THEN 0 ELSE sum[k - 1] + Len(frames[k])
  IN sum[Len(frames)]

\* Mutation: a size that equals the marker is written in one byte.
HeaderShort(size) == IF size <= Marker THEN <<size>> ELSE <<Marker>> \o Put4(size)

Header(size) == IF size < Marker THEN <<size>> ELSE <<Marker>> \o Put4(size)

Encode(frames) == FlattenSeq([i \in DOMAIN frames |-> Header(Len(frames[i])) \o frames[i]])

(* decode() keeps the size in an int: a size with the top bit set is         *)
(* negative, passes the test against the limit and is then used as a length. *)
Signed(n) == IF n < Long \div 2 THEN n ELSE n - Long

(* The size at the start of a buffer, the bytes it takes and whether the     *)
(* frame it announces is there.                                              *)
ReadHeader(b) ==
  LET long == b[1] = Marker
      head == IF long THEN 5 ELSE 1
      cut  == long /\ ~Holds(b, 5)
      size == CASE cut -> 0
                [] long /\ ~cut -> Signed(Get4(Tail(b)))
                [] OTHER -> b[1]
  IN [size |-> size, head |-> head,
      verdict |-> CASE cut -> "malformed"
                    [] size < 0 -> "undefined"
                    [] ~cut /\ size >= 0 /\ ~Holds(b, head + size) -> "malformed"
                    [] OTHER -> "ok"]

(* The frames of a buffer and the verdict on it; a malformed buffer has no   *)
(* frames.                                                                   *)
Decode(buffer) ==
  LET from[p \in 0 .. Len(buffer)] ==
        IF p = Len(buffer) THEN [verdict |-> "ok", frames |-> <<>>]
        ELSE LET b == Rest(buffer, p)
                 h == ReadHeader(b)
             IN IF h.verdict # "ok" THEN [verdict |-> h.verdict, frames |-> <<>>]
                ELSE LET rest == from[p + (h.head + h.size)]
                     IN IF rest.verdict # "ok" THEN rest
                        ELSE [rest EXCEPT !.frames =
                                <<SubSeq(b, h.head + 1, h.head + h.size)>> \o @]
  IN from[0]
=============================================================================
