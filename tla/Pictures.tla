------------------------------ MODULE Pictures ------------------------------
(* What Socket::send, recv, bsend and brecv do with the elements of their   *)
(* pictures. A frame is a record: its form says whether the body is bytes,  *)
(* the decimal text of a number, or that text with a letter behind it, which *)
(* reads back as no number; a text is one byte long here. An element of a     *)
(* picture to send is a record of its type, its value and whether it is a    *)
(* null pointer; what is received for it is a frame, or several for 'm'.      *)
EXTENDS Bytes, SequencesExt

CONSTANTS
  PointerSize,  \* sizeof (void *)
  MAX_ALLOC_SIZE

Bytes(b)    == [form |-> "bytes", body |-> b]
Decimal(n)  == [form |-> "decimal", body |-> <<n>>]
Lettered(n) == [form |-> "lettered", body |-> <<n>>]
Empty == Bytes(<<>>)
NULL  == [form |-> "null", body |-> <<>>]
Unset == [form |-> "unset", body |-> <<>>]

-----------------------------------------------------------------------------
(* Socket::send: 'i' is printed with %d, 'u' with %ud.                      *)
ElementFrames(e) ==
  CASE e.type = "i" -> <<Decimal(e.value)>>
    [] e.type = "u" -> <<Lettered(e.value)>>
    [] e.type \in {"s", "b", "c", "f", "p"} -> <<Bytes(e.value)>>
    [] e.type = "m" -> [i \in DOMAIN e.value |-> Bytes(e.value[i])]
    [] e.type = "z" -> <<Empty>>

PictureFrames(args) == FlattenSeq([i \in DOMAIN args |-> ElementFrames(args[i])])

(* Socket::recv: one frame for every element, all that are left for 'm'. An *)
(* element that finds no frame is zero, or NULL.                             *)
Number(frame) == IF frame.form = "decimal" THEN frame ELSE Decimal(0)

HasPointerSize(frame) == frame.form = "bytes" /\ Len(frame.body) = PointerSize

ElementValue(type, frame) ==
  CASE type \in {"i", "u"} -> Number(frame)
    [] type = "p" -> IF frame = NULL \/ HasPointerSize(frame) THEN frame ELSE Unset
    [] type = "z" -> Unset
    [] OTHER -> frame

(* The frame that element i is given: none behind an 'm'.                   *)
FrameOf(frames, picture, i) ==
  IF i \in DOMAIN frames /\ \A j \in 1 .. i - 1 : picture[j] # "m"
  THEN frames[i] ELSE NULL

PictureValues(frames, picture) ==
  [i \in DOMAIN picture |->
     IF picture[i] # "m" THEN <<ElementValue(picture[i], FrameOf(frames, picture, i))>>
     ELSE IF FrameOf(frames, picture, i) = NULL THEN <<>>
     ELSE SubSeq(frames, i, Len(frames))]

Refuses(type, frame) ==
  /\ frame # NULL
  /\ \/ type = "p" /\ ~HasPointerSize(frame)
     \/ type = "z" /\ frame # Empty

PictureStatus(frames, picture) ==
  IF \E i \in DOMAIN picture : Refuses(picture[i], FrameOf(frames, picture, i))
  THEN -1 ELSE 0

-----------------------------------------------------------------------------
(* Socket::bsend: the data frame holds the numbers, strings, chunks and     *)
(* pointers; each frame, and each frame of the message at the end, follows   *)
(* as a frame of its own. A chunk that is NULL has its size counted and     *)
(* nothing written, so the bytes at the end of the data frame  *)
(* are those the allocator left there, leftover.                             *)
Written(e) ==
  CASE e.type = "1" -> Put1(e.value)
    [] e.type = "2" -> Put2(e.value)
    [] e.type = "4" -> Put4(e.value)
    [] e.type = "8" -> Put8(e.value)
    [] e.type = "p" -> e.value
    [] e.type = "s" -> Put1(Len(e.value)) \o e.value
    [] e.type = "S" -> Put4(Len(e.value)) \o e.value
    [] e.type = "c" -> IF e.null THEN <<>> ELSE Put4(Len(e.value)) \o e.value
    [] OTHER -> <<>>

Unwritten(args) ==
  4 * Cardinality({i \in DOMAIN args : args[i].type = "c" /\ args[i].null})

DataFrame(args, leftover) ==
  Bytes(FlattenSeq([i \in DOMAIN args |-> Written(args[i])]) \o leftover)

ExtraFrames(args) ==
  FlattenSeq([i \in DOMAIN args |->
    CASE args[i].type = "f" -> <<Bytes(args[i].value)>>
      [] args[i].type = "m" -> IF args[i].null THEN <<Empty>>
                               ELSE [k \in DOMAIN args[i].value |-> Bytes(args[i].value[k])]
      [] OTHER -> <<>>])

(* Socket::brecv reads element after element: needle bytes of the data frame *)
(* and taken frames of the message so far, and gives up at the first element *)
(* that is not there. 'p' is not compared with the end of the frame: what is  *)
(* read behind it is whatever is there.                                      *)
Size(type, b) ==
  CASE type = "1" -> 1 [] type = "2" -> 2 [] type = "4" -> 4 [] type = "8" -> 8
    [] type = "p" -> PointerSize
    [] type = "s" -> IF Holds(b, 1) THEN 1 + Get1(b) ELSE 1
    [] type \in {"S", "c"} -> IF Holds(b, 4) THEN 4 + Get4(b) ELSE 4

\* Mutation: an element that ends with the frame is taken for malformed.
MalformedAtEnd(type, b) ==
  \/ type # "p" /\ ~Holds(b, Size(type, b) + 1)
  \/ type \in {"S", "c"} /\ Size(type, b) > 4 + MAX_ALLOC_SIZE

Malformed(type, b) ==
  \/ type # "p" /\ ~Holds(b, Size(type, b))
  \/ type \in {"S", "c"} /\ Size(type, b) > 4 + MAX_ALLOC_SIZE

Read(type, b) ==
  CASE type = "1" -> Decimal(Get1(b)) [] type = "2" -> Decimal(Get2(b))
    [] type = "4" -> Decimal(Get4(b)) [] type = "8" -> Decimal(Get8(b))
    [] type = "p" -> IF Holds(b, PointerSize) THEN Bytes(SubSeq(b, 1, PointerSize)) ELSE Unset
    [] type = "s" -> Bytes(SubSeq(b, 2, Size(type, b)))
    [] type \in {"S", "c"} -> Bytes(SubSeq(b, 5, Size(type, b)))

(* Strings of 's' are copied, each with a terminator, into the cache of the *)
(* socket. When one does not fit the variable is doubled, but realloc() is   *)
(* given the size from before: the block is as long as that. A byte written  *)
(* behind the block is an overrun, after which nothing is defined.           *)
Cached(s, type, b) ==
  IF type # "s" THEN s
  ELSE LET size  == Get1(b)
           full  == s.cache_used + size > s.cache_size
           block == IF full THEN s.cache_size ELSE s.cache_block
       IN [s EXCEPT !.cache_used = @ + size + 1,
                    !.cache_block = block,
                    !.cache_size = IF full THEN 2 * @ ELSE @,
                    !.overrun = @ \/ s.cache_used + size + 1 > block]

BrecvElement(s, type, frames) ==
  LET b    == Rest(frames[1].body, s.needle)
      data == type \notin {"f", "m"}
      upto == IF type = "f" THEN s.taken + 1 ELSE Len(frames)
  IN CASE s.rc = -1 -> s
       [] s.rc = 0 /\ data /\ ~Malformed(type, b) ->
            [Cached(s, type, b) EXCEPT !.needle = @ + Size(type, b),
                                       !.values = Append(@, <<Read(type, b)>>)]
       [] s.rc = 0 /\ ~data /\ s.taken < Len(frames) ->
            [s EXCEPT !.taken = upto,
                      !.values = Append(@, SubSeq(frames, s.taken + 1, upto))]
       [] OTHER -> [s EXCEPT !.rc = -1]

Brecv(frames, picture, cache_size) ==
  LET start == [rc |-> 0, needle |-> 0, taken |-> 1, values |-> <<>>,
                cache_used |-> 0, cache_size |-> cache_size,
                cache_block |-> cache_size, overrun |-> FALSE]
      after[k \in 0 .. Len(picture)] ==
        IF k = 0 THEN start ELSE BrecvElement(after[k - 1], picture[k], frames)
  IN after[Len(picture)]
=============================================================================
