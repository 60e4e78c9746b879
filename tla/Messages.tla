------------------------------ MODULE Messages ------------------------------
(* Messages objects (lists of frames with a running content size), and the  *)
(* socket they are sent and received over.                                  *)
EXTENDS Frames

CONSTANTS
  Slot,       \* the Messages objects of the program
  Content,    \* the frames it builds itself
  MaxFrames,  \* bound: frames in all the objects and on the way
  MaxBytes    \* bound: bytes of a frame that holds an encoded message

(* A frame is shorter than the sizes an int holds.                          *)
Small == {f \in Frame : Len(f) < Long \div 2}

MessageConstants == Content \subseteq Small /\ MaxBytes \in Nat /\ MaxBytes < Long \div 2

VARIABLES
  frames,       \* Messages::frames of every object
  contentsize,  \* Messages::contentsize of every object
  lost,         \* bytes of the frames that failed sends dropped from an object
  pipe,         \* messages sent and not yet received
  remaining     \* frames left of the message the receiving socket is reading

vars == <<frames, contentsize, lost, pipe, remaining>>

TypeOK ==
  /\ frames \in [Slot -> Seq(Frame)]
  /\ contentsize \in [Slot -> Int]
  /\ lost \in [Slot -> Nat]
  /\ pipe \in Seq(Seq(Frame)) /\ remaining \in Seq(Frame)

Init ==
  /\ frames = [m \in Slot |-> <<>>]
  /\ contentsize = [m \in Slot |-> 0]
  /\ lost = [m \in Slot |-> 0]
  /\ pipe = <<>> /\ remaining = <<>>

-----------------------------------------------------------------------------
(* The list operations of one object. An object that is cleared, and then   *)
(* filled, counts from zero again; the others add and subtract what they    *)
(* put in and take out.                                                     *)

Elsewhere == UNCHANGED <<pipe, remaining>>

Change(m, new, size) ==
  /\ frames' = [frames EXCEPT ![m] = new]
  /\ contentsize' = [contentsize EXCEPT ![m] = @ + size]
  /\ UNCHANGED lost

Refill(m, new) ==
  /\ frames' = [frames EXCEPT ![m] = new]
  /\ contentsize' = [contentsize EXCEPT ![m] = Total(new)]
  /\ lost' = [lost EXCEPT ![m] = 0]

Clear(m) == Refill(m, <<>>)

AppendFrame(m, f) == Change(m, Append(frames[m], f), Len(f))

PrependFrame(m, f) == Change(m, <<f>> \o frames[m], Len(f))

Wrap(m, f) == Change(m, <<f, <<>>>> \o frames[m], Len(f))

Pop(m) ==
  /\ frames[m] # <<>>
  /\ Change(m, Tail(frames[m]), -Len(Head(frames[m])))

(* unwrap() takes the address and, when one follows it, the empty frame.    *)
Unwrap(m) ==
  /\ frames[m] # <<>>
  /\ LET rest == Tail(frames[m])
         new  == IF rest # <<>> /\ Head(rest) = <<>> THEN Tail(rest) ELSE rest
     IN Change(m, new, -Len(Head(frames[m])))

(* remove(i) and removeAll(frame). remove() lets i = count() pass its test,  *)
(* which is beyond the list: callers are taken to stay below.               *)
TakeAt(m, i) ==
  /\ i \in DOMAIN frames[m]
  /\ Change(m, RemoveAt(frames[m], i), -Len(frames[m][i]))

(* operator= and the copy constructor. Assigned to itself an object has     *)
(* cleared what it was to copy.                                             *)
Assign(m, n) == Refill(m, IF m = n THEN <<>> ELSE frames[n])

-----------------------------------------------------------------------------
(* Messages inside messages.                                                *)

AppendMessages(m, n) ==
  LET data == Encode(frames[n])
  IN /\ frames[n] # <<>> /\ Len(data) <= MaxBytes
     /\ \A f \in ToSet(frames[n]) : f \in Content     \* bound: one level deep
     /\ Change(m, Append(frames[m], data), Len(data))

(* decode() adds to the frames that are there, and clears them too when it  *)
(* finds the buffer cut.                                                    *)
DecodeInto(m, buffer) ==
  LET d == Decode(buffer)
  IN \/ d.verdict = "ok" /\ Change(m, frames[m] \o d.frames, Total(d.frames))
     \/ d.verdict = "malformed" /\ Clear(m)

(* popmsg() of m gives n: nothing when the frame is empty or malformed.     *)
PopMessages(m, n) ==
  /\ m # n /\ frames[m] # <<>>
  /\ LET frame == Head(frames[m])
         d     == Decode(frame)
     IN /\ d.verdict # "undefined"
        /\ frames' = [frames EXCEPT ![m] = Tail(@), ![n] = d.frames]
        /\ contentsize' = [contentsize EXCEPT ![m] = @ - Len(frame),
                                              ![n] = Total(d.frames)]
        /\ lost' = [lost EXCEPT ![n] = 0]

-----------------------------------------------------------------------------
(* Files. save() writes a block for every frame, its size and its bytes; a  *)
(* block of size 0 ends load().                                             *)

Saved(list) == [i \in DOMAIN list |-> [size |-> Len(list[i]), bytes |-> list[i]]]

Loaded(blocks) ==
  LET full == SelectInSeq(blocks, LAMBDA b : b.size = 0)
      read == IF full = 0 THEN blocks ELSE SubSeq(blocks, 1, full - 1)
  IN [i \in DOMAIN read |-> read[i].bytes]

(* n is saved, and m loads the file.                                         *)
SaveAndLoad(n, m) == Refill(m, Loaded(Saved(frames[n])))

-----------------------------------------------------------------------------
(* Sockets. A message is on its way as soon as its last frame is sent.      *)

Incoming == IF remaining # <<>> THEN remaining
            ELSE IF pipe # <<>> THEN Head(pipe) ELSE <<>>

Took(k) ==
  /\ Incoming # <<>>
  /\ remaining' = SubSeq(Incoming, k + 1, Len(Incoming))
  /\ pipe' = IF remaining # <<>> THEN pipe ELSE Tail(pipe)

\* Mutation: the frames that are sent are still counted.
SendUncounted(m) ==
  /\ frames[m] # <<>>
  /\ Change(m, <<>>, 0)
  /\ pipe' = Append(pipe, frames[m])
  /\ UNCHANGED remaining

(* send() counts a frame out after it is sent.                              *)
Send(m) ==
  /\ frames[m] # <<>>
  /\ Change(m, <<>>, -Total(frames[m]))
  /\ pipe' = Append(pipe, frames[m])
  /\ UNCHANGED remaining

(* The socket refuses the first frame (nobody to send to, a timeout): the   *)
(* frame is off the list and its bytes are still counted.                   *)
SendFails(m) ==
  /\ frames[m] # <<>> /\ lost[m] = 0                  \* bound: one such frame
  /\ frames' = [frames EXCEPT ![m] = Tail(@)]
  /\ lost' = [lost EXCEPT ![m] = @ + Len(Head(frames[m]))]
  /\ UNCHANGED <<contentsize, pipe, remaining>>

Recv(m) == Refill(m, Incoming) /\ Took(Len(Incoming))

RecvInterrupted(m) == Clear(m) /\ Elsewhere

(* recvnowait() stops at the first frame: it keeps the frame when more      *)
(* follow and drops it when it was the only one.                            *)
RecvNowait(m) ==
  \/ Incoming = <<>> /\ Clear(m) /\ Elsewhere
  \/ /\ Took(1)
     /\ Refill(m, IF Len(Incoming) > 1 THEN SubSeq(Incoming, 1, 1) ELSE <<>>)

-----------------------------------------------------------------------------
FramesKept == MapThenSumSet(LAMBDA m : Len(frames[m]), Slot)
          + Len(FlattenSeq(pipe)) + Len(remaining)

Next ==
  /\ \E m \in Slot :
       \/ /\ Elsewhere
          /\ \/ Clear(m) \/ Pop(m) \/ Unwrap(m)
             \/ \E f \in Content : AppendFrame(m, f) \/ PrependFrame(m, f) \/ Wrap(m, f)
             \/ \E i \in DOMAIN frames[m] : TakeAt(m, i)
             \/ \E n \in Slot : 
                  \/ Assign(m, n) \/ AppendMessages(m, n)
                  \/ PopMessages(m, n) \/ SaveAndLoad(n, m)
             \/ \E n \in Slot : \E cut \in {0, 1} :     \* bound: a byte is missing
                  DecodeInto(m, SubSeq(Encode(frames[n]), 1, Len(Encode(frames[n])) - cut))
       \/ Send(m) \/ SendFails(m)
       \/ Recv(m) \/ RecvInterrupted(m) \/ RecvNowait(m)
  /\ FramesKept' <= MaxFrames

Spec == Init /\ [][Next]_vars

-----------------------------------------------------------------------------
(* contentSize() is the sum of the sizes of the frames in the list, through *)
(* every way of putting frames in and taking them out, plus the bytes that  *)
(* failed sends dropped without counting them out (Messages::send).         *)
ContentSizeExact ==
  \A m \in Slot : contentsize[m] = Total(frames[m]) + lost[m]

(* decode() gives back what encode() was given, at every form of the size;  *)
(* an encoding cut anywhere decodes to some of the first frames or is found *)
(* malformed, and never makes decode() read past its end. What load() reads *)
(* back begins what save() wrote, and is all of it when no frame is empty.   *)
CodecTotal ==
  \A m \in Slot :
    LET list == frames[m]
        data == Encode(list)
    IN /\ Decode(data) = [verdict |-> "ok", frames |-> list]
       /\ \A k \in 0 .. Len(data) :
            LET d == Decode(SubSeq(data, 1, k))
            IN \/ d.verdict = "ok" /\ IsPrefix(d.frames, list)
               \/ d.verdict = "malformed"
       /\ IsPrefix(Loaded(Saved(list)), list)
       /\ <<>> \notin ToSet(list) => Loaded(Saved(list)) = list
=============================================================================
