-------------------------------- MODULE Wire --------------------------------
(* Two sockets and the messages between them: one side sends with send,     *)
(* sendx, sendstr, sendmem, bsend, signal or as a GossipFrame, the other     *)
(* receives with any of recv, recvstr, brecv, wait, flush or a GossipFrame,  *)
(* whether it fits what was sent or not. It ends where brecv has written     *)
(* behind its string cache.                                                  *)
EXTENDS Pictures, GossipFrames

CONSTANTS
  Args,       \* what the program sends with send()
  BArgs,      \* what it sends with bsend()
  Gossips,    \* the gossip frames it sends
  Strings,    \* what it sends with sendstr() and sendmem()
  Statuses,   \* what it signals
  Leftovers,  \* bytes an allocator may leave
  CacheSize,  \* 512, the size of a new string cache
  MaxSent     \* bound: messages and single frames sent

(* What may be an element of a picture: NULL only where the code tests it,    *)
(* and an int as the number its bits make.                                   *)
Element(types, values) == [type : types, value : values, null : {FALSE}]
Nulls(types) == [type : types, value : {<<>>}, null : {TRUE}]
Pointers == {p \in Seq(Byte) : Len(p) = PointerSize}

Sendable ==
  Element({"i", "u"}, 0 .. Long - 1) \cup Element({"s", "b", "c", "f"}, Seq(Byte))
    \cup Element({"p"}, Pointers) \cup Element({"m"}, Seq(Seq(Byte))) \cup Element({"z"}, {<<>>})
    \cup Nulls({"s"})

Bsendable ==
  Element({"1", "2", "4"}, 0 .. Long - 1) \cup Element({"8"}, 0 .. Long * Long - 1)
    \cup Element({"s", "S", "c", "f"}, Seq(Byte)) \cup Element({"p"}, Pointers)
    \cup Element({"m"}, Seq(Seq(Byte))) \cup Nulls({"s", "S", "c", "m"})

(* The limit of brecv, 1024 * 1024, is far below what four bytes count, and  *)
(* so is a value of the gossip protocol.                                     *)
WireConstants ==
  /\ MessageId \subseteq Byte /\ Signature \in 0 .. Word - 1 /\ Identity \in Seq(Byte)
  /\ PointerSize \in Nat /\ MAX_ALLOC_SIZE \in 0 .. Long - 1
  /\ CacheSize \in Nat /\ MaxSent \in Nat
  /\ Args \subseteq Seq(Sendable) /\ BArgs \subseteq Seq(Bsendable)
  /\ Gossips \subseteq [id : Byte, routing : Seq(Byte), key : Seq(Byte),
                       value : {v \in Seq(Byte) : Len(v) < Long}, ttl : 0 .. Long - 1]
  /\ Strings \subseteq Seq(Byte) /\ Statuses \subseteq Nat /\ Leftovers \subseteq Byte

VARIABLES
  route,      \* where the sockets stand: none a ROUTER, the receiver, the sender
  pipe,       \* messages on their way: the frames and the call that sent them
  partial,    \* frames sent with ZMQ_SNDMORE, waiting for the rest
  remaining,  \* frames left of the message the receiver is reading
  reading,    \* the call that sent them
  got,        \* what the last receiving call returned
  gossip,     \* the GossipFrame the receiver uses
  cache_size, \* SocketPrivate::cache_size
  waiting,    \* wait() has discarded what it read and goes on
  overrun,    \* brecv has written behind the block of the cache
  sent        \* number of messages and frames sent

vars == <<route, pipe, partial, remaining, reading, got, gossip, cache_size, waiting,
          overrun, sent>>

Nothing == [api |-> "none", args |-> <<>>]
Pieces  == [api |-> "pieces", args |-> <<>>]

(* aligned: the call began at the first frame of a message.                  *)
NoResult == [api |-> "none", picture |-> <<>>, from |-> Nothing, aligned |-> TRUE,
             rc |-> 0, values |-> <<>>]

Init ==
  /\ route \in {"plain", "toRouter", "fromRouter"}
  /\ pipe = <<>> /\ partial = <<>> /\ remaining = <<>> /\ reading = Nothing
  /\ got = NoResult /\ gossip = NoGossip /\ cache_size = 0
  /\ waiting = FALSE /\ overrun = FALSE /\ sent = 0

(* A text, and the number that a signal carries, are one byte long here.     *)
SentFrame ==
  [form : {"bytes"}, body : Seq(Byte)]
    \cup [form : {"decimal", "lettered"}, body : [1 .. 1 -> Nat]]
    \cup [form : {"signal"}, body : [1 .. 1 -> Statuses]]

GossipType ==
  [id : Byte, routing : Seq(Nat), key : Seq(Byte), value : Seq(Byte), ttl : 0 .. Long - 1]

TypeOK ==
  /\ route \in {"plain", "toRouter", "fromRouter"}
  /\ \A i \in DOMAIN pipe : pipe[i].frames # <<>> /\ pipe[i].frames \in Seq(SentFrame)
  /\ {partial, remaining} \subseteq Seq(SentFrame)
  /\ got.rc \in {-1, 0} \cup Statuses /\ got.aligned \in BOOLEAN
  /\ gossip \in GossipType
  /\ cache_size \in Nat /\ waiting \in BOOLEAN /\ overrun \in BOOLEAN
  /\ ~overrun => cache_size \in {0, CacheSize}
  /\ sent \in 0 .. MaxSent

-----------------------------------------------------------------------------
(* A message that reaches a ROUTER has the identity of its sender in front;  *)
(* one that a ROUTER sends goes to the peer its first frame names, without   *)
(* that frame, and nowhere when there is no such peer.                       *)
Delivered(frames) ==
  CASE route = "plain" -> <<frames>>
    [] route = "toRouter" -> <<<<Bytes(Identity)>> \o frames>>
    [] route = "fromRouter" ->
         IF Head(frames) = Bytes(Identity) /\ Len(frames) > 1 THEN <<Tail(frames)>> ELSE <<>>

Receiver == <<remaining, reading, got, gossip, cache_size, waiting, overrun>>

Transmit(frames, call) ==
  /\ sent < MaxSent /\ sent' = sent + 1
  /\ partial' = <<>>
  /\ LET whole == Delivered(partial \o frames)
         from  == IF partial = <<>> THEN call ELSE Pieces
     IN pipe' = pipe \o [i \in DOMAIN whole |-> [frames |-> whole[i], from |-> from]]
  /\ UNCHANGED <<route, Receiver>>

(* One frame, the last of its message or not.                                *)
SendFrame(frame, more, call) ==
  IF more THEN /\ sent < MaxSent /\ sent' = sent + 1
               /\ partial' = Append(partial, frame)
               /\ UNCHANGED <<route, pipe, Receiver>>
  ELSE Transmit(<<frame>>, call)

Call(api, args) == [api |-> api, args |-> args]

(* Messages::send() of no frames sends nothing.                              *)
Send(args) ==
  /\ PictureFrames(args) # <<>>
  /\ Transmit(PictureFrames(args), Call("send", args))

Strings2Args(strings) == [i \in DOMAIN strings |-> [type |-> "s", value |-> strings[i], null |-> FALSE]]

Sendx(strings) == Send(Strings2Args(strings))

SendStr(string, more) == SendFrame(Bytes(string), more, Call("sendstr", <<string>>))

(* sendmem() passes its own flags to zmq_msg_send, where QFRAME_REUSE has    *)
(* the value of ZMQ_SNDMORE and QFRAME_MORE that of ZMQ_DONTWAIT.            *)
SendMem(data, flags) ==
  SendFrame(Bytes(data), "QFRAME_REUSE" \in flags, Call("sendmem", <<data>>))

Bsend(args) ==
  \E byte \in Leftovers :       \* bound: the same byte in all places
    Transmit(<<DataFrame(args, [i \in 1 .. Unwritten(args) |-> byte])>> \o ExtraFrames(args),
             Call("bsend", args))

(* zmq refuses a frame only before a message has begun, when the call is      *)
(* interrupted while it waits for room. send() gives up at the first frame,   *)
(* bsend() goes on: of its frames, the last ones make a message of their own. *)
BsendInterrupted(args) ==
  /\ partial = <<>>
  /\ \E lost \in DOMAIN ExtraFrames(args) :
       Transmit(Rest(ExtraFrames(args), lost - 1), Pieces)

SendGossip(g) ==
  LET frames == GossipSend(g, route = "fromRouter")
  IN Transmit([i \in DOMAIN frames |-> Bytes(frames[i])], Call("gossip", <<g>>))

Signal(status) == Transmit(<<[form |-> "signal", body |-> <<status>>]>>, Call("signal", <<status>>))

-----------------------------------------------------------------------------
Incoming == IF remaining # <<>> THEN remaining ELSE Head(pipe).frames

Origin == IF remaining # <<>> THEN reading ELSE Head(pipe).from

(* A receiving call takes k frames of what is there, and returns.            *)
Take(k, api, picture, rc, values) ==
  /\ remaining' = Rest(Incoming, k)
  /\ reading' = IF k < Len(Incoming) THEN Origin ELSE Nothing
  /\ pipe' = IF remaining # <<>> THEN pipe ELSE Tail(pipe)
  /\ got' = [api |-> api, picture |-> picture, from |-> Origin,
             aligned |-> remaining = <<>>, rc |-> rc, values |-> values]
  /\ UNCHANGED <<route, partial, sent>>

Ready == remaining # <<>> \/ pipe # <<>>

Recv(picture) ==
  /\ Ready /\ ~waiting
  /\ Take(Len(Incoming), "recv", picture,
          PictureStatus(Incoming, picture), PictureValues(Incoming, picture))
  /\ UNCHANGED <<gossip, cache_size, waiting, overrun>>

RecvStr ==
  /\ Ready /\ ~waiting
  /\ Take(1, "recvstr", <<>>, 0, <<SubSeq(Incoming, 1, 1)>>)
  /\ UNCHANGED <<gossip, cache_size, waiting, overrun>>

(* A socket gets its cache at the first brecv().                             *)
BrecvMessage(picture) ==
  /\ Ready /\ ~waiting
  /\ LET r == Brecv(Incoming, picture, IF cache_size = 0 THEN CacheSize ELSE cache_size)
     IN /\ Take(r.taken, "brecv", picture, r.rc, r.values)
        /\ cache_size' = r.cache_size /\ overrun' = r.overrun
  /\ UNCHANGED <<gossip, waiting>>

RecvGossip ==
  /\ Ready /\ ~waiting
  /\ LET bodies == [i \in DOMAIN Incoming |-> Incoming[i].body]
         r == GossipRecv(gossip, bodies, route = "toRouter")
     IN /\ Take(r.taken, "gossip", <<>>, IF r.ok THEN 0 ELSE -1, <<>>)
        /\ gossip' = r.g
  /\ UNCHANGED <<cache_size, waiting, overrun>>

(* wait() reads whole messages until one is a signal.                        *)
IsSignal(frames) == Len(frames) = 1 /\ frames[1].form = "signal"

Wait ==
  /\ Ready
  /\ waiting' = ~IsSignal(Incoming)
  /\ Take(Len(Incoming), "wait", <<>>,
          IF IsSignal(Incoming) THEN Incoming[1].body[1] ELSE 0, <<>>)
  /\ UNCHANGED <<gossip, cache_size, overrun>>

Flush ==
  /\ remaining # <<>> /\ ~waiting
  /\ Take(Len(Incoming), "flush", <<>>, 0, <<>>)
  /\ UNCHANGED <<gossip, cache_size, waiting, overrun>>

-----------------------------------------------------------------------------
PictureOf(args) == [i \in DOMAIN args |-> args[i].type]

SendSide ==
  \/ \E args \in Args : Send(args)
  \/ \E args \in BArgs : Bsend(args) \/ BsendInterrupted(args)
  \/ \E string \in Strings : Sendx(<<string, string>>)
  \/ \E string \in Strings, more \in BOOLEAN : SendStr(string, more)
  \/ \E data \in Strings, flags \in SUBSET {"QFRAME_MORE", "QFRAME_REUSE", "QFRAME_DONTWAIT"} :
       SendMem(data, flags)
  \/ \E g \in Gossips : SendGossip(SetKey(g, g.key))
  \/ \E status \in Statuses : Signal(status)

ReceiveSide ==
  \/ \E args \in Args : Recv(PictureOf(args))
  \/ \E args \in BArgs : BrecvMessage(PictureOf(args))
  \/ RecvStr \/ RecvGossip \/ Wait \/ Flush

Next == ~overrun /\ (SendSide \/ ReceiveSide)

Spec == Init /\ [][Next]_vars

-----------------------------------------------------------------------------
LastOnly(args) == \A i \in 1 .. Len(args) - 1 : args[i].type # "m"

(* What send() and recv() carry faithfully: all but 'u', and 'm' at the end. *)
SendCarries(args) == LastOnly(args) /\ \A i \in DOMAIN args : args[i].type # "u"

(* The strings of 's' in the cache, each with its terminator.               *)
CacheOf(e) == IF e.type = "s" THEN Append(e.value, 0) ELSE <<>>

CacheNeeded(args) == Len(FlattenSeq([i \in DOMAIN args |-> CacheOf(args[i])]))

(* What bsend() and brecv() carry faithfully: numbers of one and two bytes   *)
(* that fit, strings that one byte counts and that all fit into a new cache,  *)
(* strings and chunks below the limit, no NULL chunk, no message of no frame. *)
BsendCarries(args) ==
  /\ LastOnly(args)
  /\ CacheNeeded(args) <= CacheSize
  /\ \A i \in DOMAIN args :
       LET e == args[i]
       IN /\ e.type = "1" => e.value \in Byte
          /\ e.type = "2" => e.value < Word
          /\ e.type = "s" => Len(e.value) < Base
          /\ e.type \in {"S", "c"} => Len(e.value) <= MAX_ALLOC_SIZE
          /\ e.type = "c" => ~e.null
          /\ e.type = "m" => e.null \/ e.value # <<>>

Expected(e) ==
  CASE e.type \in {"i", "1", "2", "4", "8"} -> <<Decimal(e.value)>>
    [] e.type = "z" -> <<Unset>>
    [] e.type = "m" -> IF e.null THEN <<Empty>> ELSE [k \in DOMAIN e.value |-> Bytes(e.value[k])]
    [] OTHER -> <<Bytes(e.value)>>

(* What receiving a gossip frame g leaves: an id of no message is refused,   *)
(* and over a ROUTER the routing id is that of the sender.                    *)
GossipArrives(g) ==
  /\ got.rc = IF g.id \in MessageId THEN 0 ELSE -1
  /\ gossip.id = g.id /\ remaining = <<>>
  /\ g.id = PUBLISH => <<gossip.key, gossip.value, gossip.ttl>> = <<g.key, g.value, g.ttl>>
  /\ route = "toRouter" => gossip.routing = Identity

(* The calls that read a message to its end, wherever in it they began.     *)
ReadsAll ==
  \/ got.api \in {"recv", "wait", "flush"}
  \/ got.api = "brecv" /\ got.rc = 0 /\ got.picture # <<>> /\ got.picture[Len(got.picture)] = "m"

(* A message received with the picture it was sent with gives back what was  *)
(* put in, leaves nothing behind and writes nothing behind the cache, as the  *)
(* table of socket.h promises, for every kind of element but those the code   *)
(* does not carry; a gossip frame, and the status of a signal, are received  *)
(* as they were sent. What a call that failed has left of a message is gone   *)
(* after the next that reads to the end, so that a new message begins there.  *)
ReceivedAsSent ==
  LET args  == got.from.args
      calls == <<got.from.api, got.api>>
  IN /\ route = "plain" /\ got.aligned /\ ~waiting =>
          /\ \/ calls = <<"send", "recv">> /\ got.picture = PictureOf(args) /\ SendCarries(args)
             \/ calls = <<"bsend", "brecv">> /\ got.picture = PictureOf(args) /\ BsendCarries(args)
             => /\ got.rc = 0 /\ ~overrun
                /\ got.values = [i \in DOMAIN args |-> Expected(args[i])]
                /\ remaining = <<>>
          /\ calls = <<"signal", "wait">> => got.rc = args[1]
     /\ got.aligned /\ calls = <<"gossip", "gossip">> => GossipArrives(args[1])
     /\ ReadsAll => remaining = <<>>
=============================================================================
