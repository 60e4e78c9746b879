---------------------------- MODULE ProcessesProofs ----------------------------
(* The parts that run on their own. The relay actors, for any types of        *)
(* sockets, any window of numbers and any number of messages and commands      *)
(* that wait: frames are relayed in order and whole but for failed sends, and  *)
(* an actor that is paused is silent. A context, for any threads, sockets and  *)
(* limits: its list and its count are true. The beacon, for any data, filters  *)
(* and intervals, and the worker, for any liveness and times.                  *)
EXTENDS MCProcesses, ListsProofs, SequenceTheorems, WellFoundedInduction, TLAPS

-----------------------------------------------------------------------------
(* Positions go round a ring of two parts for each number.                  *)

Ring == 2 * Numbers

LEMMA RingType == Ring \in Nat /\ Ring > 2 /\ Numbers \in Nat
  BY RelayAssumption DEF Ring

(* Less than three times round, the remainder is found by subtraction.      *)
LEMMA Remainder ==
  ASSUME NEW m \in Nat, m > 0, NEW x \in Nat, x < 3 * m
  PROVE  x % m = IF x < m THEN x ELSE IF x < 2 * m THEN x - m ELSE x - 2 * m
  <1>1. x \div m \in Nat /\ x % m \in 0 .. m - 1 /\ x = m * (x \div m) + (x % m)
    OBVIOUS
  <1> DEFINE q == x \div m
  <1>2. q \in {0, 1, 2}
    <2> SUFFICES ASSUME q >= 3 PROVE FALSE
      BY <1>1
    <2>1. m * q >= m * 3
      BY <1>1
    <2> QED BY <1>1, <2>1
  <1>3. m * q = IF q = 0 THEN 0 ELSE IF q = 1 THEN m ELSE 2 * m
    BY <1>2
  <1> HIDE DEF q
  <1>4. x = m * q + (x % m) /\ x % m \in 0 .. m - 1
    BY <1>1 DEF q
  <1> QED BY <1>2, <1>3, <1>4

(* The two parts of a message.                                              *)
First(n)  == [number |-> n, part |-> 1, more |-> TRUE]
Second(n) == [number |-> n, part |-> 2, more |-> FALSE]

LEMMA PartsOf ==
  \A n : Parts(n) = <<First(n), Second(n)>> /\ Parts(n)[1] = First(n) /\ Parts(n)[2] = Second(n)
  BY DEF Parts, First, Second

LEMMA FrameIs ==
  \A f : f \in Frames <=> \E n \in 0 .. Numbers - 1 : f = First(n) \/ f = Second(n)
  <1>1. \A n : ToSet(Parts(n)) = {First(n), Second(n)}
    BY PartsOf DEF ToSet
  <1> QED BY <1>1 DEF Frames

LEMMA FrameType ==
  ASSUME NEW f \in Frames
  PROVE  /\ f.number \in 0 .. Numbers - 1 /\ f.part \in {1, 2}
         /\ Position(f) \in 1 .. Ring
         /\ f.part = 1 => f = First(f.number) /\ f.more /\ Position(f) = 2 * f.number + 1
         /\ f.part = 2 => f = Second(f.number) /\ ~f.more /\ Position(f) = 2 * f.number + 2
         /\ f # Delimiter
  <1>1. PICK n \in 0 .. Numbers - 1 : f = First(n) \/ f = Second(n)
    BY FrameIs
  <1>2. CASE f = First(n)
    BY <1>2, RingType DEF First, Position, Ring, Delimiter
  <1>3. CASE f = Second(n)
    BY <1>3, RingType DEF Second, Position, Ring, Delimiter
  <1> QED BY <1>1, <1>2, <1>3

(* What comes after a frame, with nothing skipped.                          *)
LEMMA FollowsFirst ==
  ASSUME NEW f \in Frames, NEW g \in Frames, Follows(g, f, 0)
  PROVE  /\ f.part = 1 => g = Second(f.number)
         /\ g.part = 2 => f = First(g.number)
  <1>1. /\ Position(f) \in 1 .. Ring /\ Position(g) \in 1 .. Ring
        /\ Position(g) % Ring = (Position(f) + 1) % Ring
    BY FrameType DEF Follows, Ring
  <1>2. /\ Position(g) % Ring = IF Position(g) < Ring THEN Position(g) ELSE 0
        /\ (Position(f) + 1) % Ring = IF Position(f) + 1 < Ring THEN Position(f) + 1
                                      ELSE Position(f) + 1 - Ring
    BY <1>1, RingType, Remainder
  <1>3. Position(g) = Position(f) + 1 \/ Position(g) = Position(f) + 1 - Ring
    BY <1>1, <1>2, RingType
  <1>4. /\ f.number \in 0 .. Numbers - 1 /\ f.part \in {1, 2}
        /\ g.number \in 0 .. Numbers - 1 /\ g.part \in {1, 2}
        /\ Ring = 2 * Numbers /\ Numbers \in Nat
    BY FrameType, RingType DEF Ring
  <1>5. CASE f.part = 1
    <2>1. Position(f) = 2 * f.number + 1
      BY <1>5, FrameType
    <2>2. g.part # 1
      <3>1. SUFFICES ASSUME g.part = 1 PROVE FALSE
        OBVIOUS
      <3>2. Position(g) = 2 * g.number + 1
        BY <3>1, FrameType
      <3> QED BY <1>3, <1>4, <2>1, <3>2
    <2>3. g.part = 2 /\ Position(g) = 2 * g.number + 2 /\ g = Second(g.number)
      BY <1>4, <2>2, FrameType
    <2>4. g.number = f.number
      <3> DEFINE m == f.number  n == g.number
      <3>1. /\ m \in 0 .. Numbers - 1 /\ n \in 0 .. Numbers - 1
            /\ 2 * n + 2 = 2 * m + 2 \/ 2 * n + 2 = 2 * m + 2 - 2 * Numbers
        BY <1>3, <1>4, <2>1, <2>3
      <3> HIDE DEF m, n
      <3>2. n = m
        BY <1>4, <3>1
      <3> QED BY <3>2 DEF m, n
    <2> QED BY <1>5, <2>3, <2>4, FrameType
  <1>6. CASE f.part = 2
    <2>1. Position(f) = 2 * f.number + 2
      BY <1>6, FrameType
    <2>2. g.part # 2
      <3>1. SUFFICES ASSUME g.part = 2 PROVE FALSE
        OBVIOUS
      <3>2. Position(g) = 2 * g.number + 2
        BY <3>1, FrameType
      <3> QED BY <1>3, <1>4, <2>1, <3>2
    <2> QED BY <1>6, <2>2
  <1> QED BY <1>4, <1>5, <1>6

(* The second part follows the first, and the first of the next message the *)
(* second.                                                                  *)
LEMMA FollowsInMessage ==
  ASSUME NEW n \in 0 .. Numbers - 1
  PROVE  /\ Follows(Second(n), First(n), 0)
         /\ (n + 1) % Numbers \in 0 .. Numbers - 1
         /\ Follows(First((n + 1) % Numbers), Second(n), 0)
  <1>1. Position(First(n)) = 2 * n + 1 /\ Position(Second(n)) = 2 * n + 2
    BY DEF First, Second, Position
  <1>2. Follows(Second(n), First(n), 0)
    <2>1. Position(Second(n)) = Position(First(n)) + 1 + 0
      BY <1>1
    <2> QED BY <2>1 DEF Follows
  <1>3. (n + 1) % Numbers = IF n + 1 < Numbers THEN n + 1 ELSE 0
    BY RelayAssumption, Remainder
  <1> DEFINE m == (n + 1) % Numbers
  <1>4. Position(First(m)) = 2 * m + 1
    BY DEF First, Position
  <1> HIDE DEF m
  <1>5. Follows(First(m), Second(n), 0)
    <2>1. CASE n + 1 < Numbers
      <3>1. m = n + 1
        BY <1>3, <2>1 DEF m
      <3>2. Position(First(m)) = Position(Second(n)) + 1 + 0
        BY <1>1, <1>4, <3>1
      <3> QED BY <3>2 DEF Follows
    <2>2. CASE ~(n + 1 < Numbers)
      <3>1. m = 0 /\ 2 * n + 2 = Ring
        BY <1>3, <2>2, RelayAssumption DEF m, Ring
      <3>2. Position(First(m)) = 1 /\ Position(Second(n)) + 1 + 0 = Ring + 1
        BY <1>1, <1>4, <3>1
      <3>3. (Ring + 1) % Ring = 1 /\ 1 % Ring = 1
        BY RingType, Remainder
      <3> QED BY <3>2, <3>3 DEF Follows, Ring
    <2> QED BY <2>1, <2>2
  <1>6. m \in 0 .. Numbers - 1
    BY <1>3, RelayAssumption DEF m
  <1> QED BY <1>2, <1>5, <1>6 DEF m

(* One more is skipped.                                                     *)
LEMMA FollowsSkipping ==
  ASSUME NEW f \in Frames, NEW g \in Frames, NEW h \in Frames, NEW k \in 0 .. Ring - 1,
         Follows(g, f, k), Follows(h, g, 0)
  PROVE  Follows(h, f, (k + 1) % Ring) /\ (k + 1) % Ring \in 0 .. Ring - 1
  <1>1. /\ Position(f) \in 1 .. Ring /\ Position(g) \in 1 .. Ring /\ Position(h) \in 1 .. Ring
        /\ Position(g) % Ring = (Position(f) + 1 + k) % Ring
        /\ Position(h) % Ring = (Position(g) + 1) % Ring
    BY FrameType, RingType DEF Follows, Ring
  <1> DEFINE R == Ring  F == Position(f)  G == Position(g)  H == Position(h)  K == (k + 1) % R
  <1>2. R \in Nat /\ R > 2
    BY RingType
  <1>3. K = IF k + 1 < R THEN k + 1 ELSE 0
    BY <1>2, Remainder
  <1> HIDE DEF K
  <1>4. K \in 0 .. R - 1 /\ k \in 0 .. R - 1 /\ F \in 1 .. R /\ G \in 1 .. R
    BY <1>1, <1>2, <1>3
  <1>6. G % R = IF G < R THEN G ELSE 0
    BY <1>2, <1>4, Remainder
  <1>7. (G + 1) % R = IF G + 1 < R THEN G + 1 ELSE G + 1 - R
    BY <1>2, <1>4, Remainder
  <1>8. \A x \in Nat : x < 3 * R =>
          x % R = IF x < R THEN x ELSE IF x < 2 * R THEN x - R ELSE x - 2 * R
    BY <1>2, Remainder
  <1>9. G % R = (F + 1 + k) % R
    BY <1>1
  <1> HIDE DEF R, F, G, H
  <1>5. (G + 1) % R = (F + 1 + K) % R
    <2>1. /\ F + 1 + K \in Nat /\ F + 1 + K < 3 * R
          /\ F + 1 + k \in Nat /\ F + 1 + k < 3 * R
      BY <1>2, <1>4
    <2> QED BY <1>2, <1>3, <1>4, <1>6, <1>7, <1>8, <1>9, <2>1
  <1> QED BY <1>1, <1>4, <1>5 DEF Follows, Ring, K, R, F, G, H

-----------------------------------------------------------------------------
(* The poller's list.                                                       *)

Watched == Side \cup {"pipe"}
PollerType == [list : Seq(Watched), expired : BOOLEAN, terminated : BOOLEAN]

LEMMA AppendType ==
  ASSUME NEW p \in PollerType, IsInjective(p.list), NEW s \in Watched \cup {NULL}
  PROVE  /\ PollerAppend(p, s) \in PollerType /\ IsInjective(PollerAppend(p, s).list)
         /\ ToSet(PollerAppend(p, s).list) \subseteq ToSet(p.list) \cup {s}
  <1> DEFINE q == [p EXCEPT !.list = Append(@, s)]
  <1>1. CASE s = NULL \/ s \in ToSet(p.list)
    BY <1>1 DEF PollerAppend
  <1>2. CASE ~(s = NULL \/ s \in ToSet(p.list))
    <2>1. PollerAppend(p, s) = q /\ s \in Watched
      BY <1>2 DEF PollerAppend
    <2>2. p.list \in Seq(Watched) /\ q.list = Append(p.list, s) /\ q \in PollerType
      BY <2>1 DEF PollerType
    <2>3. /\ DOMAIN p.list = 1 .. Len(p.list) /\ Len(p.list) \in Nat
          /\ DOMAIN q.list = 1 .. Len(p.list) + 1
          /\ q.list[Len(p.list) + 1] = s
          /\ \A i \in 1 .. Len(p.list) : q.list[i] = p.list[i]
      BY <2>1, <2>2
    <2>4. \A i \in 1 .. Len(p.list) : p.list[i] # s
      BY <1>2, <2>3 DEF ToSet
    <2>5. IsInjective(q.list)
      BY <2>3, <2>4 DEF IsInjective
    <2>6. ToSet(q.list) \subseteq ToSet(p.list) \cup {s}
      BY <2>3 DEF ToSet
    <2> QED BY <2>1, <2>2, <2>5, <2>6
  <1> QED BY <1>1, <1>2

(* Every non-empty set of places has a first.                               *)
LEMMA LeastPlace ==
  ASSUME NEW S \in SUBSET Nat, S # {}
  PROVE  Min(S) \in S
  BY LeastOf DEF Min

LEMMA FirstReadyIs ==
  ASSUME NEW p \in PollerType, NEW R, R \cap ToSet(p.list) # {}
  PROVE  FirstReady(p, R) \in R \cap ToSet(p.list)
  <1> DEFINE I == {i \in 1 .. Len(p.list) : p.list[i] \in R}
  <1>1. p.list \in Seq(Watched) /\ DOMAIN p.list = 1 .. Len(p.list)
    BY DEF PollerType
  <1>2. I # {} /\ I \in SUBSET Nat
    BY <1>1 DEF ToSet
  <1>3. FirstReady(p, R) = p.list[Min(I)]
    BY <1>2 DEF FirstReady, SelectInSeq
  <1>4. Min(I) \in I
    BY <1>2, LeastPlace
  <1> QED BY <1>1, <1>3, <1>4 DEF ToSet

LEMMA RemoveType ==
  ASSUME NEW p \in PollerType, IsInjective(p.list), NEW s
  PROVE  PollerRemove(p, s) \in PollerType /\ IsInjective(PollerRemove(p, s).list)
  <1> DEFINE l == p.list
             q == RemoveFirst(l, s)
  <1>1. l \in Seq(Watched) /\ DOMAIN l = 1 .. Len(l) /\ Len(l) \in Nat
    BY DEF PollerType
  <1>2. PollerRemove(p, s) = [p EXCEPT !.list = q]
    BY DEF PollerRemove
  <1>3. q \in Seq(Watched) /\ IsInjective(q)
    <2>1. CASE ~\E i \in 1 .. Len(l) : l[i] = s
      BY <1>1, <2>1 DEF RemoveFirst
    <2>2. CASE \E i \in 1 .. Len(l) : l[i] = s
      <3> DEFINE I == {i \in 1 .. Len(l) : l[i] = s}
                 k == Min(I)
      <3>1. I # {} /\ I \in SUBSET Nat
        BY <1>1, <2>2
      <3>2. k \in 1 .. Len(l)
        BY <3>1, LeastPlace
      <3>3. q = SubSeq(l, 1, k - 1) \o SubSeq(l, k + 1, Len(l))
        BY <2>2, <3>1 DEF RemoveFirst, RemoveAt, SelectInSeq
      <3> HIDE DEF l, I, k, q
      <3>4. /\ SubSeq(l, 1, k - 1) \in Seq(Watched) /\ Len(SubSeq(l, 1, k - 1)) = k - 1
            /\ \A i \in 1 .. k - 1 : SubSeq(l, 1, k - 1)[i] = l[i]
        BY <1>1, <3>2
      <3>5. /\ SubSeq(l, k + 1, Len(l)) \in Seq(Watched)
            /\ Len(SubSeq(l, k + 1, Len(l))) = Len(l) - k
            /\ \A i \in 1 .. Len(l) - k : SubSeq(l, k + 1, Len(l))[i] = l[k + i]
        <4>1. k + 1 \in 1 .. Len(l) + 1 /\ Len(l) \in (k + 1) - 1 .. Len(l)
          BY <1>1, <3>2
        <4>2. /\ SubSeq(l, k + 1, Len(l)) \in Seq(Watched)
              /\ Len(SubSeq(l, k + 1, Len(l))) = Len(l) - (k + 1) + 1
              /\ \A i \in 1 .. Len(l) - (k + 1) + 1 : SubSeq(l, k + 1, Len(l))[i] = l[(k + 1) + i - 1]
          BY <1>1, <4>1, SubSeqProperties
        <4>3. Len(l) - (k + 1) + 1 = Len(l) - k
          BY <1>1, <3>2
        <4>4. \A i \in 1 .. Len(l) - k : SubSeq(l, k + 1, Len(l))[i] = l[k + i]
          <5> SUFFICES ASSUME NEW i \in 1 .. Len(l) - k
              PROVE SubSeq(l, k + 1, Len(l))[i] = l[k + i]
            OBVIOUS
          <5>1. SubSeq(l, k + 1, Len(l))[i] = l[(k + 1) + i - 1]
            BY <4>2, <4>3
          <5>2. (k + 1) + i - 1 = k + i
            BY <1>1, <3>2
          <5> QED BY <5>1, <5>2
        <4> QED BY <4>2, <4>3, <4>4
      <3>6. /\ q \in Seq(Watched) /\ Len(q) = (k - 1) + (Len(l) - k)
            /\ \A i \in 1 .. (k - 1) + (Len(l) - k) :
                 q[i] = IF i <= k - 1 THEN SubSeq(l, 1, k - 1)[i]
                        ELSE SubSeq(l, k + 1, Len(l))[i - (k - 1)]
        BY <3>3, <3>4, <3>5, ConcatProperties
      <3>7. /\ DOMAIN q = 1 .. Len(l) - 1
            /\ \A i \in 1 .. Len(l) - 1 : q[i] = IF i < k THEN l[i] ELSE l[i + 1]
        <4>1. Len(q) = Len(l) - 1 /\ DOMAIN q = 1 .. Len(l) - 1
          BY <1>1, <3>2, <3>6
        <4>2. ASSUME NEW i \in 1 .. Len(l) - 1 PROVE q[i] = IF i < k THEN l[i] ELSE l[i + 1]
          <5>1. CASE i < k
            BY <1>1, <3>2, <3>4, <3>6, <5>1
          <5>2. CASE ~(i < k)
            <6>1. /\ i - (k - 1) \in 1 .. Len(l) - k /\ k + (i - (k - 1)) = i + 1
                  /\ i \in 1 .. (k - 1) + (Len(l) - k) /\ ~(i <= k - 1)
              BY <1>1, <3>2, <5>2
            <6>2. q[i] = SubSeq(l, k + 1, Len(l))[i - (k - 1)]
              BY <3>6, <6>1
            <6> QED BY <3>5, <5>2, <6>1, <6>2
          <5> QED BY <5>1, <5>2
        <4> QED BY <4>1, <4>2
      <3>8. IsInjective(l)
        BY DEF l
      <3>9. \A i, j \in 1 .. Len(l) - 1 : q[i] = q[j] => i = j
        <4>1. SUFFICES ASSUME NEW i \in 1 .. Len(l) - 1, NEW j \in 1 .. Len(l) - 1, q[i] = q[j]
                       PROVE  i = j
          OBVIOUS
        <4> DEFINE a == IF i < k THEN i ELSE i + 1
                   b == IF j < k THEN j ELSE j + 1
        <4>2. a \in 1 .. Len(l) /\ b \in 1 .. Len(l) /\ (a = b => i = j)
          BY <1>1, <3>2
        <4>3. q[i] = l[a] /\ q[j] = l[b]
          BY <3>7
        <4> HIDE DEF a, b, l, q
        <4>4. \A x, y \in DOMAIN l : l[x] = l[y] => x = y
          BY <3>8, Zenon DEF IsInjective
        <4>5. DOMAIN l = 1 .. Len(l)
          BY <1>1
        <4>6. a = b
          BY <4>1, <4>2, <4>3, <4>4, <4>5, Zenon
        <4> QED BY <4>2, <4>6
      <3> QED BY <3>6, <3>7, <3>9 DEF IsInjective
    <2> QED BY <2>1, <2>2
  <1> HIDE DEF q
  <1>4. [p EXCEPT !.list = q] \in PollerType /\ [p EXCEPT !.list = q].list = q
    BY <1>3 DEF PollerType
  <1> QED BY <1>2, <1>3, <1>4

LEMMA ClearType ==
  ASSUME NEW p
  PROVE  /\ PollerClear(p) \in PollerType /\ IsInjective(PollerClear(p).list)
         /\ ToSet(PollerClear(p).list) = {}
  BY DEF PollerClear, PollerType, IsInjective, ToSet

-----------------------------------------------------------------------------
(* The inductive invariant.                                                 *)

Opposite(s) == IF s = "frontend" THEN "backend" ELSE "frontend"

Relaying == {"read", "copy", "send"}

(* Commands on their way, and acknowledgements.                             *)
Counted ==
  /\ pipe + Len(acks) <= pending
  /\ stage = "pipe" => pipe > 0

(* A frame is in hand between its read and its send; s_switch is called with *)
(* something to read.                                                        *)
InHand ==
  /\ held # <<>> <=> stage \in {"copy", "send"}
  /\ stage = "delimit" => inbox[input] # <<>> /\ type[Opposite(input)] = "DEALER"

(* A message is begun at the output only, while s_switch runs and has the    *)
(* rest of it to come, and at a socket that can send. The delimiter is first. *)
Begun ==
  \A s \in Side :
    /\ \A i \in DOMAIN building[s] : i > 1 => building[s][i] # Delimiter
    /\ building[s] # <<>> =>
         /\ s = Opposite(input) /\ stage \in Relaying /\ type[s] # "SUB"
         /\ stage = "read" => inbox[input] # <<>>

(* After the first part of a message its second is on its way.              *)
Halfway ==
  \A s \in Side : sent[s].part = 1 =>
    /\ input = s /\ stage \in Relaying /\ lost[s] = 0
    /\ building[Opposite(s)] # <<>> /\ Last(building[Opposite(s)]) = sent[s]

(* The next frame to be read from a side.                                   *)
NextIn(s) == IF inbox[s] = <<>> THEN First(arrived[s]) ELSE inbox[s][1]

Holding(s) == input = s /\ held # <<>>

(* What was sent, is in hand, waits and arrives is one sequence.            *)
Ordered ==
  \A s \in Side :
    /\ \A i \in 1 .. Len(inbox[s]) - 1 : Follows(inbox[s][i + 1], inbox[s][i], 0)
    /\ inbox[s] # <<>> => Follows(First(arrived[s]), inbox[s][Len(inbox[s])], 0)
    /\ Holding(s) => Follows(NextIn(s), held[1], 0) /\ Follows(held[1], sent[s], lost[s])
    /\ ~Holding(s) => Follows(NextIn(s), sent[s], lost[s])

(* The handler that acknowledged PAUSE last watches the pipe alone.         *)
Quiet == ToSet(poller.list) \subseteq {"pipe"} /\ stage \in {"poll", "pipe", "ended", "aborted"}

Silenced ==
  /\ acks # <<>> /\ acks[Len(acks)] = "PAUSE" => Quiet
  /\ paused => Quiet /\ pending = 0

RelayInv == TypeOK /\ Counted /\ InHand /\ Begun /\ Halfway /\ Ordered /\ Silenced

-----------------------------------------------------------------------------
LEMMA Opposites ==
  /\ Output = Opposite(input)
  /\ \A s \in Side : Opposite(s) \in Side /\ Opposite(s) # s /\ Opposite(Opposite(s)) = s
  /\ \A s, t \in Side : s # t => s = Opposite(t)
  BY DEF Output, Opposite, Side

LEMMA StreamType ==
  ASSUME TypeOK, NEW s \in Side
  PROVE  /\ inbox[s] \in Seq(Frames) /\ Len(inbox[s]) \in Nat /\ DOMAIN inbox[s] = 1 .. Len(inbox[s])
         /\ building[s] \in Seq(Frames \cup {Delimiter})
         /\ arrived[s] \in 0 .. Numbers - 1 /\ First(arrived[s]) \in Frames
         /\ sent[s] \in Frames /\ lost[s] \in 0 .. Ring - 1 /\ NextIn(s) \in Frames
         /\ held # <<>> => held = <<held[1]>> /\ held[1] \in Frames
  <1>1. /\ inbox[s] \in Seq(Frames) /\ building[s] \in Seq(Frames \cup {Delimiter})
        /\ arrived[s] \in 0 .. Numbers - 1 /\ sent[s] \in Frames /\ lost[s] \in 0 .. Ring - 1
        /\ held # <<>> => held = <<held[1]>> /\ held[1] \in Frames
    BY DEF TypeOK, Ring
  <1>2. First(arrived[s]) \in Frames
    BY <1>1, FrameIs
  <1>3. Len(inbox[s]) \in Nat /\ DOMAIN inbox[s] = 1 .. Len(inbox[s])
    BY <1>1
  <1>4. NextIn(s) \in Frames
    BY <1>1, <1>2, <1>3 DEF NextIn
  <1> QED BY <1>1, <1>2, <1>3, <1>4

LEMMA Initially == Init => RelayInv
  <1> SUFFICES ASSUME Init PROVE RelayInv
    OBVIOUS
  <1>1. NewPoller \in PollerType /\ IsInjective(NewPoller.list) /\ "pipe" \in Watched
    BY DEF NewPoller, PollerType, IsInjective, Watched
  <1>2. poller \in PollerType /\ IsInjective(poller.list)
    BY <1>1, AppendType DEF Init
  <1>3. Numbers - 1 \in 0 .. Numbers - 1 /\ 0 \in 0 .. Numbers - 1 /\ Numbers - 1 + 1 = Numbers
    BY RingType, RelayAssumption
  <1>4. Second(Numbers - 1) \in Frames /\ Parts(Numbers - 1)[2] = Second(Numbers - 1)
    BY <1>3, FrameIs, PartsOf
  <1>5. Follows(First(0), Second(Numbers - 1), 0)
    <2>1. Numbers % Numbers = 0
      BY RingType, RelayAssumption, Remainder
    <2> QED BY <1>3, <2>1, FollowsInMessage
  <1>6. TypeOK
    <2>1. 0 \in 0 .. 2 * Numbers - 1 /\ 0 \in 0 .. MaxPending
      BY RelayAssumption
    <2>2. kind \in {"proxy", "forwarder"} /\ stage \in Stage /\ input \in Side
      BY DEF Init, Stage, Side
    <2>6. capture \in BOOLEAN /\ paused \in BOOLEAN
      BY Zenon DEF Init
    <2>3. /\ type \in [Side -> Types \cup {NULL}]
          /\ held \in {<<>>} \cup {<<f>> : f \in Frames}
          /\ inbox \in [Side -> Seq(Frames)] /\ building \in [Side -> Seq(Frames \cup {Delimiter})]
      BY DEF Init
    <2>4. /\ arrived \in [Side -> 0 .. Numbers - 1] /\ sent \in [Side -> Frames]
          /\ lost \in [Side -> 0 .. 2 * Numbers - 1] /\ full \subseteq Side \cup {"capture"}
      BY <1>3, <1>4, <2>1 DEF Init
    <2>5. pipe \in 0 .. MaxPending /\ acks \in Seq(Verbs) /\ pending \in 0 .. MaxPending
      BY <2>1 DEF Init
    <2> QED BY <1>2, <2>2, <2>3, <2>4, <2>5, <2>6 DEF TypeOK, PollerType, Watched
  <1>7. Counted /\ InHand /\ Silenced
    BY DEF Init, Counted, InHand, Silenced
  <1>8. Begun
    BY DEF Init, Begun
  <1>9. \A s \in Side : sent[s] = Second(Numbers - 1)
    BY <1>4 DEF Init
  <1>10. Halfway
    BY <1>9 DEF Halfway, Second
  <1>11. Ordered
    BY <1>5, <1>9 DEF Init, Ordered, NextIn, Holding
  <1> QED BY <1>6, <1>7, <1>8, <1>10, <1>11 DEF RelayInv

(* Between two calls of s_switch nothing is under way.                      *)
LEMMA Between ==
  ASSUME RelayInv, stage \notin Relaying
  PROVE  /\ held = <<>>
         /\ \A s \in Side : building[s] = <<>> /\ sent[s].part # 1
  BY DEF RelayInv, InHand, Begun, Halfway, Relaying

(* A step that leaves the stream alone then.                                *)
LEMMA Calm ==
  ASSUME RelayInv, stage \notin Relaying, stage' \notin {"copy", "send"},
         UNCHANGED <<held, inbox, building, arrived, sent, lost>>
  PROVE  /\ held' = <<>> /\ Begun' /\ Halfway' /\ Ordered'
  <1>1. /\ held = <<>>
        /\ \A s \in Side : building[s] = <<>> /\ sent[s].part # 1
    BY Between
  <1>2. Begun'
    BY <1>1 DEF Begun
  <1>3. Halfway'
    BY <1>1 DEF Halfway
  <1>4. Ordered'
    BY <1>1 DEF RelayInv, Ordered, NextIn, Holding
  <1> QED BY <1>1, <1>2, <1>3, <1>4

-----------------------------------------------------------------------------
(* Commands.                                                                *)

LEMMA VerbIs ==
  ASSUME NEW c \in Commands
  PROVE  c.verb \in Verbs /\ c.type \in Types /\ SideOf(c) \in Side
  BY DEF Commands, SideOf, Side

(* What a command leaves of the poller and the types.                       *)
LEMMA CommandType ==
  ASSUME TypeOK, NEW c \in Commands,
         Configure(c) \/ Capture(c) \/ Pause(c) \/ Resume(c) \/ Verbose(c) \/ Term(c) \/ Unknown(c)
  PROVE  /\ poller' \in PollerType /\ IsInjective(poller'.list)
         /\ type' \in [Side -> Types \cup {NULL}] /\ capture' \in BOOLEAN
         /\ \/ stage' = "poll" /\ acks' = Append(acks, c.verb) /\ pipe' = pipe - 1
            \/ stage' = "ended" /\ acks' = acks /\ pipe' = pipe - 1 /\ poller' = poller
            \/ stage' = "aborted" /\ acks' = acks /\ pipe' = pipe /\ poller' = poller
         /\ c.verb = "PAUSE" => ToSet(poller'.list) \subseteq {"pipe"}
  <1> DEFINE Good ==
        /\ poller' \in PollerType /\ IsInjective(poller'.list)
        /\ type' \in [Side -> Types \cup {NULL}] /\ capture' \in BOOLEAN
        /\ \/ stage' = "poll" /\ acks' = Append(acks, c.verb) /\ pipe' = pipe - 1
           \/ stage' = "ended" /\ acks' = acks /\ pipe' = pipe - 1 /\ poller' = poller
           \/ stage' = "aborted" /\ acks' = acks /\ pipe' = pipe /\ poller' = poller
        /\ c.verb = "PAUSE" => ToSet(poller'.list) \subseteq {"pipe"}
  <1>1. /\ poller \in PollerType /\ IsInjective(poller.list)
        /\ type \in [Side -> Types \cup {NULL}] /\ capture \in BOOLEAN
    BY DEF TypeOK, PollerType, Watched
  <1>2. "pipe" \in Watched /\ \A s \in Side : s \in Watched /\ Socket(s) \in Watched \cup {NULL}
    BY DEF Watched, Socket
  <1>3. CASE Configure(c)
    <2> DEFINE s == SideOf(c)
    <2>1. s \in Side /\ c.type \in Types /\ c.verb # "PAUSE"
      BY <1>3, VerbIs DEF Configure
    <2>2. CASE kind = "proxy"
      <3>1. ProxyConfigure(c)
        BY <1>3, <2>2 DEF Configure
      <3>2. CASE type[s] # NULL \/ c.option # "endpoint"
        BY <1>1, <2>1, <3>1, <3>2 DEF ProxyConfigure, Abort
      <3>3. CASE ~(type[s] # NULL \/ c.option # "endpoint")
        <4>1. /\ type' = [type EXCEPT ![s] = c.type] /\ poller' = PollerAppend(poller, s)
              /\ Acknowledge(c) /\ UNCHANGED capture
          BY <3>1, <3>3 DEF ProxyConfigure
        <4>2. poller' \in PollerType /\ IsInjective(poller'.list)
          BY <1>1, <1>2, <2>1, <4>1, AppendType
        <4> QED BY <1>1, <2>1, <4>1, <4>2 DEF Acknowledge
      <3> QED BY <3>2, <3>3
    <2>3. CASE kind # "proxy"
      <3> DEFINE t == IF type[s] = NULL THEN c.type ELSE type[s]
                 p == IF type[s] = NULL THEN PollerAppend(poller, s) ELSE poller
      <3>1. ForwarderConfigure(c)
        BY <1>3, <2>3 DEF Configure
      <3>2. CASE ~OptionAllowed(t, c.option)
        BY <1>1, <2>1, <3>1, <3>2 DEF ForwarderConfigure, Abort
      <3>3. CASE OptionAllowed(t, c.option)
        <4>1. /\ type' = [type EXCEPT ![s] = t]
              /\ poller' = IF c.option = "bad endpoint" THEN PollerRemove(p, s) ELSE p
              /\ Acknowledge(c) /\ UNCHANGED capture
          BY <3>1, <3>3 DEF ForwarderConfigure
        <4>2. p \in PollerType /\ IsInjective(p.list)
          BY <1>1, <1>2, <2>1, AppendType
        <4>3. poller' \in PollerType /\ IsInjective(poller'.list)
          BY <4>1, <4>2, RemoveType
        <4>4. type' \in [Side -> Types \cup {NULL}]
          BY <1>1, <2>1, <4>1
        <4> QED BY <1>1, <2>1, <4>1, <4>3, <4>4 DEF Acknowledge
      <3> QED BY <3>2, <3>3
    <2> QED BY <2>2, <2>3
  <1>4. CASE Capture(c)
    <2>1. c.verb # "PAUSE"
      BY <1>4 DEF Capture
    <2>2. CASE c.option = "bad endpoint"
      BY <1>1, <1>4, <2>1, <2>2 DEF Capture, Abort
    <2>3. CASE c.option # "bad endpoint"
      BY <1>1, <1>4, <2>1, <2>3 DEF Capture, Acknowledge
    <2> QED BY <2>2, <2>3
  <1>5. CASE Pause(c)
    <2>1. poller' \in PollerType /\ IsInjective(poller'.list) /\ ToSet(poller'.list) \subseteq {"pipe"}
      BY <1>2, <1>5, ClearType, AppendType DEF Pause
    <2> QED BY <1>1, <1>5, <2>1 DEF Pause, Acknowledge
  <1>6. CASE Resume(c)
    <2> DEFINE p == PollerAppend(PollerClear(poller), "pipe")
               q == PollerAppend(p, Socket("frontend"))
    <2>1. p \in PollerType /\ IsInjective(p.list)
      BY <1>2, ClearType, AppendType
    <2>2. q \in PollerType /\ IsInjective(q.list)
      BY <1>2, <2>1, AppendType DEF Side
    <2>3. poller' \in PollerType /\ IsInjective(poller'.list)
      BY <1>2, <1>6, <2>2, AppendType DEF Resume, Side
    <2> QED BY <1>1, <1>6, <2>3 DEF Resume, Acknowledge
  <1>7. CASE Verbose(c)
    BY <1>1, <1>7 DEF Verbose, Acknowledge
  <1>8. CASE Term(c)
    BY <1>1, <1>8 DEF Term
  <1>10. CASE Unknown(c)
    BY <1>1, <1>10 DEF Unknown, Abort
  <1> HIDE DEF Good
  <1>9. Good
    BY <1>3, <1>4, <1>5, <1>6, <1>7, <1>8, <1>10 DEF Good
  <1> QED BY <1>9 DEF Good

LEMMA HandlePipeKeeps ==
  ASSUME RelayInv, HandlePipe
  PROVE  RelayInv'
  <1>1. /\ stage = "pipe" /\ UNCHANGED <<kind, input, stream, pending, paused>>
        /\ TypeOK /\ pipe > 0 /\ pipe + Len(acks) <= pending
    BY DEF HandlePipe, Handled, RelayInv, Counted
  <1>2. PICK c \in Commands :
          Configure(c) \/ Capture(c) \/ Pause(c) \/ Resume(c) \/ Verbose(c) \/ Term(c) \/ Unknown(c)
    BY DEF HandlePipe
  <1>3. /\ poller' \in PollerType /\ IsInjective(poller'.list)
        /\ type' \in [Side -> Types \cup {NULL}] /\ capture' \in BOOLEAN
        /\ \/ stage' = "poll" /\ acks' = Append(acks, c.verb) /\ pipe' = pipe - 1
           \/ stage' = "ended" /\ acks' = acks /\ pipe' = pipe - 1 /\ poller' = poller
           \/ stage' = "aborted" /\ acks' = acks /\ pipe' = pipe /\ poller' = poller
        /\ c.verb = "PAUSE" => ToSet(poller'.list) \subseteq {"pipe"}
    BY <1>1, <1>2, CommandType
  <1>4. pipe \in 0 .. MaxPending /\ pending \in 0 .. MaxPending /\ acks \in Seq(Verbs) /\ c.verb \in Verbs
    BY <1>1, VerbIs DEF TypeOK
  <1>5. /\ stage' \in {"poll", "ended", "aborted"} /\ pipe' \in 0 .. MaxPending /\ acks' \in Seq(Verbs)
        /\ pipe' + Len(acks') <= pending'
    BY <1>1, <1>3, <1>4, RelayAssumption
  <1>6. held' = <<>> /\ Begun' /\ Halfway' /\ Ordered'
    <2>1. stage \notin Relaying /\ stage' \notin {"copy", "send"}
      BY <1>1, <1>5 DEF Relaying
    <2> QED BY <1>1, <2>1, Calm DEF stream
  <1>7. TypeOK'
    BY <1>1, <1>3, <1>5 DEF TypeOK, stream, Stage, PollerType, Watched
  <1>8. Counted' /\ InHand'
    BY <1>5, <1>6 DEF Counted, InHand
  <1>9. Silenced'
    <2>1. ~paused
      BY <1>1, <1>4, RelayAssumption DEF RelayInv, Silenced
    <2>2. acks' # <<>> /\ acks'[Len(acks')] = "PAUSE" => Quiet'
      <3>1. SUFFICES ASSUME acks' # <<>>, acks'[Len(acks')] = "PAUSE"
            PROVE ToSet(poller'.list) \subseteq {"pipe"}
        BY <1>5 DEF Quiet
      <3>2. CASE acks' = Append(acks, c.verb)
        BY <1>3, <1>4, <3>1, <3>2
      <3>3. CASE acks' = acks /\ poller' = poller
        BY <3>1, <3>3 DEF RelayInv, Silenced, Quiet
      <3> QED BY <1>3, <3>2, <3>3
    <2> QED BY <1>1, <2>1, <2>2 DEF Silenced
  <1> QED BY <1>6, <1>7, <1>8, <1>9 DEF RelayInv

(* The handler is interrupted in zmq_poll or in the receive of a command.   *)
LEMMA InterruptedKeeps ==
  ASSUME RelayInv, Interrupted
  PROVE  RelayInv'
  <1>1. /\ stage \in {"pipe", "poll"} /\ stage' \in {"poll", "ended"}
        /\ UNCHANGED <<kind, type, capture, input, stream, app_vars>>
        /\ poller'.list = poller.list
        /\ poller' \in PollerType
    BY DEF Interrupted, PipeInterrupted, PollInterrupted, Handled, PollFails, Waited,
           RelayInv, TypeOK, PollerType, Watched, app_vars
  <1>2. held' = <<>> /\ Begun' /\ Halfway' /\ Ordered'
    <2>1. stage \notin Relaying /\ stage' \notin {"copy", "send"}
      BY <1>1 DEF Relaying
    <2> QED BY <1>1, <2>1, Calm DEF stream
  <1>3. TypeOK'
    BY <1>1 DEF RelayInv, TypeOK, stream, app_vars, Stage, PollerType, Watched
  <1>4. Counted' /\ InHand' /\ Silenced'
    BY <1>1, <1>2 DEF RelayInv, Counted, InHand, Silenced, Quiet, app_vars
  <1> QED BY <1>2, <1>3, <1>4 DEF RelayInv

-----------------------------------------------------------------------------
(* The loop.                                                                *)

LEMMA PollReturnsKeeps ==
  ASSUME RelayInv, PollReturns
  PROVE  RelayInv'
  <1> DEFINE s == FirstReady(poller, Ready)
  <1>1. /\ stage = "poll" /\ Ready \cap ToSet(poller.list) # {}
        /\ UNCHANGED <<kind, type, capture, stream, app_vars>>
        /\ poller' = Waited(poller)
        /\ IF s = "pipe" THEN stage' = "pipe" /\ UNCHANGED input ELSE Enter(s)
    BY DEF PollReturns
  <1>2. poller \in PollerType /\ poller' \in PollerType /\ poller'.list = poller.list
    BY <1>1 DEF RelayInv, TypeOK, PollerType, Watched, Waited
  <1>3. s \in Ready \cap ToSet(poller.list)
    BY <1>1, <1>2, FirstReadyIs
  <1> HIDE DEF s
  <1>4. \/ s = "pipe" /\ pipe > 0 /\ stage' = "pipe" /\ input' = input
        \/ /\ s \in Side /\ s # "pipe" /\ inbox[s] # <<>> /\ input' = s
           /\ stage' \in {"aborted", "delimit", "read"}
           /\ stage' = "delimit" => type[Opposite(s)] = "DEALER"
    <2>1. CASE s = "pipe"
      <3>1. "pipe" \notin Side
        BY DEF Side
      <3>2. pipe # 0
        BY <1>3, <2>1, <3>1 DEF Ready
      <3> QED BY <1>1, <2>1, <3>2 DEF RelayInv, TypeOK
    <2>2. CASE s # "pipe"
      <3>1. s \in Side /\ inbox[s] # <<>>
        BY <1>3, <2>2 DEF Ready
      <3>2. Enter(s)
        BY <1>1, <2>2
      <3> QED BY <2>2, <3>1, <3>2 DEF Enter, Opposite
    <2> QED BY <2>1, <2>2
  <1>5. stage' \in {"pipe", "aborted", "delimit", "read"} /\ input' \in Side
    BY <1>4 DEF RelayInv, TypeOK
  <1>6. held' = <<>> /\ Begun' /\ Halfway' /\ Ordered'
    <2>1. stage \notin Relaying /\ stage' \notin {"copy", "send"}
      BY <1>1, <1>5 DEF Relaying
    <2> QED BY <1>1, <2>1, Calm DEF stream
  <1>7. TypeOK'
    BY <1>1, <1>2, <1>5 DEF RelayInv, TypeOK, stream, app_vars, Stage, PollerType, Watched
  <1>8. Counted' /\ InHand'
    BY <1>1, <1>4, <1>5, <1>6 DEF RelayInv, Counted, InHand, stream, app_vars
  <1>9. Silenced'
    <2>1. ASSUME Quiet PROVE Quiet'
      <3>1. s = "pipe"
        BY <1>3, <2>1 DEF Quiet
      <3> QED BY <1>2, <1>4, <2>1, <3>1 DEF Quiet
    <2> QED BY <1>1, <2>1 DEF RelayInv, Silenced, app_vars
  <1> QED BY <1>6, <1>7, <1>8, <1>9 DEF RelayInv

(* While s_switch runs PAUSE is not the last that was acknowledged.         *)
LEMMA Unpaused ==
  ASSUME RelayInv, stage \in Relaying \cup {"delimit"}, UNCHANGED app_vars
  PROVE  Silenced'
  BY DEF RelayInv, Silenced, Quiet, Relaying, app_vars

LEMMA PushType ==
  ASSUME TypeOK, NEW s \in Side, NEW f \in Frames \cup {Delimiter}, Push(s, f)
  PROVE  /\ building' \in [Side -> Seq(Frames \cup {Delimiter})]
         /\ full' \subseteq Side \cup {"capture"}
  <1>1. building'= [building EXCEPT ![s] = IF f.more THEN Append(@, f) ELSE <<>>]
    BY DEF Push
  <1> DEFINE b == IF f.more THEN Append(building[s], f) ELSE <<>>
  <1>4. b \in Seq(Frames \cup {Delimiter})
    BY DEF TypeOK
  <1>5. building' = [building EXCEPT ![s] = b]
    BY <1>1
  <1> HIDE DEF b
  <1>2. building' \in [Side -> Seq(Frames \cup {Delimiter})]
    BY <1>4, <1>5 DEF TypeOK
  <1>3. full' \in {full, {s}}
    BY DEF Push, Filled
  <1> QED BY <1>2, <1>3 DEF TypeOK

LEMMA DelimitKeeps ==
  ASSUME RelayInv, Delimit
  PROVE  RelayInv'
  <1> DEFINE out == Opposite(input)
  <1>1. /\ stage = "delimit" /\ stage' = "read"
        /\ UNCHANGED <<set_up, input, held, inbox, arrived, sent, lost, app_vars>>
        /\ Push(out, Delimiter) \/ UNCHANGED <<building, full>>
    BY Opposites DEF Delimit
  <1>2. /\ out \in Side /\ inbox[input] # <<>> /\ type[out] = "DEALER"
    BY <1>1, Opposites DEF RelayInv, InHand, TypeOK
  <1>3. held = <<>> /\ \A s \in Side : building[s] = <<>> /\ sent[s].part # 1
    BY <1>1, Between DEF Relaying
  <1>4. /\ building' \in [Side -> Seq(Frames \cup {Delimiter})]
        /\ full' \subseteq Side \cup {"capture"}
        /\ \A s \in Side \ {out} : building'[s] = <<>>
        /\ building'[out] \in {<<>>, <<Delimiter>>}
    <2>1. CASE Push(out, Delimiter)
      <3>1. /\ building' \in [Side -> Seq(Frames \cup {Delimiter})]
            /\ full' \subseteq Side \cup {"capture"}
        BY <1>2, <2>1, PushType DEF RelayInv
      <3>2. building' = [building EXCEPT ![out] = Append(@, Delimiter)]
        BY <2>1 DEF Push, Delimiter
      <3>3. building'[out] = Append(building[out], Delimiter) /\ \A s \in Side \ {out} : building'[s] = building[s]
        BY <1>2, <3>2 DEF RelayInv, TypeOK
      <3>4. building'[out] = <<Delimiter>>
        <4>1. building[out] = <<>>
          BY <1>2, <1>3
        <4> HIDE DEF out
        <4> QED BY <3>3, <4>1
      <3>5. \A s \in Side \ {out} : building'[s] = <<>>
        BY <1>3, <3>3
      <3> QED BY <3>1, <3>4, <3>5
    <2>2. CASE UNCHANGED <<building, full>>
      BY <1>2, <1>3, <2>2 DEF RelayInv, TypeOK
    <2> QED BY <1>1, <2>1, <2>2
  <1>5. TypeOK'
    BY <1>1, <1>4 DEF RelayInv, TypeOK, set_up, app_vars, Stage
  <1>6. Counted' /\ InHand'
    BY <1>1, <1>3 DEF RelayInv, Counted, InHand, app_vars
  <1>7. Begun'
    <2> SUFFICES ASSUME NEW s \in Side
        PROVE /\ \A i \in DOMAIN building'[s] : i > 1 => building'[s][i] # Delimiter
              /\ building'[s] # <<>> =>
                   /\ s = Opposite(input') /\ stage' \in Relaying /\ type'[s] # "SUB"
                   /\ stage' = "read" => inbox'[input'] # <<>>
      BY DEF Begun
    <2>1. CASE building'[s] = <<>>
      BY <2>1
    <2>2. CASE building'[s] # <<>>
      <3>1. s = out /\ building'[s] = <<Delimiter>> /\ DOMAIN building'[s] = {1}
        BY <1>4, <2>2
      <3> QED BY <1>1, <1>2, <3>1 DEF Relaying, set_up
    <2> QED BY <2>1, <2>2
  <1>8. Halfway'
    BY <1>1, <1>3 DEF Halfway
  <1>9. Ordered'
    BY <1>1 DEF RelayInv, Ordered, NextIn, Holding
  <1>10. Silenced'
    BY <1>1, Unpaused
  <1> QED BY <1>5, <1>6, <1>7, <1>8, <1>9, <1>10 DEF RelayInv

(* A frame is taken from the side that is read.                             *)
LEMMA ReadFrameKeeps ==
  ASSUME RelayInv, ReadFrame
  PROVE  RelayInv'
  <1> DEFINE q == inbox[input]
  <1>1. /\ stage = "read" /\ stage' \in {"copy", "send"} /\ q # <<>>
        /\ held' = <<Head(q)>>
        /\ inbox' = [inbox EXCEPT ![input] = Tail(@)]
        /\ UNCHANGED <<set_up, input, building, arrived, sent, lost, full, app_vars>>
        /\ TypeOK /\ input \in Side
    BY DEF ReadFrame, RelayInv, TypeOK
  <1>2. /\ q \in Seq(Frames) /\ Head(q) = q[1] /\ q[1] \in Frames /\ Tail(q) \in Seq(Frames)
        /\ Len(q) \in Nat /\ Len(q) > 0 /\ Len(Tail(q)) = Len(q) - 1
        /\ \A i \in 1 .. Len(q) - 1 : Tail(q)[i] = q[i + 1]
    <2>1. q \in Seq(Frames)
      BY <1>1 DEF TypeOK
    <2> HIDE DEF q
    <2> QED BY <1>1, <2>1
  <1>3. /\ inbox'[input] = Tail(q)
        /\ \A s \in Side \ {input} : inbox'[s] = inbox[s]
    BY <1>1 DEF TypeOK
  <1>4. held = <<>> /\ held' # <<>> /\ held'[1] = q[1]
    BY <1>1, <1>2 DEF RelayInv, InHand
  <1>5. TypeOK'
    <2>1. inbox' \in [Side -> Seq(Frames)]
      BY <1>1, <1>2 DEF TypeOK
    <2>2. held' \in {<<f>> : f \in Frames}
      BY <1>1, <1>2
    <2>3. stage' \in Stage
      BY <1>1 DEF Stage
    <2> QED BY <1>1, <2>1, <2>2, <2>3 DEF TypeOK, set_up, app_vars
  <1>6. Counted' /\ InHand' /\ Begun' /\ Halfway'
    <2>1. Counted' /\ InHand'
      BY <1>1, <1>4 DEF RelayInv, Counted, InHand, app_vars
    <2>2. Begun'
      BY <1>1 DEF RelayInv, Begun, Relaying, set_up
    <2>3. Halfway'
      BY <1>1 DEF RelayInv, Halfway, Relaying
    <2> QED BY <2>1, <2>2, <2>3
  <1>7. Ordered'
    <2> SUFFICES ASSUME NEW s \in Side
        PROVE /\ \A i \in 1 .. Len(inbox'[s]) - 1 : Follows(inbox'[s][i + 1], inbox'[s][i], 0)
              /\ inbox'[s] # <<>> => Follows(First(arrived'[s]), inbox'[s][Len(inbox'[s])], 0)
              /\ Holding(s)' => Follows(NextIn(s)', held'[1], 0) /\ Follows(held'[1], sent'[s], lost'[s])
              /\ ~Holding(s)' => Follows(NextIn(s)', sent'[s], lost'[s])
      BY DEF Ordered, Follows, Position
    <2>0. /\ \A i \in 1 .. Len(inbox[s]) - 1 : Follows(inbox[s][i + 1], inbox[s][i], 0)
          /\ inbox[s] # <<>> => Follows(First(arrived[s]), inbox[s][Len(inbox[s])], 0)
          /\ ~Holding(s) /\ Follows(NextIn(s), sent[s], lost[s])
      BY <1>4 DEF RelayInv, Ordered, Holding
    <2>1. CASE s # input
      <3>1. inbox'[s] = inbox[s] /\ ~Holding(s)' /\ NextIn(s)' = NextIn(s)
        BY <1>1, <1>3, <2>1 DEF Holding, NextIn
      <3> QED BY <1>1, <2>0, <3>1
    <2>2. CASE s = input
      <3>1. /\ Holding(s)' /\ inbox'[s] = Tail(q) /\ inbox[s] = q /\ arrived'[s] = arrived[s]
            /\ NextIn(s) = q[1] /\ sent'[s] = sent[s] /\ lost'[s] = lost[s]
        BY <1>1, <1>3, <1>4, <2>2 DEF Holding, NextIn
      <3> HIDE DEF q
      <3>2. \A i \in 1 .. Len(Tail(q)) - 1 : Follows(Tail(q)[i + 1], Tail(q)[i], 0)
        <4> SUFFICES ASSUME NEW i \in 1 .. Len(Tail(q)) - 1
            PROVE Follows(Tail(q)[i + 1], Tail(q)[i], 0)
          OBVIOUS
        <4>1. i + 1 \in 1 .. Len(q) - 1 /\ i \in 1 .. Len(q) - 1
          BY <1>2
        <4>2. Tail(q)[i + 1] = q[(i + 1) + 1] /\ Tail(q)[i] = q[i + 1]
          BY <1>2, <4>1
        <4> QED BY <2>0, <3>1, <4>1, <4>2
      <3>3. Tail(q) # <<>> => Follows(First(arrived[s]), Tail(q)[Len(Tail(q))], 0)
        <4> SUFFICES ASSUME Tail(q) # <<>>
            PROVE Follows(First(arrived[s]), Tail(q)[Len(Tail(q))], 0)
          OBVIOUS
        <4>1. Len(Tail(q)) # 0
          BY <1>2
        <4>2. Tail(q)[Len(Tail(q))] = q[Len(q)]
          BY <1>2, <4>1
        <4> QED BY <1>1, <2>0, <3>1, <4>2
      <3>4. Follows(NextIn(s)', q[1], 0)
        <4>1. CASE Tail(q) = <<>>
          <5>1. NextIn(s)' = First(arrived[s])
            BY <3>1, <4>1 DEF NextIn
          <5> DEFINE t == Tail(q)
          <5>4. t = <<>> /\ t \in Seq(Frames) /\ Len(t) = Len(q) - 1 /\ Len(q) \in Nat
            BY <1>2, <4>1
          <5> HIDE DEF t
          <5>2. Len(t) = 0
            BY <5>4
          <5>3. Len(q) = 1
            BY <5>2, <5>4
          <5> QED BY <1>1, <2>0, <3>1, <5>1, <5>3
        <4>2. CASE Tail(q) # <<>>
          <5>1. Len(Tail(q)) # 0
            BY <1>2, <4>2
          <5>2. 1 \in 1 .. Len(q) - 1 /\ 1 + 1 = 2
            BY <1>2, <5>1
          <5>3. NextIn(s)' = q[1 + 1]
            BY <1>2, <3>1, <4>2, <5>2 DEF NextIn
          <5> QED BY <2>0, <3>1, <5>2, <5>3
        <4> QED BY <4>1, <4>2
      <3> QED BY <1>4, <2>0, <3>1, <3>2, <3>3, <3>4
    <2> QED BY <2>1, <2>2
  <1>8. Silenced'
    BY <1>1, Unpaused DEF Relaying
  <1> QED BY <1>5, <1>6, <1>7, <1>8 DEF RelayInv

(* When there is nothing left to read no message is under way.              *)
LEMMA ReadNothingKeeps ==
  ASSUME RelayInv, ReadNothing
  PROVE  RelayInv'
  <1>1. /\ stage = "read" /\ stage' = "poll" /\ inbox[input] = <<>>
        /\ UNCHANGED <<set_up, input, stream, app_vars>>
        /\ TypeOK /\ held = <<>>
    BY DEF ReadNothing, RelayInv, InHand
  <1>2. \A s \in Side : building[s] = <<>>
    BY <1>1 DEF RelayInv, Begun
  <1>3. \A s \in Side : sent[s].part # 1
    BY <1>2, Opposites DEF RelayInv, Halfway
  <1>4. TypeOK'
    BY <1>1 DEF TypeOK, set_up, stream, app_vars, Stage
  <1>5. Counted' /\ InHand' /\ Begun' /\ Halfway'
    BY <1>1, <1>2, <1>3 DEF RelayInv, Counted, InHand, Begun, Halfway, stream, app_vars
  <1>6. Ordered'
    BY <1>1 DEF RelayInv, Ordered, NextIn, Holding, stream
  <1>7. Silenced'
    BY <1>1, Unpaused DEF Relaying
  <1> QED BY <1>4, <1>5, <1>6, <1>7 DEF RelayInv

LEMMA CopyKeeps ==
  ASSUME RelayInv, Copy
  PROVE  RelayInv'
  <1>1. /\ stage = "copy" /\ stage' = "send" /\ full' \subseteq Side \cup {"capture"}
        /\ UNCHANGED <<set_up, input, held, inbox, building, arrived, sent, lost, app_vars>>
        /\ TypeOK
    BY DEF Copy, Filled, RelayInv, TypeOK
  <1>2. TypeOK'
    BY <1>1 DEF TypeOK, set_up, app_vars, Stage
  <1>3. Counted' /\ InHand'
    BY <1>1 DEF RelayInv, Counted, InHand, app_vars
  <1>4. Begun' /\ Halfway'
    BY <1>1 DEF RelayInv, Begun, Halfway, Relaying, set_up
  <1>5. Ordered'
    BY <1>1 DEF RelayInv, Ordered, NextIn, Holding
  <1>6. Silenced'
    BY <1>1, Unpaused DEF Relaying
  <1> QED BY <1>2, <1>3, <1>4, <1>5, <1>6 DEF RelayInv

(* A frame that is sent is the last of its side; the first part of a message *)
(* leaves it begun, with the second to be read; the second completes it.     *)
LEMMA SendFrameKeeps ==
  ASSUME RelayInv, SendFrame
  PROVE  RelayInv'
  <1> DEFINE f == held[1]
             out == Opposite(input)
  <1>1. /\ stage = "send" /\ stage' = "read" /\ held' = <<>> /\ held # <<>>
        /\ Push(out, f) /\ ~Fails(out)
        /\ sent' = [sent EXCEPT ![input] = f] /\ lost' = [lost EXCEPT ![input] = 0]
        /\ UNCHANGED <<set_up, input, inbox, arrived, app_vars>>
        /\ TypeOK /\ input \in Side
    BY Opposites DEF SendFrame, RelayInv, InHand, TypeOK
  <1>2. /\ f \in Frames /\ NextIn(input) \in Frames /\ out \in Side /\ out # input
        /\ type[out] # "SUB"
    BY <1>1, StreamType, Opposites DEF Fails
  <1>3. /\ sent'[input] = f /\ lost'[input] = 0
        /\ \A s \in Side \ {input} : sent'[s] = sent[s] /\ lost'[s] = lost[s]
    BY <1>1 DEF TypeOK
  <1>4. Follows(NextIn(input), f, 0)
    BY <1>1 DEF RelayInv, Ordered, Holding
  <1>5. /\ building'[out] = IF f.more THEN Append(building[out], f) ELSE <<>>
        /\ \A s \in Side \ {out} : building'[s] = building[s] /\ building[s] = <<>>
    <2>1. \A s \in Side \ {out} : building[s] = <<>>
      BY DEF RelayInv, Begun
    <2>2. building' = [building EXCEPT ![out] = IF f.more THEN Append(@, f) ELSE <<>>]
      BY <1>1 DEF Push
    <2> QED BY <1>1, <1>2, <2>1, <2>2 DEF TypeOK
  <1>6. TypeOK'
    <2>1. /\ building' \in [Side -> Seq(Frames \cup {Delimiter})]
          /\ full' \subseteq Side \cup {"capture"}
      BY <1>1, <1>2, PushType
    <2>2. sent' \in [Side -> Frames] /\ lost' \in [Side -> 0 .. 2 * Numbers - 1]
      <3>1. 0 \in 0 .. 2 * Numbers - 1
        BY RelayAssumption
      <3> QED BY <1>1, <1>2, <3>1 DEF TypeOK
    <2> QED BY <1>1, <2>1, <2>2 DEF TypeOK, set_up, app_vars, Stage
  <1>7. Counted' /\ InHand'
    BY <1>1 DEF RelayInv, Counted, InHand, app_vars
  <1>8. f.part = 1 => /\ inbox[input] # <<>>
                      /\ building'[out] # <<>> /\ Last(building'[out]) = f
                      /\ \A i \in DOMAIN building'[out] : i > 1 => building'[out][i] # Delimiter
    <2> SUFFICES ASSUME f.part = 1
        PROVE /\ inbox[input] # <<>>
              /\ building'[out] # <<>> /\ Last(building'[out]) = f
              /\ \A i \in DOMAIN building'[out] : i > 1 => building'[out][i] # Delimiter
      OBVIOUS
    <2>1. inbox[input] # <<>>
      <3>1. NextIn(input) = Second(f.number)
        BY <1>2, <1>4, FollowsFirst
      <3>2. NextIn(input).part = 2 /\ First(arrived[input]).part = 1
        BY <3>1 DEF First, Second
      <3>3. NextIn(input) # First(arrived[input])
        BY <3>2
      <3> QED BY <3>3 DEF NextIn
    <2> DEFINE b == building[out]
    <2>2. f.more /\ f # Delimiter /\ b \in Seq(Frames \cup {Delimiter})
      BY <1>1, <1>2, FrameType DEF TypeOK
    <2>3. \A i \in DOMAIN b : i > 1 => b[i] # Delimiter
      BY <1>2 DEF RelayInv, Begun
    <2>4. building'[out] = Append(b, f)
      BY <1>5, <2>2
    <2> HIDE DEF b, f, out
    <2>5. /\ Append(b, f) # <<>> /\ Last(Append(b, f)) = f
          /\ \A i \in DOMAIN Append(b, f) : i > 1 => Append(b, f)[i] # Delimiter
      <3>1. /\ Len(b) \in Nat /\ DOMAIN b = 1 .. Len(b)
            /\ Len(Append(b, f)) = Len(b) + 1 /\ DOMAIN Append(b, f) = 1 .. Len(b) + 1
            /\ Append(b, f)[Len(b) + 1] = f
            /\ \A i \in 1 .. Len(b) : Append(b, f)[i] = b[i]
        BY <1>2, <2>2
      <3> QED BY <2>2, <2>3, <3>1 DEF Last
    <2> QED BY <2>1, <2>4, <2>5
  <1>9. f.part # 1 => building'[out] = <<>>
    BY <1>2, <1>5, FrameType
  <1>10. Begun'
    <2> SUFFICES ASSUME NEW s \in Side
        PROVE /\ \A i \in DOMAIN building'[s] : i > 1 => building'[s][i] # Delimiter
              /\ building'[s] # <<>> =>
                   /\ s = Opposite(input') /\ stage' \in Relaying /\ type'[s] # "SUB"
                   /\ stage' = "read" => inbox'[input'] # <<>>
      BY DEF Begun
    <2>1. CASE s # out
      BY <1>5, <2>1
    <2>2. CASE s = out /\ f.part # 1
      BY <1>9, <2>2
    <2>3. CASE s = out /\ f.part = 1
      BY <1>1, <1>2, <1>8, <2>3 DEF Relaying, set_up
    <2> QED BY <2>1, <2>2, <2>3
  <1>11. Halfway'
    <2> SUFFICES ASSUME NEW s \in Side, sent'[s].part = 1
        PROVE /\ input' = s /\ stage' \in Relaying /\ lost'[s] = 0
              /\ building'[Opposite(s)] # <<>> /\ Last(building'[Opposite(s)]) = sent'[s]
      BY DEF Halfway
    <2>1. s = input
      BY <1>3 DEF RelayInv, Halfway
    <2> QED BY <1>1, <1>3, <1>8, <2>1 DEF Relaying
  <1>12. Ordered'
    <2> SUFFICES ASSUME NEW s \in Side
        PROVE /\ \A i \in 1 .. Len(inbox'[s]) - 1 : Follows(inbox'[s][i + 1], inbox'[s][i], 0)
              /\ inbox'[s] # <<>> => Follows(First(arrived'[s]), inbox'[s][Len(inbox'[s])], 0)
              /\ Follows(NextIn(s)', sent'[s], lost'[s])
      BY <1>1 DEF Ordered, Holding
    <2>1. /\ \A i \in 1 .. Len(inbox[s]) - 1 : Follows(inbox[s][i + 1], inbox[s][i], 0)
          /\ inbox[s] # <<>> => Follows(First(arrived[s]), inbox[s][Len(inbox[s])], 0)
          /\ s # input => Follows(NextIn(s), sent[s], lost[s])
      BY DEF RelayInv, Ordered, Holding
    <2>2. inbox' = inbox /\ arrived' = arrived /\ NextIn(s)' = NextIn(s)
      BY <1>1 DEF NextIn
    <2>3. CASE s = input
      BY <1>3, <1>4, <2>1, <2>2, <2>3
    <2>4. CASE s # input
      BY <1>3, <2>1, <2>2, <2>4
    <2> QED BY <2>3, <2>4
  <1>13. Silenced'
    BY <1>1, Unpaused DEF Relaying
  <1> QED BY <1>6, <1>7, <1>10, <1>11, <1>12, <1>13 DEF RelayInv

(* A send that fails drops the frame in hand; nothing is begun then.        *)
LEMMA SendFailsKeeps ==
  ASSUME RelayInv, SendFails
  PROVE  RelayInv'
  <1> DEFINE out == Opposite(input)
             k == lost[input]
  <1>1. /\ stage = "send" /\ stage' = "poll" /\ held' = <<>> /\ held # <<>>
        /\ Fails(out) /\ lost' = [lost EXCEPT ![input] = (@ + 1) % Ring]
        /\ UNCHANGED <<set_up, input, inbox, building, arrived, sent, full, app_vars>>
        /\ TypeOK /\ input \in Side
    BY Opposites DEF SendFails, RelayInv, InHand, TypeOK, Ring
  <1>2. out \in Side /\ out # input /\ out # "capture"
    BY <1>1, Opposites DEF Side
  <1>3. \A s \in Side : building[s] = <<>>
    <2>1. building[out] = <<>>
      BY <1>1, <1>2 DEF Fails, Waits, RelayInv, Begun
    <2> QED BY <2>1 DEF RelayInv, Begun
  <1>4. \A s \in Side : sent[s].part # 1
    BY <1>3, Opposites DEF RelayInv, Halfway
  <1>5. /\ lost'[input] = (k + 1) % Ring
        /\ \A s \in Side \ {input} : lost'[s] = lost[s]
    BY <1>1 DEF TypeOK
  <1>6. Follows(NextIn(input), sent[input], (k + 1) % Ring) /\ (k + 1) % Ring \in 0 .. Ring - 1
    <2>1. Follows(NextIn(input), held[1], 0) /\ Follows(held[1], sent[input], k)
      BY <1>1 DEF RelayInv, Ordered, Holding
    <2>2. sent[input] \in Frames /\ held[1] \in Frames /\ NextIn(input) \in Frames /\ k \in 0 .. Ring - 1
      BY <1>1, StreamType
    <2> HIDE DEF k
    <2> QED BY <2>1, <2>2, FollowsSkipping
  <1>7. TypeOK'
    <2>1. lost' \in [Side -> 0 .. 2 * Numbers - 1]
      BY <1>1, <1>6 DEF TypeOK, Ring
    <2> QED BY <1>1, <2>1 DEF TypeOK, set_up, app_vars, Stage
  <1>8. Counted' /\ InHand' /\ Begun' /\ Halfway'
    BY <1>1, <1>3, <1>4 DEF RelayInv, Counted, InHand, Begun, Halfway, app_vars
  <1>9. Ordered'
    <2> SUFFICES ASSUME NEW s \in Side
        PROVE /\ \A i \in 1 .. Len(inbox'[s]) - 1 : Follows(inbox'[s][i + 1], inbox'[s][i], 0)
              /\ inbox'[s] # <<>> => Follows(First(arrived'[s]), inbox'[s][Len(inbox'[s])], 0)
              /\ Follows(NextIn(s)', sent'[s], lost'[s])
      BY <1>1 DEF Ordered, Holding
    <2>1. /\ \A i \in 1 .. Len(inbox[s]) - 1 : Follows(inbox[s][i + 1], inbox[s][i], 0)
          /\ inbox[s] # <<>> => Follows(First(arrived[s]), inbox[s][Len(inbox[s])], 0)
          /\ s # input => Follows(NextIn(s), sent[s], lost[s])
      BY DEF RelayInv, Ordered, Holding
    <2>2. inbox' = inbox /\ arrived' = arrived /\ NextIn(s)' = NextIn(s) /\ sent' = sent
      BY <1>1 DEF NextIn
    <2>3. CASE s = input
      BY <1>5, <1>6, <2>1, <2>2, <2>3
    <2>4. CASE s # input
      BY <1>5, <2>1, <2>2, <2>4
    <2> QED BY <2>3, <2>4
  <1>10. Silenced'
    BY <1>1, Unpaused DEF Relaying
  <1> QED BY <1>7, <1>8, <1>9, <1>10 DEF RelayInv

-----------------------------------------------------------------------------
(* The application and the peers.                                           *)

LEMMA CommandKeeps ==
  ASSUME RelayInv, Command
  PROVE  RelayInv'
  <1>1. /\ pending < MaxPending /\ pipe' = pipe + 1 /\ pending' = pending + 1 /\ paused' = FALSE
        /\ UNCHANGED <<set_up, stage, input, stream, acks>>
        /\ TypeOK /\ pipe + Len(acks) <= pending
    BY DEF Command, RelayInv, Counted
  <1>2. pipe \in 0 .. MaxPending /\ pending \in 0 .. MaxPending /\ Len(acks) \in Nat /\ MaxPending \in Nat
    BY <1>1, RelayAssumption DEF TypeOK
  <1>3. pipe' \in 0 .. MaxPending /\ pending' \in 0 .. MaxPending
    BY <1>1, <1>2
  <1>4. paused' \in BOOLEAN
    BY <1>1, Zenon
  <1>5. TypeOK'
    BY <1>1, <1>3, <1>4 DEF TypeOK, set_up, stream
  <1>6. Counted'
    BY <1>1, <1>2 DEF RelayInv, Counted
  <1>7. InHand' /\ Begun' /\ Halfway'
    BY <1>1 DEF RelayInv, InHand, Begun, Halfway, set_up, stream
  <1>8. Ordered'
    BY <1>1 DEF RelayInv, Ordered, NextIn, Holding, stream
  <1>9. Silenced'
    BY <1>1 DEF RelayInv, Silenced, Quiet, set_up
  <1> QED BY <1>5, <1>6, <1>7, <1>8, <1>9 DEF RelayInv

(* When the acknowledgement of PAUSE is the last that was due, no other is   *)
(* on its way, so it was the last that was sent.                             *)
LEMMA ReadAckKeeps ==
  ASSUME RelayInv, ReadAck
  PROVE  RelayInv'
  <1>1. /\ acks # <<>> /\ acks' = Tail(acks) /\ pending' = pending - 1
        /\ UNCHANGED <<set_up, stage, input, stream, pipe>>
        /\ TypeOK /\ pipe + Len(acks) <= pending
    BY DEF ReadAck, RelayInv, Counted
  <1>2. paused' = (pending = 1 /\ Head(acks) = "PAUSE")
    BY DEF ReadAck
  <1>3. /\ acks \in Seq(Verbs) /\ Len(acks) \in Nat /\ Len(acks) > 0
        /\ Tail(acks) \in Seq(Verbs) /\ Len(Tail(acks)) = Len(acks) - 1
        /\ Head(acks) = acks[1]
        /\ Tail(acks) # <<>> => Tail(acks)[Len(Tail(acks))] = acks[Len(acks)]
    <2>1. acks \in Seq(Verbs)
      BY <1>1 DEF TypeOK
    <2>2. /\ Len(acks) \in Nat /\ Len(acks) > 0 /\ Tail(acks) \in Seq(Verbs)
          /\ Len(Tail(acks)) = Len(acks) - 1 /\ Head(acks) = acks[1]
          /\ \A i \in 1 .. Len(acks) - 1 : Tail(acks)[i] = acks[i + 1]
      BY <1>1, <2>1
    <2>3. ASSUME Tail(acks) # <<>> PROVE Tail(acks)[Len(Tail(acks))] = acks[Len(acks)]
      <3>1. Len(Tail(acks)) # 0
        BY <2>2, <2>3
      <3> QED BY <2>2, <3>1
    <2> QED BY <2>1, <2>2, <2>3
  <1>4. pipe \in 0 .. MaxPending /\ pending \in 0 .. MaxPending /\ MaxPending \in Nat
    BY <1>1, RelayAssumption DEF TypeOK
  <1>5. pending' \in 0 .. MaxPending /\ acks' \in Seq(Verbs) /\ Counted'
    BY <1>1, <1>3, <1>4 DEF RelayInv, Counted
  <1>6. paused' \in BOOLEAN
    BY <1>2, Zenon
  <1>7. TypeOK'
    BY <1>1, <1>5, <1>6 DEF TypeOK, set_up, stream
  <1>8. InHand' /\ Begun' /\ Halfway'
    BY <1>1 DEF RelayInv, InHand, Begun, Halfway, set_up, stream
  <1>9. Ordered'
    BY <1>1 DEF RelayInv, Ordered, NextIn, Holding, stream
  <1>10. Silenced'
    <2>1. ASSUME Quiet PROVE Quiet'
      BY <1>1, <2>1 DEF Quiet, set_up
    <2>2. acks' # <<>> /\ acks'[Len(acks')] = "PAUSE" => Quiet'
      BY <1>1, <1>3, <2>1 DEF RelayInv, Silenced
    <2>3. ASSUME paused' PROVE Quiet' /\ pending' = 0
      <3>1. pending = 1 /\ Head(acks) = "PAUSE"
        BY <1>2, <2>3, Zenon
      <3>2. Len(acks) = 1
        BY <1>1, <1>3, <1>4, <3>1
      <3>3. acks[Len(acks)] = "PAUSE"
        BY <1>3, <3>1, <3>2
      <3> QED BY <1>1, <2>1, <3>1, <3>3 DEF RelayInv, Silenced
    <2> QED BY <2>2, <2>3 DEF Silenced
  <1> QED BY <1>5, <1>7, <1>8, <1>9, <1>10 DEF RelayInv

LEMMA ArriveKeeps ==
  ASSUME RelayInv, NEW x \in Side, Arrive(x)
  PROVE  RelayInv'
  <1> DEFINE n == arrived[x]
             q == inbox[x]
             m == (n + 1) % Numbers
             r == q \o <<First(n), Second(n)>>
  <1>1. /\ inbox' = [inbox EXCEPT ![x] = @ \o Parts(n)]
        /\ arrived' = [arrived EXCEPT ![x] = (@ + 1) % Numbers]
        /\ UNCHANGED <<set_up, stage, input, held, building, sent, lost, full, app_vars>>
        /\ TypeOK
    BY DEF Arrive, RelayInv
  <1>2. q \in Seq(Frames) /\ Len(q) \in Nat /\ n \in 0 .. Numbers - 1
    BY <1>1, StreamType
  <1>3. /\ inbox'[x] = r /\ arrived'[x] = m
        /\ \A s \in Side \ {x} : inbox'[s] = inbox[s] /\ arrived'[s] = arrived[s]
    BY <1>1, PartsOf DEF TypeOK
  <1>4. /\ Follows(Second(n), First(n), 0) /\ m \in 0 .. Numbers - 1
        /\ Follows(First(m), Second(n), 0) /\ First(n) \in Frames /\ Second(n) \in Frames
    BY <1>2, FollowsInMessage, FrameIs
  <1>5. /\ r \in Seq(Frames) /\ Len(r) = Len(q) + 2 /\ r # <<>>
        /\ \A i \in 1 .. Len(q) : r[i] = q[i]
        /\ r[Len(q) + 1] = First(n) /\ r[Len(q) + 2] = Second(n)
    <2> DEFINE p == <<First(n), Second(n)>>
    <2>1. p \in Seq(Frames) /\ Len(p) = 2 /\ p[1] = First(n) /\ p[2] = Second(n)
      BY <1>4
    <2>2. r = q \o p
      OBVIOUS
    <2> HIDE DEF p, q, r, n, m
    <2>3. /\ r \in Seq(Frames) /\ Len(r) = Len(q) + Len(p)
          /\ \A i \in 1 .. Len(q) + Len(p) :
               r[i] = IF i <= Len(q) THEN q[i] ELSE p[i - Len(q)]
      BY <1>2, <2>1, <2>2, ConcatProperties
    <2>4. /\ Len(q) + 1 \in 1 .. Len(q) + Len(p) /\ Len(q) + 2 \in 1 .. Len(q) + Len(p)
          /\ (Len(q) + 1) - Len(q) = 1 /\ (Len(q) + 2) - Len(q) = 2
          /\ ~(Len(q) + 1 <= Len(q)) /\ ~(Len(q) + 2 <= Len(q))
      BY <1>2, <2>1
    <2>5. r[Len(q) + 1] = First(n) /\ r[Len(q) + 2] = Second(n)
      BY <2>1, <2>3, <2>4
    <2>6. r # <<>>
      BY <1>2, <2>1, <2>3
    <2> QED BY <1>2, <2>1, <2>3, <2>5, <2>6
  <1>6. TypeOK'
    <2>1. inbox' \in [Side -> Seq(Frames)]
      BY <1>1, <1>5, PartsOf DEF TypeOK
    <2>2. arrived' \in [Side -> 0 .. Numbers - 1]
      BY <1>1, <1>4 DEF TypeOK
    <2> QED BY <1>1, <2>1, <2>2 DEF TypeOK, set_up, app_vars
  <1>7. \A s \in Side : inbox[s] # <<>> => inbox'[s] # <<>>
    BY <1>3, <1>5
  <1>8. Counted' /\ InHand' /\ Begun' /\ Halfway'
    <2>1. Counted' /\ Halfway'
      BY <1>1 DEF RelayInv, Counted, Halfway, app_vars
    <2>2. InHand' /\ Begun'
      BY <1>1, <1>7 DEF RelayInv, InHand, Begun, set_up, TypeOK
    <2> QED BY <2>1, <2>2
  <1>9. Ordered'
    <2> SUFFICES ASSUME NEW s \in Side
        PROVE /\ \A i \in 1 .. Len(inbox'[s]) - 1 : Follows(inbox'[s][i + 1], inbox'[s][i], 0)
              /\ inbox'[s] # <<>> => Follows(First(arrived'[s]), inbox'[s][Len(inbox'[s])], 0)
              /\ NextIn(s)' = NextIn(s)
      BY <1>1 DEF RelayInv, Ordered, Holding
    <2>1. /\ \A i \in 1 .. Len(inbox[s]) - 1 : Follows(inbox[s][i + 1], inbox[s][i], 0)
          /\ inbox[s] # <<>> => Follows(First(arrived[s]), inbox[s][Len(inbox[s])], 0)
      BY DEF RelayInv, Ordered
    <2>2. CASE s # x
      BY <1>3, <2>1, <2>2 DEF NextIn
    <2>3. CASE s = x
      <3>1. inbox'[s] = r /\ inbox[s] = q /\ arrived'[s] = m /\ arrived[s] = n
        BY <1>3, <2>3
      <3>2. NextIn(s)' = r[1] /\ NextIn(s) = IF q = <<>> THEN First(n) ELSE q[1]
        BY <1>5, <3>1 DEF NextIn
      <3> HIDE DEF q, r, n, m
      <3>3. \A i \in 1 .. Len(r) - 1 : Follows(r[i + 1], r[i], 0)
        <4> SUFFICES ASSUME NEW i \in 1 .. Len(r) - 1 PROVE Follows(r[i + 1], r[i], 0)
          OBVIOUS
        <4>1. CASE i < Len(q)
          <5>1. i \in 1 .. Len(q) - 1 /\ i + 1 \in 1 .. Len(q) /\ i \in 1 .. Len(q)
            BY <1>2, <1>5, <4>1
          <5> QED BY <1>5, <2>1, <3>1, <5>1
        <4>2. CASE i = Len(q)
          <5>1. q # <<>> /\ i \in 1 .. Len(q)
            BY <1>2, <4>2
          <5> QED BY <1>5, <2>1, <3>1, <4>2, <5>1
        <4>3. CASE i = Len(q) + 1
          <5>1. i + 1 = Len(q) + 2
            BY <1>2, <4>3
          <5> QED BY <1>4, <1>5, <4>3, <5>1
        <4> QED BY <1>2, <1>5, <4>1, <4>2, <4>3
      <3>4. Follows(First(m), r[Len(r)], 0)
        BY <1>4, <1>5
      <3>5. r[1] = IF q = <<>> THEN First(n) ELSE q[1]
        <4>1. CASE q = <<>>
          <5>1. Len(q) + 1 = 1
            BY <1>2, <4>1
          <5> QED BY <1>5, <4>1, <5>1
        <4>2. CASE q # <<>>
          <5>1. 1 \in 1 .. Len(q)
            BY <1>2, <4>2
          <5> QED BY <1>5, <4>2, <5>1
        <4> QED BY <4>1, <4>2
      <3> QED BY <3>1, <3>2, <3>3, <3>4, <3>5
    <2> QED BY <2>2, <2>3
  <1>10. Silenced'
    BY <1>1 DEF RelayInv, Silenced, Quiet, set_up, app_vars
  <1> QED BY <1>6, <1>8, <1>9, <1>10 DEF RelayInv

LEMMA PeersReadKeeps ==
  ASSUME RelayInv, NEW s, PeersRead(s)
  PROVE  RelayInv'
  <1>1. /\ full' \subseteq Side \cup {"capture"}
        /\ UNCHANGED <<set_up, stage, input, held, inbox, building, arrived, sent, lost, app_vars>>
        /\ TypeOK
    BY DEF PeersRead, RelayInv, TypeOK
  <1>2. TypeOK' /\ Counted' /\ InHand' /\ Begun' /\ Halfway'
    <2>1. TypeOK'
      BY <1>1 DEF TypeOK, set_up, app_vars
    <2>2. Counted' /\ InHand' /\ Begun' /\ Halfway'
      BY <1>1 DEF RelayInv, Counted, InHand, Begun, Halfway, set_up, app_vars
    <2> QED BY <2>1, <2>2
  <1>3. Ordered'
    BY <1>1 DEF RelayInv, Ordered, NextIn, Holding
  <1>4. Silenced'
    BY <1>1 DEF RelayInv, Silenced, Quiet, set_up, app_vars
  <1> QED BY <1>2, <1>3, <1>4 DEF RelayInv

LEMMA StutterKeeps ==
  ASSUME RelayInv, UNCHANGED vars
  PROVE  RelayInv'
  <1>1. UNCHANGED <<set_up, stage, input, stream, app_vars>>
    BY DEF vars
  <1>2. TypeOK'
    BY <1>1 DEF RelayInv, TypeOK, set_up, stream, app_vars
  <1>3. Counted' /\ InHand' /\ Begun' /\ Halfway'
    BY <1>1 DEF RelayInv, Counted, InHand, Begun, Halfway, set_up, stream, app_vars
  <1>4. Ordered'
    BY <1>1 DEF RelayInv, Ordered, NextIn, Holding, stream
  <1>5. Silenced'
    BY <1>1 DEF RelayInv, Silenced, Quiet, set_up, app_vars
  <1> QED BY <1>2, <1>3, <1>4, <1>5 DEF RelayInv

LEMMA StepKeeps ==
  ASSUME RelayInv, [Next]_vars
  PROVE  RelayInv'
  <1>1. CASE HandlePipe
    BY <1>1, HandlePipeKeeps
  <1>2. CASE PollReturns
    BY <1>2, PollReturnsKeeps
  <1>3. CASE ReadFrame
    BY <1>3, ReadFrameKeeps
  <1>4. CASE ReadNothing
    BY <1>4, ReadNothingKeeps
  <1>5. CASE SendFrame
    BY <1>5, SendFrameKeeps
  <1>6. CASE Delimit
    BY <1>6, DelimitKeeps
  <1>7. CASE Copy
    BY <1>7, CopyKeeps
  <1>8. CASE SendFails
    BY <1>8, SendFailsKeeps
  <1>9. CASE Interrupted
    BY <1>9, InterruptedKeeps
  <1>10. CASE Command
    BY <1>10, CommandKeeps
  <1>11. CASE ReadAck
    BY <1>11, ReadAckKeeps
  <1>12. CASE \E s \in Side : Arrive(s)
    BY <1>12, ArriveKeeps
  <1>13. CASE \E s \in Side \cup {"capture"} : PeersRead(s)
    BY <1>13, PeersReadKeeps
  <1>14. CASE UNCHANGED vars
    BY <1>14, StutterKeeps
  <1> QED BY <1>1, <1>2, <1>3, <1>4, <1>5, <1>6, <1>7, <1>8, <1>9, <1>10, <1>11, <1>12, <1>13, <1>14
          DEF Next, Handler

-----------------------------------------------------------------------------
(* What every behaviour of a relay keeps: what was sent, is in hand, waits   *)
(* and arrives is one sequence, and who is paused watches the pipe alone.    *)
THEOREM RelayInvariance == Spec => []RelayInv
  <1>1. Init => RelayInv
    BY Initially
  <1>2. RelayInv /\ [Next]_vars => RelayInv'
    BY StepKeeps
  <1> QED BY <1>1, <1>2, PTL DEF Spec

(* The variables keep their types; the poller never lists a socket twice.   *)
THEOREM RelayTypes == Spec => []TypeOK
  <1>1. RelayInv => TypeOK
    BY DEF RelayInv
  <1> QED BY <1>1, RelayInvariance, PTL

LEMMA RelayKeepsOrder == RelayInv => RelayedInOrder
  <1> SUFFICES ASSUME RelayInv, NEW s \in Side
      PROVE LET p == Coming(s)
            IN /\ Follows(p[1], sent[s], lost[s])
               /\ \A i \in 1 .. Len(p) - 1 : Follows(p[i + 1], p[i], 0)
               /\ input = s /\ held # <<>> /\ held[1].part = 2 /\ lost[s] = 0 =>
                    building[Output] # <<>> /\ Last(building[Output]) = Parts(held[1].number)[1]
               /\ \A i \in DOMAIN building[s] : i > 1 => building[s][i] # Delimiter
    BY DEF RelayedInOrder
  <1> DEFINE q == inbox[s]
             a == First(arrived[s])
             h == IF input = s THEN held ELSE <<>>
             w == q \o <<a>>
             p == h \o w
  <1>1. TypeOK
    BY DEF RelayInv
  <1>2. /\ q \in Seq(Frames) /\ Len(q) \in Nat /\ a \in Frames
        /\ held # <<>> => held = <<held[1]>> /\ held[1] \in Frames
    BY <1>1, StreamType
  <1>3. /\ \A i \in 1 .. Len(q) - 1 : Follows(q[i + 1], q[i], 0)
        /\ q # <<>> => Follows(a, q[Len(q)], 0)
        /\ Holding(s) => Follows(NextIn(s), held[1], 0) /\ Follows(held[1], sent[s], lost[s])
        /\ ~Holding(s) => Follows(NextIn(s), sent[s], lost[s])
    BY DEF RelayInv, Ordered
  <1>4. NextIn(s) = IF q = <<>> THEN a ELSE q[1]
    BY DEF NextIn
  <1>5. Coming(s) = p
    <2>1. Coming(s) = (h \o q) \o <<a>>
      BY PartsOf DEF Coming
    <2>4. h = <<>> \/ (h = <<held[1]>> /\ held[1] \in Frames)
      BY <1>2
    <2> HIDE DEF h, q, a
    <2>5. h \in Seq(Frames)
      <3>1. CASE h = <<>>
        BY <3>1
      <3>2. CASE h = <<held[1]>> /\ held[1] \in Frames
        <4> DEFINE g == held[1]
        <4>1. h = <<g>> /\ g \in Frames
          BY <3>2
        <4> HIDE DEF g
        <4> QED BY <4>1
      <3> QED BY <2>4, <3>1, <3>2
    <2>6. <<a>> \in Seq(Frames)
      BY <1>2
    <2>2. h \in Seq(Frames) /\ q \in Seq(Frames) /\ <<a>> \in Seq(Frames)
      BY <1>2, <2>5, <2>6
    <2>3. (h \o q) \o <<a>> = h \o (q \o <<a>>)
      BY <2>2, ConcatAssociative
    <2> QED BY <2>1, <2>3
  <1>6. /\ w \in Seq(Frames) /\ Len(w) = Len(q) + 1 /\ w[1] = NextIn(s)
        /\ \A i \in 1 .. Len(w) - 1 : Follows(w[i + 1], w[i], 0)
    <2>1. <<a>> \in Seq(Frames) /\ Len(<<a>>) = 1 /\ <<a>>[1] = a
      BY <1>2
    <2> HIDE DEF q, a
    <2>2. /\ w \in Seq(Frames) /\ Len(w) = Len(q) + 1
          /\ \A i \in 1 .. Len(q) + 1 : w[i] = IF i <= Len(q) THEN q[i] ELSE <<a>>[i - Len(q)]
      BY <1>2, <2>1, ConcatProperties
    <2>3. w[Len(q) + 1] = a /\ \A i \in 1 .. Len(q) : w[i] = q[i]
      BY <1>2, <2>1, <2>2
    <2> HIDE DEF w
    <2>4. w[1] = NextIn(s)
      <3>1. CASE q = <<>>
        <4>1. Len(q) + 1 = 1
          BY <3>1
        <4> QED BY <1>4, <2>3, <3>1, <4>1
      <3>2. CASE q # <<>>
        <4>1. 1 \in 1 .. Len(q)
          BY <1>2, <3>2
        <4> QED BY <1>4, <2>3, <3>2, <4>1
      <3> QED BY <3>1, <3>2
    <2>5. ASSUME NEW i \in 1 .. Len(w) - 1 PROVE Follows(w[i + 1], w[i], 0)
      <3>1. i \in 1 .. Len(q) /\ w[i] = q[i]
        BY <1>2, <2>2, <2>3
      <3>2. CASE i = Len(q)
        <4>1. q # <<>>
          BY <1>2, <3>1
        <4> QED BY <1>3, <2>3, <3>1, <3>2, <4>1
      <3>3. CASE i # Len(q)
        <4>1. i \in 1 .. Len(q) - 1 /\ i + 1 \in 1 .. Len(q)
          BY <1>2, <3>1, <3>3
        <4> QED BY <1>3, <2>3, <3>1, <4>1
      <3> QED BY <3>2, <3>3
    <2> QED BY <2>2, <2>4, <2>5
  <1>7. Follows(p[1], sent[s], lost[s]) /\ \A i \in 1 .. Len(p) - 1 : Follows(p[i + 1], p[i], 0)
    <2>1. CASE h = <<>>
      <3>1. p = w
        <4> HIDE DEF h, w
        <4>1. w \in Seq(Frames)
          BY <1>6
        <4> QED BY <2>1, <4>1, ConcatEmptySeq
      <3>2. ~Holding(s)
        BY <2>1 DEF Holding
      <3> QED BY <1>3, <1>6, <3>1, <3>2
    <2>2. CASE h # <<>>
      <3>1. Holding(s) /\ h = <<held[1]>> /\ held[1] \in Frames
        BY <1>2, <2>2 DEF Holding
      <3> DEFINE g == held[1]
      <3>7. h = <<g>> /\ g \in Frames
        BY <3>1
      <3> HIDE DEF h, w, g, q, a
      <3>2. h \in Seq(Frames) /\ Len(h) = 1 /\ h[1] = g
        BY <3>7
      <3>3. /\ Len(p) = 1 + Len(w)
            /\ \A i \in 1 .. 1 + Len(w) : p[i] = IF i <= 1 THEN h[i] ELSE w[i - 1]
        <4>1. /\ Len(h \o w) = Len(h) + Len(w)
              /\ \A i \in 1 .. Len(h) + Len(w) :
                   (h \o w)[i] = IF i <= Len(h) THEN h[i] ELSE w[i - Len(h)]
          BY <1>6, <3>2, ConcatProperties
        <4> HIDE DEF p
        <4>2. p = h \o w
          BY DEF p
        <4> QED BY <3>2, <4>1, <4>2
      <3> HIDE DEF p
      <3>4. p[1] = g /\ \A i \in 1 .. Len(w) : p[i + 1] = w[i]
        BY <1>2, <1>6, <3>2, <3>3
      <3>5. Follows(p[1], sent[s], lost[s]) /\ Follows(w[1], g, 0)
        BY <1>3, <1>6, <3>1, <3>4 DEF g
      <3>6. ASSUME NEW i \in 1 .. Len(p) - 1 PROVE Follows(p[i + 1], p[i], 0)
        <4>1. i \in 1 .. Len(w) /\ p[i + 1] = w[i]
          BY <1>2, <1>6, <3>3, <3>4
        <4>2. CASE i = 1
          BY <3>4, <3>5, <4>1, <4>2
        <4>3. CASE i # 1
          <5>1. i - 1 \in 1 .. Len(w) - 1 /\ (i - 1) + 1 = i
            BY <1>2, <1>6, <4>1, <4>3
          <5>2. p[i] = w[i - 1]
            BY <1>2, <1>6, <3>4, <5>1
          <5>3. Follows(w[i], w[i - 1], 0)
            BY <1>6, <5>1
          <5> QED BY <4>1, <5>2, <5>3
        <4> QED BY <4>2, <4>3
      <3> QED BY <3>5, <3>6
    <2> QED BY <2>1, <2>2
  <1>8. input = s /\ held # <<>> /\ held[1].part = 2 /\ lost[s] = 0 =>
          building[Output] # <<>> /\ Last(building[Output]) = Parts(held[1].number)[1]
    <2> SUFFICES ASSUME input = s, held # <<>>, held[1].part = 2, lost[s] = 0
        PROVE building[Output] # <<>> /\ Last(building[Output]) = Parts(held[1].number)[1]
      OBVIOUS
    <2>1. Follows(held[1], sent[s], 0) /\ held[1] \in Frames /\ sent[s] \in Frames
      BY <1>1, <1>3, StreamType DEF Holding
    <2>2. sent[s] = First(held[1].number)
      BY <2>1, FollowsFirst
    <2>3. sent[s].part = 1
      BY <2>2 DEF First
    <2> QED BY <2>2, <2>3, Opposites, PartsOf DEF RelayInv, Halfway
  <1>9. \A i \in DOMAIN building[s] : i > 1 => building[s][i] # Delimiter
    BY DEF RelayInv, Begun
  <1> HIDE DEF p
  <1> QED BY <1>5, <1>7, <1>8, <1>9

(* s_switch relays the frames of a side in order and each once, and leaves  *)
(* out only those whose send failed; the second part of a message whose first *)
(* was sent completes that message.                                          *)
THEOREM RelayedInOrderAlways == Spec => []RelayedInOrder
  BY RelayInvariance, RelayKeepsOrder, PTL

(* From the acknowledgement of PAUSE to the next command the handler is at   *)
(* its poll, with nothing but the pipe in the list.                          *)
LEMMA SilentStep ==
  ASSUME RelayInv, [Next]_vars, paused
  PROVE  UNCHANGED <<held, building, sent>>
  <1>1. stage \in {"poll", "pipe", "ended", "aborted"}
    BY DEF RelayInv, Silenced, Quiet
  <1>2. CASE UNCHANGED vars
    BY <1>2 DEF vars, stream
  <1>3. CASE Next
    <2>1. ~(Delimit \/ ReadFrame \/ Copy \/ SendFrame \/ SendFails)
      BY <1>1 DEF Delimit, ReadFrame, Copy, SendFrame, SendFails
    <2>2. \/ HandlePipe \/ PollReturns \/ ReadNothing \/ Interrupted \/ Command \/ ReadAck
          \/ \E s \in Side : Arrive(s)
          \/ \E s \in Side \cup {"capture"} : PeersRead(s)
      BY <1>3, <2>1 DEF Next, Handler
    <2> QED BY <2>2 DEF HandlePipe, Handled, PollReturns, ReadNothing, Interrupted, PipeInterrupted,
              PollInterrupted, Command, ReadAck, Arrive, PeersRead, stream
  <1> QED BY <1>2, <1>3

(* Once PAUSE is acknowledged nothing is read or relayed before the next    *)
(* command, however many commands and messages were under way.               *)
THEOREM PausedSilentAlways == Spec => PausedSilent
  <1>1. RelayInv /\ [Next]_vars => [paused => UNCHANGED <<held, building, sent>>]_vars
    BY SilentStep
  <1> QED BY <1>1, RelayInvariance, PTL DEF Spec, PausedSilent

-----------------------------------------------------------------------------

(* What the calls under way are.                                            *)
ContextCalls ==
  \A t \in Threads :
    LET c == c_call[t]
    IN /\ c.op \in {"create", "base", "append", "close", "delete"} <=> c.of \in Objects
       /\ c.op \in {"create", "base", "append"} => c.at \in {"init", "make", "enter", "list"}
       /\ c.op \in {"close", "delete"} => c.at \in {"close", "remove"}
       /\ c.op = "threads" => t = "main" /\ c_kind = "QMNet" /\ c.at \in {"init", "make", "enter"}
       /\ c.op = "shutdown" => t = "main" /\ c_kind = "QMNet" /\ c.at \in {"busy", "destroy"}
       /\ c.op = "exit" => /\ t = "main" /\ c.at \in {"busy", "destroy", "base", "term"}
                           /\ \A u \in Threads \ {"main"} : c_call[u] = C!Idle
       /\ c.op = "none" => c.at = "idle"
       /\ c.op = "base" => c_kind = "QMNet"
       /\ c.at = "list" => C!AsContext(t)
       /\ c.at \in {"enter", "list"} => c_made > 0
       /\ c.at = "enter" /\ ~C!AsContext(t) => c_initialized

(* A call has its socket alone: one that is still to be made, or a live one  *)
(* of its thread.                                                            *)
ContextHolds ==
  \A t \in Threads :
    LET c == c_call[t]
        o == c.of
    IN o \in Objects =>
         /\ \A u \in Threads : c_call[u].of = o => u = t
         /\ IF c.op \in {"create", "base"} /\ c.at # "list" THEN ~C!Live(o)
            ELSE C!Live(o) /\ c_object[o].home = t
         /\ c.at = "list" => c_object[o].owner
         /\ c.at = "remove" /\ c_kind = "Context" => ~C!HasOpen(o)

(* What is known of every socket.                                           *)
ContextObjects ==
  \A o \in Objects :
    LET s == c_object[o]
    IN /\ C!HasOpen(o) => C!Live(o) /\ s.owner
       /\ s.home # "main" => "other thread" \in c_slips
       /\ C!Live(o) /\ s.owner /\ s.home = "main" => s.parent
       /\ C!Live(o) /\ s.owner /\ ~C!HasOpen(o) => "limit" \in c_slips
       /\ C!HasOpen(o) => "two contexts" \in c_slips \/ s.handle = c_made

(* How the list stands to the sockets.                                      *)
ContextListed ==
  /\ \A o \in Objects : C!Listed(o) /\ c_object[o].home = "main" =>
       /\ C!Live(o)
       /\ c_object[o].owner \/ \E t \in Threads : c_call[t].of = o /\ c_call[t].at = "remove"
  /\ \A o \in Objects : C!HasOpen(o) =>
       C!Listed(o) \/ \E t \in Threads : c_call[t].of = o /\ c_call[t].at = "list"
  /\ "other thread" \notin c_slips =>
       /\ IsInjective(c_sockets)
       /\ \A t \in Threads : c_call[t].at = "list" /\ c_call[t].op # "append" => ~C!Listed(c_call[t].of)

(* How the count stands to the list.                                        *)
ContextCounted ==
  /\ c_initialized => c_made > 0
  /\ c_kind = "QMNet" =>
       /\ "shutdown" \notin c_slips => c_open <= Len(c_sockets)
       /\ "base" \notin c_slips => c_open >= Len(c_sockets)
       /\ c_initialized \/ c_open <= 0
       /\ "base" \notin c_slips => \A t \in Threads : c_call[t].at # "list"
  /\ c_stray > 0 => c_slips \cap {"other thread", "again"} # {}

(* What the end has seen to.                                                *)
ContextEnd ==
  c_exit = "running" =>
    /\ c_call["main"].at = "base" /\ c_kind = "QMNet" => "shutdown" \in c_slips \/ ~c_initialized
    /\ c_call["main"].at = "term" => c_sockets = <<>>

ContextInv ==
  /\ C!TypeOK /\ ContextCalls /\ ContextHolds /\ ContextObjects /\ ContextListed
  /\ ContextCounted /\ ContextEnd

-----------------------------------------------------------------------------
LEMMA ContextAssumption == "main" \in Threads /\ IsFiniteSet(Objects) /\ "none" \notin Objects
  BY PartsAssumption DEF C!ContextConstants, C!IsFiniteSet, IsFiniteSet

(* The list without one socket.                                             *)
LEMMA SocketsWithoutIs ==
  ASSUME C!TypeOK, NEW o \in Objects
  PROVE  /\ C!SocketsWithout(o) \in Seq(Objects)
         /\ C!Range(C!SocketsWithout(o)) = C!Range(c_sockets) \ {o}
         /\ C!IsInjective(c_sockets) => C!IsInjective(C!SocketsWithout(o))
         /\ Len(C!SocketsWithout(o)) \in Nat /\ Len(c_sockets) \in Nat
         /\ Len(C!SocketsWithout(o)) <= Len(c_sockets)
         /\ Len(C!SocketsWithout(o)) = Len(c_sockets) <=> ~C!Listed(o)
  <1> DEFINE q == c_sockets
             w == Without(q, {o})
  <1>1. q \in Seq(Objects)
    BY DEF C!TypeOK
  <1>2. C!SocketsWithout(o) = w
    BY DEF C!SocketsWithout, C!Without, C!Kept, C!Rank, C!Cardinality, Cardinality, Without, Kept, Rank
  <1>3. w \in Seq(Objects) /\ Elements(w) = Elements(q) \ {o}
    BY <1>1, WithoutOf
  <1>4. /\ Len(w) \in Nat /\ Len(q) \in Nat /\ Len(w) <= Len(q)
        /\ Len(w) = Len(q) <=> Elements(q) \cap {o} = {}
    BY <1>1, WithoutLength
  <1>5. (\A i, j \in DOMAIN q : q[i] = q[j] => i = j) =>
          \A i, j \in DOMAIN w : w[i] = w[j] => i = j
    BY <1>1, WithoutInjective
  <1> HIDE DEF q, w
  <1>6. \A s : C!Range(s) = Elements(s)
    BY DEF C!Range, Elements
  <1>7. C!Listed(o) <=> o \in Elements(q)
    BY <1>6 DEF C!Listed, q
  <1> QED BY <1>2, <1>3, <1>4, <1>5, <1>6, <1>7 DEF C!IsInjective, q

LEMMA SocketsAppended ==
  ASSUME NEW q \in Seq(Objects), NEW o \in Objects
  PROVE  /\ Append(q, o) \in Seq(Objects)
         /\ C!Range(Append(q, o)) = C!Range(q) \cup {o}
         /\ C!IsInjective(q) /\ o \notin C!Range(q) => C!IsInjective(Append(q, o))
         /\ Len(Append(q, o)) = Len(q) + 1 /\ Len(q) \in Nat
  <1>1. \A s : C!Range(s) = Elements(s)
    BY DEF C!Range, Elements
  <1>2. /\ Append(q, o) \in Seq(Objects)
        /\ Elements(Append(q, o)) = Elements(q) \cup {o}
        /\ Len(Append(q, o)) = Len(q) + 1 /\ Len(q) \in Nat
        /\ (\A i, j \in DOMAIN q : q[i] = q[j] => i = j) /\ o \notin Elements(q) =>
              \A i, j \in DOMAIN Append(q, o) : Append(q, o)[i] = Append(q, o)[j] => i = j
    BY AppendElements
  <1> QED BY <1>1, <1>2 DEF C!IsInjective

LEMMA ContextInitially == C!Init => ContextInv
  <1> SUFFICES ASSUME C!Init PROVE ContextInv
    OBVIOUS
  <1>1. C!TypeOK
    <2>1. c_sockets \in Seq(Objects) /\ c_exit \in C!Exits
      BY DEF C!Init, C!Exits
    <2>2. c_object \in [Objects -> [life : {"none", "live", "deleted"}, home : Threads,
                             parent : BOOLEAN, owner : BOOLEAN, handle : {-1} \cup 0 .. c_made]]
      BY ContextAssumption DEF C!Init, C!Nothing
    <2>3. c_call \in [Threads ->
            [at : {"idle", "init", "make", "enter", "list", "close", "remove",
                   "busy", "destroy", "base", "term"},
             op : {"none", "create", "base", "append", "close", "delete", "threads", "shutdown", "exit"},
             of : Objects \cup {"none"}]]
      BY DEF C!Init, C!Idle
    <2>4. /\ c_kind \in {"QMNet", "Context"} /\ c_max_sockets \in Limits /\ c_made = 0
          /\ c_initialized = FALSE /\ c_open = 0 /\ c_stray = 0 /\ c_slips = {}
      BY DEF C!Init
    <2>5. c_made \in Nat /\ c_open \in Int /\ c_stray \in Nat
      BY <2>4
    <2>6. c_initialized \in BOOLEAN
      BY <2>4, Zenon
    <2> QED BY <2>1, <2>2, <2>3, <2>4, <2>5, <2>6 DEF C!TypeOK
  <1>2. ContextCalls /\ ContextHolds
    BY ContextAssumption DEF C!Init, ContextCalls, ContextHolds, C!Idle
  <1>3. ContextObjects
    BY DEF C!Init, ContextObjects, C!Nothing, C!HasOpen, C!Live
  <1>4. ContextListed
    BY DEF C!Init, ContextListed, C!Nothing, C!HasOpen, C!Listed, C!Range, IsInjective, C!Idle
  <1>5. ContextCounted /\ ContextEnd
    BY DEF C!Init, ContextCounted, ContextEnd, C!Idle
  <1> QED BY <1>1, <1>2, <1>3, <1>4, <1>5 DEF ContextInv

(* A step that only moves a call that has no socket, or begins one.          *)
LEMMA CallTypes ==
  ASSUME C!TypeOK, NEW t \in Threads
  PROVE  /\ c_call[t].at \in {"idle", "init", "make", "enter", "list", "close", "remove",
                   "busy", "destroy", "base", "term"}
         /\ c_call[t].op \in {"none", "create", "base", "append", "close", "delete", "threads", "shutdown", "exit"}
         /\ c_call[t].of \in Objects \cup {"none"}
         /\ c_call[t] = [at |-> c_call[t].at, op |-> c_call[t].op, of |-> c_call[t].of]
  BY DEF C!TypeOK

(* The list stays, and so do those who are about to enter their socket or to *)
(* remove it. A socket that changes is not open, and if it stays in the list  *)
(* it is as the list wants it.                                               *)
LEMMA ListedAfter ==
  ASSUME ContextListed, UNCHANGED c_sockets, c_slips \subseteq c_slips',
         \A u \in Threads : c_call[u].at \in {"list", "remove"} => c_call'[u] = c_call[u],
         \A u \in Threads : c_call'[u].at = "list" => c_call'[u] = c_call[u],
         \A o \in Objects :
           \/ c_object'[o] = c_object[o]
           \/ /\ ~(C!HasOpen(o))'
              /\ c_object'[o].home # "main" \/ ~C!Listed(o)
                 \/ /\ (C!Live(o))'
                    /\ c_object'[o].owner \/ \E t \in Threads : c_call'[t].of = o /\ c_call'[t].at = "remove"
  PROVE  ContextListed'
  <1>1. ASSUME NEW o \in Objects, (C!Listed(o))', c_object'[o].home = "main"
        PROVE  /\ (C!Live(o))'
               /\ c_object'[o].owner \/ \E t \in Threads : c_call'[t].of = o /\ c_call'[t].at = "remove"
    <2>1. C!Listed(o)
      BY <1>1 DEF C!Listed
    <2>2. CASE c_object'[o] = c_object[o]
      <3>1. C!Live(o) /\ (c_object[o].owner \/ \E t \in Threads : c_call[t].of = o /\ c_call[t].at = "remove")
        <4>1. c_object[o].home = "main"
          BY <1>1, <2>2
        <4> QED BY <2>1, <4>1 DEF ContextListed
      <3>2. ASSUME NEW t \in Threads, c_call[t].of = o, c_call[t].at = "remove"
            PROVE  c_call'[t].of = o /\ c_call'[t].at = "remove"
        BY <3>2
      <3> QED BY <2>2, <3>1, <3>2 DEF C!Live
    <2> QED BY <1>1, <2>1, <2>2
  <1>2. ASSUME NEW o \in Objects, (C!HasOpen(o))'
        PROVE  (C!Listed(o))' \/ \E t \in Threads : c_call'[t].of = o /\ c_call'[t].at = "list"
    <2>1. C!Listed(o) \/ \E t \in Threads : c_call[t].of = o /\ c_call[t].at = "list"
      BY <1>2 DEF ContextListed, C!HasOpen
    <2>2. ASSUME NEW t \in Threads, c_call[t].of = o, c_call[t].at = "list"
          PROVE  c_call'[t].of = o /\ c_call'[t].at = "list"
      BY <2>2
    <2> QED BY <2>1, <2>2 DEF C!Listed
  <1>3. ASSUME "other thread" \notin c_slips'
        PROVE  /\ IsInjective(c_sockets')
               /\ \A t \in Threads : c_call'[t].at = "list" /\ c_call'[t].op # "append" => ~(C!Listed(c_call[t].of))'
    BY <1>3 DEF ContextListed, C!Listed
  <1> QED BY <1>1, <1>2, <1>3 DEF ContextListed, C!Listed

(* A call goes on, and the sockets and the list stay.                       *)
LEMMA CallMoves ==
  ASSUME ContextInv, NEW t \in Threads,
         UNCHANGED <<c_kind, c_max_sockets, c_made, c_initialized, c_sockets, c_open, c_object, c_stray>>,
         c_exit' \in C!Exits, c_slips \subseteq c_slips',
         c_slips' \subseteq {"other thread", "again", "limit", "base", "two contexts", "shutdown"},
         NEW c \in [at : {"idle", "init", "make", "enter", "close", "busy", "destroy", "base", "term"},
                    op : {"none", "create", "base", "append", "close", "delete", "threads", "shutdown", "exit"},
                    of : Objects \cup {"none"}],
         c_call' = [c_call EXCEPT ![t] = c], c_call[t].at \notin {"list", "remove"},
         ContextCalls', ContextHolds', ContextEnd'
  PROVE  ContextInv'
  <1>1. C!TypeOK'
    <2>1. c_call' \in [Threads ->
            [at : {"idle", "init", "make", "enter", "list", "close", "remove",
                   "busy", "destroy", "base", "term"},
             op : {"none", "create", "base", "append", "close", "delete", "threads", "shutdown", "exit"},
             of : Objects \cup {"none"}]]
      BY DEF ContextInv, C!TypeOK
    <2> QED BY <2>1 DEF ContextInv, C!TypeOK
  <1>2. c_call'[t] = c /\ \A u \in Threads : u # t => c_call'[u] = c_call[u]
    BY DEF ContextInv, C!TypeOK
  <1>3. ContextObjects'
    BY DEF ContextInv, ContextObjects, C!Live, C!HasOpen
  <1>4. ContextListed'
    <2>1. \A u \in Threads : c_call[u].at \in {"list", "remove"} \/ c_call'[u].at = "list"
            => c_call'[u] = c_call[u]
      BY <1>2
    <2> QED BY <2>1, ListedAfter DEF ContextInv
  <1>5. ContextCounted'
    <2>1. \A u \in Threads : c_call'[u].at = "list" => c_call[u].at = "list"
      BY <1>2
    <2> QED BY <2>1 DEF ContextInv, ContextCounted
  <1> QED BY <1>1, <1>3, <1>4, <1>5 DEF ContextInv

LEMMA SlipsStay ==
  ASSUME ContextInv, UNCHANGED <<c_exit, c_slips>>
  PROVE  /\ c_exit' \in C!Exits /\ c_slips \subseteq c_slips'
         /\ c_slips' \subseteq {"other thread", "again", "limit", "base", "two contexts", "shutdown"}
  BY DEF ContextInv, C!TypeOK

LEMMA StartKeeps ==
  ASSUME ContextInv, c_exit = "running", NEW t \in Threads, NEW o \in Objects,
         NEW op \in {"create", "append", "close", "delete", "base"},
         op = "base" => c_kind = "QMNet", C!Start(t, op, o)
  PROVE  ContextInv'
  <1> DEFINE at == IF op \in {"close", "delete"} THEN "close" ELSE "init"
             c == [at |-> at, op |-> op, of |-> o]
  <1>1. /\ c_call[t] = C!Idle /\ c_call["main"].op # "exit"
        /\ c_call' = [c_call EXCEPT ![t] = c]
        /\ UNCHANGED <<c_kind, c_max_sockets, c_made, c_initialized, c_sockets, c_open, c_object,
                       c_stray, c_exit, c_slips>>
    BY DEF C!Start
  <1>2. IF op \in {"create", "base"} THEN ~C!Live(o) /\ \A u \in Threads : c_call[u].of # o
        ELSE C!Live(o) /\ c_object[o].home = t
    BY DEF C!Start
  <1>3. c_call'[t] = c /\ \A u \in Threads : u # t => c_call'[u] = c_call[u]
    BY <1>1 DEF ContextInv, C!TypeOK
  <1>4. ContextCalls'
    BY <1>1, <1>3, ContextAssumption DEF ContextInv, ContextCalls, C!Idle, C!AsContext
  <1>5. ContextHolds'
    <2>1. \A u \in Threads : u # t => c_call[u].of # o
      BY <1>1, <1>2 DEF ContextInv, ContextHolds, ContextCalls
    <2> QED BY <1>1, <1>2, <1>3, <2>1, ContextAssumption DEF ContextInv, ContextHolds, C!Idle, C!Live, C!HasOpen
  <1>6. ContextEnd'
    BY <1>1, <1>3, ContextAssumption DEF ContextInv, ContextEnd
  <1>7. c \in [at : {"idle", "init", "make", "enter", "close", "busy", "destroy", "base", "term"},
               op : {"none", "create", "base", "append", "close", "delete", "threads", "shutdown", "exit"},
               of : Objects \cup {"none"}]
    OBVIOUS
  <1>8. c_call[t].at \notin {"list", "remove"}
    BY <1>1 DEF C!Idle
  <1> HIDE DEF c
  <1> QED BY <1>1, <1>4, <1>5, <1>6, <1>7, <1>8, CallMoves, SlipsStay

LEMMA TestInitializedKeeps ==
  ASSUME ContextInv, c_exit = "running", NEW t \in Threads, C!TestInitialized(t)
  PROVE  ContextInv'
  <1> DEFINE at == IF (IF C!AsContext(t) THEN c_made > 0 ELSE c_initialized) THEN "enter" ELSE "make"
             c == [c_call[t] EXCEPT !.at = at]
  <1>1. /\ c_call[t].at = "init" /\ c_call' = [c_call EXCEPT ![t] = c]
        /\ UNCHANGED <<c_kind, c_max_sockets, c_made, c_initialized, c_sockets, c_open, c_object,
                       c_stray, c_exit, c_slips>>
    BY DEF C!TestInitialized, C!Goes
  <1>2. c_call'[t] = c /\ \A u \in Threads : u # t => c_call'[u] = c_call[u]
    BY <1>1 DEF ContextInv, C!TypeOK
  <1>a. /\ c_call[t].op \in {"none", "create", "base", "append", "close", "delete", "threads", "shutdown", "exit"}
        /\ c_call[t].of \in Objects \cup {"none"}
        /\ c_call[t] = [at |-> c_call[t].at, op |-> c_call[t].op, of |-> c_call[t].of]
    BY CallTypes DEF ContextInv
  <1>b. c = [at |-> at, op |-> c_call[t].op, of |-> c_call[t].of] /\ at \in {"enter", "make"}
    BY <1>a
  <1>3. c \in [at : {"idle", "init", "make", "enter", "close", "busy", "destroy", "base", "term"},
               op : {"none", "create", "base", "append", "close", "delete", "threads", "shutdown", "exit"},
               of : Objects \cup {"none"}]
    BY <1>a, <1>b
  <1>c. c.at = at /\ c.op = c_call[t].op /\ c.of = c_call[t].of
    BY <1>b
  <1> HIDE DEF c
  <1>4. ContextCalls'
    <2>1. at = "enter" => c_made > 0
      BY <1>1 DEF ContextInv, ContextCounted
    <2>2. at = "enter" /\ ~C!AsContext(t) => c_initialized
      OBVIOUS
    <2> HIDE DEF at
    <2> QED BY <1>1, <1>2, <1>b, <1>c, <2>1, <2>2, ContextAssumption DEF ContextInv, ContextCalls, C!Idle, C!AsContext
  <1>5. ContextHolds'
    BY <1>1, <1>2, <1>b, <1>c, ContextAssumption DEF ContextInv, ContextHolds, C!Live, C!HasOpen
  <1>6. ContextEnd'
    BY <1>1, <1>2, <1>b, <1>c, ContextAssumption DEF ContextInv, ContextEnd
  <1> QED BY <1>1, <1>3, <1>4, <1>5, <1>6, CallMoves, SlipsStay

(* A call of the context's own thread that has no socket begins or goes on.  *)
LEMMA MainMoves ==
  ASSUME ContextInv, c_exit = "running",
         NEW c \in [at : {"init", "busy", "destroy", "base"}, op : {"threads", "shutdown", "exit"}, of : {"none"}],
         c_call' = [c_call EXCEPT !["main"] = c],
         c_call["main"].at \in {"idle", "busy"}, c_call["main"].of = "none",
         c.op = "threads" => c.at = "init" /\ c_kind = "QMNet",
         c.op = "shutdown" => c.at \in {"busy", "destroy"} /\ c_kind = "QMNet",
         c.op = "exit" => c.at # "init" /\ \A u \in Threads \ {"main"} : c_call[u] = C!Idle,
         c_call["main"].op = "exit" => c.op = "exit",
         c.at = "base" /\ c_kind = "QMNet" => ~c_initialized,
         UNCHANGED <<c_kind, c_max_sockets, c_made, c_initialized, c_sockets, c_open, c_object,
                     c_stray, c_exit, c_slips>>
  PROVE  ContextInv'
  <1>2. c_call'["main"] = c /\ \A u \in Threads : u # "main" => c_call'[u] = c_call[u]
    BY ContextAssumption DEF ContextInv, C!TypeOK
  <1>3. ContextCalls'
    BY <1>2, ContextAssumption DEF ContextInv, ContextCalls, C!Idle, C!AsContext
  <1>4. ContextHolds'
    BY <1>2, ContextAssumption DEF ContextInv, ContextHolds, C!Live, C!HasOpen
  <1>5. ContextEnd'
    BY <1>2, ContextAssumption DEF ContextInv, ContextEnd
  <1> QED BY <1>3, <1>4, <1>5, CallMoves, SlipsStay, ContextAssumption

LEMMA StartSetIoThreadsKeeps ==
  ASSUME ContextInv, c_exit = "running", C!StartSetIoThreads
  PROVE  ContextInv'
  <1> DEFINE c == [at |-> "init", op |-> "threads", of |-> "none"]
  <1>1. /\ c_call' = [c_call EXCEPT !["main"] = c] /\ c_kind = "QMNet" /\ c_call["main"] = C!Idle
        /\ UNCHANGED <<c_kind, c_max_sockets, c_made, c_initialized, c_sockets, c_open, c_object,
                       c_stray, c_exit, c_slips>>
    BY DEF C!StartSetIoThreads
  <1>2. /\ c \in [at : {"init", "busy", "destroy", "base"}, op : {"threads", "shutdown", "exit"}, of : {"none"}]
        /\ c.op = "threads" /\ c.at = "init"
    OBVIOUS
  <1>3. c_call["main"].at = "idle" /\ c_call["main"].of = "none" /\ c_call["main"].op = "none"
    BY <1>1 DEF C!Idle
  <1> HIDE DEF c
  <1> QED BY <1>1, <1>2, <1>3, MainMoves

LEMMA StartShutdownKeeps ==
  ASSUME ContextInv, c_exit = "running", NEW op \in {"shutdown", "exit"}, C!StartShutdown(op)
  PROVE  ContextInv'
  <1> DEFINE c == [at |-> IF c_kind = "QMNet" /\ c_initialized THEN "busy" ELSE "base",
                   op |-> op, of |-> "none"]
  <1>1. /\ c_call' = [c_call EXCEPT !["main"] = c] /\ c_call["main"] = C!Idle
        /\ op = "shutdown" => c_kind = "QMNet" /\ c_initialized
        /\ op = "exit" => \A u \in Threads : c_call[u] = C!Idle
        /\ UNCHANGED <<c_kind, c_max_sockets, c_made, c_initialized, c_sockets, c_open, c_object,
                       c_stray, c_exit, c_slips>>
    BY DEF C!StartShutdown
  <1>2. /\ c \in [at : {"init", "busy", "destroy", "base"}, op : {"threads", "shutdown", "exit"}, of : {"none"}]
        /\ c.op = op /\ c.at \in {"busy", "base"}
        /\ c.at = "base" => ~(c_kind = "QMNet" /\ c_initialized)
    OBVIOUS
  <1>3. c_call["main"].at = "idle" /\ c_call["main"].of = "none" /\ c_call["main"].op = "none"
    BY <1>1 DEF C!Idle
  <1> HIDE DEF c
  <1> QED BY <1>1, <1>2, <1>3, MainMoves

LEMMA ReadBusyKeeps ==
  ASSUME ContextInv, c_exit = "running", C!ReadBusy
  PROVE  ContextInv'
  <1> DEFINE c == [c_call["main"] EXCEPT !.at = "destroy"]
  <1>1. /\ c_call["main"].at = "busy" /\ c_call' = [c_call EXCEPT !["main"] = c]
        /\ UNCHANGED <<c_kind, c_max_sockets, c_made, c_initialized, c_sockets, c_open, c_object,
                       c_stray, c_exit, c_slips>>
    BY DEF C!ReadBusy, C!Goes
  <1>2. c_call["main"].op \in {"shutdown", "exit"} /\ c_call["main"].of = "none"
    BY <1>1, CallTypes, ContextAssumption DEF ContextInv, ContextCalls
  <1>3. c_call["main"] = [at |-> c_call["main"].at, op |-> c_call["main"].op, of |-> c_call["main"].of]
    BY CallTypes, ContextAssumption DEF ContextInv
  <1>4. c = [at |-> "destroy", op |-> c_call["main"].op, of |-> "none"]
    BY <1>2, <1>3
  <1>5. /\ c \in [at : {"init", "busy", "destroy", "base"}, op : {"threads", "shutdown", "exit"}, of : {"none"}]
        /\ c.at = "destroy" /\ c.op = c_call["main"].op
    BY <1>2, <1>4
  <1>6. /\ c_call["main"].op = "exit" => \A u \in Threads \ {"main"} : c_call[u] = C!Idle
        /\ c_call["main"].op = "shutdown" => c_kind = "QMNet"
    BY ContextAssumption DEF ContextInv, ContextCalls
  <1> HIDE DEF c
  <1> QED BY <1>1, <1>2, <1>5, <1>6, MainMoves

(* What reset() does to the socket of a call.                               *)
LEMMA ResetRecord ==
  ASSUME NEW L, NEW H, NEW M, NEW b \in [life : L, home : H, parent : BOOLEAN, owner : BOOLEAN, handle : M],
         NEW p \in BOOLEAN, NEW N, NEW h \in N, NEW c,
         c = [b EXCEPT !.parent = p, !.owner = TRUE, !.handle = h]
  PROVE  /\ c \in [life : L, home : H, parent : BOOLEAN, owner : {TRUE}, handle : N]
         /\ c.parent = p /\ c.handle = h
  OBVIOUS

LEMMA Counting == ASSUME NEW n \in Nat PROVE -1 # n /\ n + 0 = n /\ n + 1 \in Nat
  OBVIOUS

LEMMA ResetDoes ==
  ASSUME ContextInv, NEW t \in Threads, c_call[t].at = "enter",
         c_call[t].op \in {"create", "base", "append"}, C!Reset(t)
  PROVE  /\ c_call[t].of \in Objects
         /\ c_object'[c_call[t].of] \in [life : {"live"}, home : {t}, parent : BOOLEAN, owner : {TRUE},
                                         handle : {-1, c_made}]
         /\ t = "main" => c_object'[c_call[t].of].parent
         /\ c_object'[c_call[t].of].handle = -1 => "limit" \in c_slips'
         /\ c_object' = [c_object EXCEPT ![c_call[t].of] = c_object'[c_call[t].of]]
         /\ \A p \in Objects : p # c_call[t].of => c_object'[p] = c_object[p]
         /\ c_slips \subseteq c_slips'
         /\ c_slips' \subseteq {"other thread", "again", "limit", "base", "two contexts", "shutdown"}
         /\ t # "main" => "other thread" \in c_slips'
         /\ c_call[t].op = "base" /\ c_kind = "QMNet" => "base" \in c_slips'
         /\ c_stray' \in Nat
         /\ c_stray' # c_stray => "again" \in c_slips'
         /\ c_made > 0
  <1> DEFINE o == c_call[t].of
             b == C!Before(t)
             again == b.owner /\ b.handle > 0
             limit == C!Handles >= c_max_sockets
             parent == b.parent \/ t = "main"
             handle == IF limit THEN -1 ELSE c_made
             new == UNION {IF again THEN {"again"} ELSE {},
                           IF limit THEN {"limit"} ELSE {},
                           IF t # "main" THEN {"other thread"} ELSE {},
                           IF c_call[t].op = "base" /\ c_kind = "QMNet" THEN {"base"} ELSE {}}
  <1>1. o \in Objects /\ c_made > 0
    BY DEF ContextInv, ContextCalls
  <1>2. c_object \in [Objects -> [life : {"none", "live", "deleted"}, home : Threads,
                             parent : BOOLEAN, owner : BOOLEAN, handle : {-1} \cup 0 .. c_made]]
    BY DEF ContextInv, C!TypeOK
  <1>3. b \in [life : {"live"}, home : {t}, parent : BOOLEAN, owner : BOOLEAN, handle : {-1} \cup 0 .. c_made]
    <2>1. CASE c_call[t].op = "append"
      <3>1. C!Live(o) /\ c_object[o].home = t
        BY <1>1, <2>1 DEF ContextInv, ContextHolds
      <3> QED BY <1>1, <1>2, <2>1, <3>1 DEF C!Before, C!Live
    <2>2. CASE c_call[t].op # "append"
      <3> DEFINE nothing == C!Nothing
      <3>a. nothing = [life |-> "none", home |-> "main", parent |-> FALSE, owner |-> FALSE, handle |-> 0]
        BY DEF C!Nothing
      <3>b. C!Fresh(t) = [nothing EXCEPT !.life = "live", !.home = t]
        BY DEF C!Fresh
      <3> HIDE DEF nothing
      <3>1. C!Fresh(t) = [life |-> "live", home |-> t, parent |-> FALSE, owner |-> FALSE, handle |-> 0]
        BY <3>a, <3>b
      <3>2. c_made \in Nat
        BY DEF ContextInv, C!TypeOK
      <3> QED BY <2>2, <3>1, <3>2 DEF C!Before
    <2> QED BY <2>1, <2>2
  <1>4. /\ c_object' = [c_object EXCEPT ![o] = [b EXCEPT !.parent = parent, !.owner = TRUE, !.handle = handle]]
        /\ c_stray' = c_stray + (IF again THEN 1 ELSE 0)
        /\ c_slips' = c_slips \cup new
    BY Zenon DEF C!Reset, C!Slips
  <1> HIDE DEF b
  <1>7. parent \in BOOLEAN /\ (t = "main" => parent)
    BY <1>3
  <1>9. /\ new \subseteq {"other thread", "again", "limit", "base"}
        /\ again => "again" \in new
        /\ limit => "limit" \in new
        /\ t # "main" => "other thread" \in new
        /\ c_call[t].op = "base" /\ c_kind = "QMNet" => "base" \in new
    OBVIOUS
  <1>a. c_stray \in Nat /\ c_slips \subseteq {"other thread", "again", "limit", "base", "two contexts", "shutdown"}
        /\ c_made \in Nat
    BY DEF ContextInv, C!TypeOK
  <1>j. (again /\ c_stray' = c_stray + 1) \/ c_stray' = c_stray + 0
    BY <1>4, Zenon
  <1>8. (limit /\ handle = -1) \/ handle = c_made
    BY Zenon
  <1> HIDE DEF new, parent, limit, again
  <1> HIDE DEF handle
  <1>k. c_object'[o] = [b EXCEPT !.parent = parent, !.owner = TRUE, !.handle = handle]
    BY <1>1, <1>2, <1>4
  <1>l. handle \in {-1, c_made}
    BY <1>8
  <1>6. /\ c_object'[o] \in [life : {"live"}, home : {t}, parent : BOOLEAN, owner : {TRUE}, handle : {-1, c_made}]
        /\ c_object'[o].parent = parent /\ c_object'[o].handle = handle
    BY <1>3, <1>7, <1>k, <1>l, ResetRecord
  <1>b. c_stray' \in Nat /\ (c_stray' # c_stray => again)
    <2>1. c_stray + 0 = c_stray /\ c_stray + 1 \in Nat
      BY <1>a, Counting, Zenon
    <2>2. c_stray' # c_stray => again
      BY <1>j, <2>1, Zenon
    <2>3. c_stray' \in Nat
      BY <1>j, <2>1, <1>a, Zenon
    <2> QED BY <2>2, <2>3
  <1>c. c_object'[o].handle = -1 => "limit" \in c_slips'
    <2>1. -1 # c_made
      BY <1>a, Counting, Zenon
    <2>2. c_object'[o].handle = -1 => limit
      BY <1>6, <1>8, <2>1, Zenon
    <2>3. limit => "limit" \in c_slips'
      BY <1>4, <1>9
    <2> QED BY <2>2, <2>3
  <1>d. c_object' = [c_object EXCEPT ![o] = c_object'[o]]
    BY <1>1, <1>2, <1>4
  <1>e. \A p \in Objects : p # o => c_object'[p] = c_object[p]
    BY <1>1, <1>2, <1>4
  <1>g. t = "main" => c_object'[o].parent
    BY <1>6, <1>7
  <1> HIDE DEF o
  <1>h. /\ c_slips \subseteq c_slips'
        /\ c_slips' \subseteq {"other thread", "again", "limit", "base", "two contexts", "shutdown"}
        /\ t # "main" => "other thread" \in c_slips'
        /\ c_call[t].op = "base" /\ c_kind = "QMNet" => "base" \in c_slips'
        /\ c_stray' # c_stray => "again" \in c_slips'
    BY <1>4, <1>9, <1>a, <1>b
  <1> QED BY <1>1, <1>b, <1>c, <1>d, <1>e, <1>6, <1>g, <1>h DEF o

(* The types after a call has gone on or returned.                          *)
LEMMA CallTypesNext ==
  ASSUME C!TypeOK, NEW t \in Threads,
         NEW at \in {"enter", "list", "remove", "base", "term"}, C!Goes(t, at)
  PROVE  /\ c_call' \in [Threads ->
            [at : {"idle", "init", "make", "enter", "list", "close", "remove",
                   "busy", "destroy", "base", "term"},
             op : {"none", "create", "base", "append", "close", "delete", "threads", "shutdown", "exit"},
             of : Objects \cup {"none"}]]
         /\ \A u \in Threads : u # t => c_call'[u] = c_call[u]
         /\ c_call'[t].at = at /\ c_call'[t].op = c_call[t].op /\ c_call'[t].of = c_call[t].of
  <1>1. c_call' = [c_call EXCEPT ![t] = [c_call[t] EXCEPT !.at = at]]
    BY DEF C!Goes
  <1>2. c_call[t] = [at |-> c_call[t].at, op |-> c_call[t].op, of |-> c_call[t].of]
    BY CallTypes
  <1>3. [c_call[t] EXCEPT !.at = at] = [at |-> at, op |-> c_call[t].op, of |-> c_call[t].of]
    BY <1>2
  <1> QED BY <1>1, <1>3, CallTypes DEF C!TypeOK

LEMMA CallReturns ==
  ASSUME C!TypeOK, NEW t \in Threads, C!Returns(t)
  PROVE  /\ c_call' \in [Threads ->
            [at : {"idle", "init", "make", "enter", "list", "close", "remove",
                   "busy", "destroy", "base", "term"},
             op : {"none", "create", "base", "append", "close", "delete", "threads", "shutdown", "exit"},
             of : Objects \cup {"none"}]]
         /\ \A u \in Threads : u # t => c_call'[u] = c_call[u]
         /\ c_call'[t] = C!Idle /\ c_call'[t].at = "idle" /\ c_call'[t].op = "none" /\ c_call'[t].of = "none"
  <1>1. C!Idle = [at |-> "idle", op |-> "none", of |-> "none"]
    BY DEF C!Idle
  <1>2. c_call' = [c_call EXCEPT ![t] = C!Idle]
    BY DEF C!Returns
  <1> QED BY <1>1, <1>2 DEF C!TypeOK

(* The end of the context is not near while another call is under way.      *)
LEMMA NotTheEnd ==
  ASSUME ContextInv, NEW t \in Threads, c_call[t].op \notin {"none", "exit"}
  PROVE  c_call["main"].op # "exit" /\ c_call["main"].at \notin {"base", "term"}
  <1>1. c_call["main"].op # "exit"
    BY ContextAssumption DEF ContextInv, ContextCalls, C!Idle
  <1>2. c_call["main"].at \notin {"base", "term"}
    BY <1>1, ContextAssumption, CallTypes DEF ContextInv, ContextCalls
  <1> QED BY <1>1, <1>2

(* A socket is entered in the list at the end of a call.                    *)
LEMMA ListedAppended ==
  ASSUME ContextInv, NEW t \in Threads, NEW o \in Objects, c_call[t].of = o, c_call[t].at # "remove",
         NEW q \in {c_sockets, C!SocketsWithout(o)}, c_sockets' = Append(q, o),
         C!Returns(t), c_object'[o].life = "live", c_object'[o].owner,
         \A p \in Objects : p # o => c_object'[p] = c_object[p],
         c_slips \subseteq c_slips', "other thread" \notin c_slips' => o \notin C!Range(q)
  PROVE  ContextListed'
  <1>1. /\ c_sockets \in Seq(Objects) /\ q \in Seq(Objects) /\ C!Range(q) \cup {o} = C!Range(c_sockets) \cup {o}
        /\ C!IsInjective(c_sockets) => C!IsInjective(q)
    <2>1. c_sockets \in Seq(Objects) /\ C!TypeOK
      BY DEF ContextInv, C!TypeOK
    <2>2. CASE q = c_sockets
      BY <2>1, <2>2
    <2>3. CASE q = C!SocketsWithout(o)
      BY <2>1, <2>3, SocketsWithoutIs
    <2> QED BY <2>2, <2>3
  <1>2. /\ C!Range(c_sockets') = C!Range(c_sockets) \cup {o}
        /\ C!IsInjective(c_sockets) /\ o \notin C!Range(q) => C!IsInjective(c_sockets')
    BY <1>1, SocketsAppended
  <1>3. (C!Listed(o))' /\ \A p \in Objects : p # o => ((C!Listed(p))' <=> C!Listed(p))
    BY <1>2 DEF C!Listed
  <1>4. c_call'[t].at = "idle" /\ \A u \in Threads : u # t => c_call'[u] = c_call[u]
    BY CallReturns DEF ContextInv
  <1>5. ASSUME NEW p \in Objects, (C!Listed(p))', c_object'[p].home = "main"
        PROVE  /\ (C!Live(p))'
               /\ c_object'[p].owner \/ \E u \in Threads : c_call'[u].of = p /\ c_call'[u].at = "remove"
    <2>1. CASE p = o
      BY <2>1 DEF C!Live
    <2>2. CASE p # o
      <3>1. C!Live(p) /\ (c_object[p].owner \/ \E u \in Threads : c_call[u].of = p /\ c_call[u].at = "remove")
        <4>1. C!Listed(p) /\ c_object[p].home = "main"
          BY <1>3, <1>5, <2>2
        <4> QED BY <4>1 DEF ContextInv, ContextListed
      <3>2. ASSUME NEW u \in Threads, c_call[u].of = p, c_call[u].at = "remove"
            PROVE  c_call'[u].of = p /\ c_call'[u].at = "remove"
        BY <1>4, <2>2, <3>2
      <3> QED BY <2>2, <3>1, <3>2 DEF C!Live
    <2> QED BY <2>1, <2>2
  <1>6. ASSUME NEW p \in Objects, (C!HasOpen(p))'
        PROVE  (C!Listed(p))' \/ \E u \in Threads : c_call'[u].of = p /\ c_call'[u].at = "list"
    <2>1. CASE p = o
      BY <1>3, <2>1
    <2>2. CASE p # o
      <3>1. C!Listed(p) \/ \E u \in Threads : c_call[u].of = p /\ c_call[u].at = "list"
        BY <1>6, <2>2 DEF ContextInv, ContextListed, C!HasOpen
      <3>2. ASSUME NEW u \in Threads, c_call[u].of = p, c_call[u].at = "list"
            PROVE  c_call'[u].of = p /\ c_call'[u].at = "list"
        BY <1>4, <2>2, <3>2
      <3> QED BY <1>3, <2>2, <3>1, <3>2
    <2> QED BY <2>1, <2>2
  <1>7. ASSUME "other thread" \notin c_slips'
        PROVE  /\ IsInjective(c_sockets')
               /\ \A u \in Threads : c_call'[u].at = "list" /\ c_call'[u].op # "append" => ~(C!Listed(c_call[u].of))'
    <2>1. /\ C!IsInjective(c_sockets)
          /\ \A u \in Threads : c_call[u].at = "list" /\ c_call[u].op # "append" => ~C!Listed(c_call[u].of)
      BY <1>7 DEF ContextInv, ContextListed, IsInjective, C!IsInjective
    <2>2. IsInjective(c_sockets')
      BY <1>2, <1>7, <2>1 DEF IsInjective, C!IsInjective
    <2>3. ASSUME NEW u \in Threads, c_call'[u].at = "list", c_call'[u].op # "append"
          PROVE  ~(C!Listed(c_call[u].of))'
      <3>1. u # t /\ c_call'[u] = c_call[u]
        BY <1>4, <2>3
      <3>2. c_call[u].of \in Objects
        BY <2>3, <3>1, CallTypes DEF ContextInv, ContextCalls
      <3>3. c_call[u].of # o
        BY <3>1 DEF ContextInv, ContextHolds
      <3> QED BY <1>3, <2>1, <2>3, <3>1, <3>2, <3>3
    <2> QED BY <2>2, <2>3
  <1>8. \A u \in Threads : c_call'[u].at = "list" => c_call'[u] = c_call[u]
    BY <1>4
  <1> QED BY <1>5, <1>6, <1>7, <1>8 DEF ContextListed, C!Listed

(* A socket that is yet to be made is in the list only when another thread   *)
(* had it.                                                                  *)
LEMMA NewNotListed ==
  ASSUME ContextInv, NEW o \in Objects, ~C!Live(o), "other thread" \notin c_slips
  PROVE  ~C!Listed(o)
  BY DEF ContextInv, ContextObjects, ContextListed

LEMMA ResetObjects ==
  ASSUME ContextInv, NEW t \in Threads, c_call[t].at = "enter",
         c_call[t].op \in {"create", "base", "append"}, C!Reset(t), UNCHANGED c_made
  PROVE  /\ c_object' \in [Objects -> [life : {"none", "live", "deleted"}, home : Threads,
                             parent : BOOLEAN, owner : BOOLEAN, handle : {-1} \cup 0 .. c_made]]
         /\ ContextObjects'
         /\ c_stray' > 0 => c_slips' \cap {"other thread", "again"} # {}
  <1> DEFINE o == c_call[t].of
  <1>1. /\ o \in Objects
        /\ c_object'[o] \in [life : {"live"}, home : {t}, parent : BOOLEAN, owner : {TRUE}, handle : {-1, c_made}]
        /\ t = "main" => c_object'[o].parent
        /\ c_object'[o].handle = -1 => "limit" \in c_slips'
        /\ c_object' = [c_object EXCEPT ![o] = c_object'[o]]
        /\ \A p \in Objects : p # o => c_object'[p] = c_object[p]
        /\ c_slips \subseteq c_slips'
        /\ t # "main" => "other thread" \in c_slips'
        /\ c_stray' # c_stray => "again" \in c_slips'
        /\ c_made > 0
    BY ResetDoes
  <1>2. c_made \in Nat
    BY DEF ContextInv, C!TypeOK
  <1>3. c_object'[o] \in [life : {"none", "live", "deleted"}, home : Threads,
                          parent : BOOLEAN, owner : BOOLEAN, handle : {-1} \cup 0 .. c_made]
    <2>1. {-1, c_made} \subseteq {-1} \cup 0 .. c_made /\ {t} \subseteq Threads
      BY <1>2
    <2> QED BY <1>1, <2>1
  <1> HIDE DEF o
  <1>4. c_object' \in [Objects -> [life : {"none", "live", "deleted"}, home : Threads,
                             parent : BOOLEAN, owner : BOOLEAN, handle : {-1} \cup 0 .. c_made]]
    <2> DEFINE s == c_object'[o]
    <2>1. c_object' = [c_object EXCEPT ![o] = s] /\ s \in [life : {"none", "live", "deleted"}, home : Threads,
                          parent : BOOLEAN, owner : BOOLEAN, handle : {-1} \cup 0 .. c_made]
      BY <1>1, <1>3
    <2> HIDE DEF s
    <2> QED BY <1>1, <2>1 DEF ContextInv, C!TypeOK
  <1>5. ASSUME NEW p \in Objects
        PROVE  /\ (C!HasOpen(p))' => (C!Live(p))' /\ c_object'[p].owner
               /\ c_object'[p].home # "main" => "other thread" \in c_slips'
               /\ (C!Live(p))' /\ c_object'[p].owner /\ c_object'[p].home = "main" => c_object'[p].parent
               /\ (C!Live(p))' /\ c_object'[p].owner /\ ~(C!HasOpen(p))' => "limit" \in c_slips'
               /\ (C!HasOpen(p))' => "two contexts" \in c_slips' \/ c_object'[p].handle = c_made
    <2>1. CASE p = o
      <3>1. /\ c_object'[p].life = "live" /\ c_object'[p].home = t /\ c_object'[p].owner = TRUE
            /\ c_object'[p].handle \in {-1, c_made}
        BY <1>1, <2>1
      <3>2. (C!Live(p))' /\ c_object'[p].owner
        BY <3>1 DEF C!Live
      <3>3. /\ (C!HasOpen(p))' => c_object'[p].handle = c_made
            /\ ~(C!HasOpen(p))' => c_object'[p].handle = -1
        <4>1. c_made > 0
          BY <1>1
        <4>2. \A h \in {-1, c_made} : (h > 0 => h = c_made) /\ (~(h > 0) => h = -1)
          BY <1>2, <4>1
        <4> QED BY <3>1, <4>2, Zenon DEF C!HasOpen
      <3>4. c_object'[p].home = "main" => c_object'[p].parent
        BY <1>1, <2>1, <3>1
      <3> QED BY <1>1, <2>1, <3>1, <3>2, <3>3, <3>4
    <2>2. CASE p # o
      <3>1. /\ C!HasOpen(p) => C!Live(p) /\ c_object[p].owner
            /\ c_object[p].home # "main" => "other thread" \in c_slips
            /\ C!Live(p) /\ c_object[p].owner /\ c_object[p].home = "main" => c_object[p].parent
            /\ C!Live(p) /\ c_object[p].owner /\ ~C!HasOpen(p) => "limit" \in c_slips
            /\ C!HasOpen(p) => "two contexts" \in c_slips \/ c_object[p].handle = c_made
        BY DEF ContextInv, ContextObjects
      <3>2. c_object'[p] = c_object[p]
        BY <1>1, <2>2
      <3> QED BY <1>1, <3>1, <3>2 DEF C!HasOpen, C!Live
    <2> QED BY <2>1, <2>2
  <1>6. ContextObjects'
    BY <1>5 DEF ContextObjects, C!HasOpen, C!Live
  <1>7. c_stray' > 0 => c_slips' \cap {"other thread", "again"} # {}
    <2>1. c_stray > 0 => c_slips \cap {"other thread", "again"} # {}
      BY DEF ContextInv, ContextCounted
    <2> QED BY <1>1, <2>1
  <1> QED BY <1>4, <1>6, <1>7

(* A call that has a socket returns.                                        *)
LEMMA Returned ==
  ASSUME ContextInv, NEW t \in Threads, C!Returns(t), c_call[t].op \notin {"none", "exit"},
         UNCHANGED <<c_kind, c_made, c_initialized>>,
         \A p \in Objects : p # c_call[t].of => c_object'[p] = c_object[p]
  PROVE  ContextCalls' /\ ContextHolds' /\ ContextEnd'
  <1>1. /\ c_call'[t] = C!Idle /\ c_call'[t].at = "idle" /\ c_call'[t].op = "none" /\ c_call'[t].of = "none"
        /\ \A u \in Threads : u # t => c_call'[u] = c_call[u]
    BY CallReturns DEF ContextInv
  <1>2. c_call["main"].op # "exit" /\ c_call["main"].at \notin {"base", "term"}
    BY NotTheEnd
  <1>3. ContextCalls'
    BY <1>1, <1>2, ContextAssumption DEF ContextInv, ContextCalls, C!AsContext
  <1>4. ContextHolds'
    <2> SUFFICES ASSUME NEW u \in Threads, c_call'[u].of \in Objects
                 PROVE  /\ \A v \in Threads : c_call'[v].of = c_call'[u].of => v = u
                        /\ IF c_call'[u].op \in {"create", "base"} /\ c_call'[u].at # "list"
                           THEN ~(C!Live(c_call[u].of))'
                           ELSE (C!Live(c_call[u].of))' /\ c_object'[c_call'[u].of].home = u
                        /\ c_call'[u].at = "list" => c_object'[c_call'[u].of].owner
                        /\ c_call'[u].at = "remove" /\ c_kind = "Context" => ~(C!HasOpen(c_call[u].of))'
      BY DEF ContextHolds, C!Live, C!HasOpen
    <2>1. u # t /\ c_call'[u] = c_call[u]
      BY <1>1, ContextAssumption
    <2>2. c_call[u].of # c_call[t].of
      BY <2>1 DEF ContextInv, ContextHolds
    <2>3. c_object'[c_call[u].of] = c_object[c_call[u].of]
      BY <2>1, <2>2
    <2>4. \A v \in Threads : c_call'[v].of = c_call'[u].of => v = u
      BY <1>1, <2>1, ContextAssumption DEF ContextInv, ContextHolds
    <2>5. /\ IF c_call[u].op \in {"create", "base"} /\ c_call[u].at # "list" THEN ~C!Live(c_call[u].of)
             ELSE C!Live(c_call[u].of) /\ c_object[c_call[u].of].home = u
          /\ c_call[u].at = "list" => c_object[c_call[u].of].owner
          /\ c_call[u].at = "remove" /\ c_kind = "Context" => ~C!HasOpen(c_call[u].of)
      BY <2>1 DEF ContextInv, ContextHolds
    <2> QED BY <2>1, <2>3, <2>4, <2>5 DEF C!Live, C!HasOpen
  <1>5. ContextEnd'
    <2>1. c_call'["main"].at \notin {"base", "term"}
      BY <1>1, <1>2, ContextAssumption
    <2> QED BY <2>1 DEF ContextEnd
  <1> QED BY <1>3, <1>4, <1>5

LEMMA SequenceLength ==
  ASSUME NEW q \in Seq(Objects), NEW o \in Objects, NEW r, r = Append(q, o)
  PROVE  r \in Seq(Objects) /\ Len(r) \in Nat /\ Len(q) \in Nat
  OBVIOUS

(* The count and the length move together.                                  *)
LEMMA BothMove ==
  ASSUME NEW a \in Int, NEW b \in Int, NEW m \in Nat, NEW n \in Nat, b - a = n - m
  PROVE  (a <= m => b <= n) /\ (a >= m => b >= n)
  OBVIOUS

(* A QMNet makes or takes in a socket.                                      *)
LEMMA RegisterKeeps ==
  ASSUME ContextInv, c_exit = "running", NEW t \in Threads, c_call[t].at = "enter",
         c_call[t].op \in {"create", "append"}, ~C!AsContext(t), C!Reset(t), C!Returns(t),
         NEW q \in {c_sockets, C!SocketsWithout(c_call[t].of)}, c_sockets' = Append(q, c_call[t].of),
         "other thread" \notin c_slips' => c_call[t].of \notin C!Range(q),
         c_open' \in Int, c_open' - c_open = Len(c_sockets') - Len(c_sockets),
         UNCHANGED <<c_kind, c_max_sockets, c_made, c_initialized, c_exit>>
  PROVE  ContextInv'
  <1> DEFINE o == c_call[t].of
  <1>2. /\ o \in Objects
        /\ c_object'[o] \in [life : {"live"}, home : {t}, parent : BOOLEAN, owner : {TRUE}, handle : {-1, c_made}]
        /\ \A p \in Objects : p # o => c_object'[p] = c_object[p]
        /\ c_slips \subseteq c_slips'
        /\ c_slips' \subseteq {"other thread", "again", "limit", "base", "two contexts", "shutdown"}
        /\ c_stray' \in Nat
    BY ResetDoes
  <1>3. /\ c_object' \in [Objects -> [life : {"none", "live", "deleted"}, home : Threads,
                             parent : BOOLEAN, owner : BOOLEAN, handle : {-1} \cup 0 .. c_made]]
        /\ ContextObjects'
        /\ c_stray' > 0 => c_slips' \cap {"other thread", "again"} # {}
    BY ResetObjects
  <1>4. ContextCalls' /\ ContextHolds' /\ ContextEnd'
    BY <1>2, Returned
  <1> HIDE DEF o
  <1>5. /\ c_sockets \in Seq(Objects) /\ c_open \in Int
    BY DEF ContextInv, C!TypeOK
  <1>6. c_sockets' \in Seq(Objects) /\ Len(c_sockets') \in Nat /\ Len(c_sockets) \in Nat
    <2>a. C!SocketsWithout(o) \in Seq(Objects)
      BY <1>2, SocketsWithoutIs DEF ContextInv
    <2>1. q \in Seq(Objects) /\ c_sockets' = Append(q, o)
      BY <1>5, <2>a DEF o
    <2>2. c_sockets' \in Seq(Objects) /\ Len(c_sockets') \in Nat
      BY <1>2, <2>1, SequenceLength
    <2>3. Len(c_sockets) \in Nat
      BY <1>2, <1>5, SequenceLength
    <2> QED BY <2>2, <2>3
  <1>7. C!TypeOK'
    <2>1. c_call' \in [Threads ->
            [at : {"idle", "init", "make", "enter", "list", "close", "remove",
                   "busy", "destroy", "base", "term"},
             op : {"none", "create", "base", "append", "close", "delete", "threads", "shutdown", "exit"},
             of : Objects \cup {"none"}]]
      BY CallReturns DEF ContextInv
    <2> QED BY <1>2, <1>3, <1>6, <2>1 DEF ContextInv, C!TypeOK
  <1>8. ContextListed'
    <2>1. c_object'[o].life = "live" /\ c_object'[o].owner
      BY <1>2
    <2>2. /\ c_call[t].of = o /\ c_call[t].at # "remove" /\ q \in {c_sockets, C!SocketsWithout(o)}
          /\ c_sockets' = Append(q, o) /\ ("other thread" \notin c_slips' => o \notin C!Range(q))
          /\ C!Returns(t)
      BY DEF o
    <2>3. \A p \in Objects : p # o => c_object'[p] = c_object[p]
      BY <1>2
    <2>4. o \in Objects /\ c_slips \subseteq c_slips'
      BY <1>2
    <2> QED BY <2>1, <2>2, <2>3, <2>4, ListedAppended
  <1>9. ContextCounted'
    <2>1. c_initialized /\ c_kind = "QMNet"
      <3>1. c_kind \in {"QMNet", "Context"}
        BY DEF ContextInv, C!TypeOK
      <3> QED BY <3>1 DEF ContextInv, ContextCalls, C!AsContext
    <2>2. \A u \in Threads : c_call'[u].at = "list" => c_call[u].at = "list"
      BY CallReturns DEF ContextInv
    <2>3. /\ c_made > 0
          /\ "shutdown" \notin c_slips => c_open <= Len(c_sockets)
          /\ "base" \notin c_slips => c_open >= Len(c_sockets) /\ \A u \in Threads : c_call[u].at # "list"
      BY <2>1 DEF ContextInv, ContextCounted
    <2>4. /\ "shutdown" \notin c_slips' => c_open' <= Len(c_sockets')
          /\ "base" \notin c_slips' => c_open' >= Len(c_sockets') /\ \A u \in Threads : c_call'[u].at # "list"
      <3>1. /\ c_open <= Len(c_sockets) => c_open' <= Len(c_sockets')
            /\ c_open >= Len(c_sockets) => c_open' >= Len(c_sockets')
        BY <1>5, <1>6, BothMove
      <3> QED BY <1>2, <2>2, <2>3, <3>1
    <2>5. c_initialized' /\ c_made' > 0
      BY <2>1, <2>3
    <2> QED BY <1>3, <2>4, <2>5 DEF ContextCounted
  <1> QED BY <1>3, <1>4, <1>7, <1>8, <1>9 DEF ContextInv

LEMMA CreateSocketKeeps ==
  ASSUME ContextInv, c_exit = "running", NEW t \in Threads, C!CreateSocket(t)
  PROVE  ContextInv'
  <1> DEFINE o == c_call[t].of
  <1>1. /\ c_call[t].at = "enter" /\ c_call[t].op = "create" /\ ~C!AsContext(t) /\ C!Reset(t) /\ C!Returns(t)
        /\ c_sockets' = Append(c_sockets, o) /\ c_open' = c_open + 1
        /\ UNCHANGED <<c_kind, c_max_sockets, c_made, c_initialized, c_exit>>
    BY DEF C!CreateSocket
  <1>2. o \in Objects /\ c_slips \subseteq c_slips'
    BY <1>1, ResetDoes
  <1>3. "other thread" \notin c_slips' => o \notin C!Range(c_sockets)
    <2>1. ~C!Live(o)
      BY <1>1, <1>2 DEF ContextInv, ContextHolds
    <2> QED BY <1>2, <2>1, NewNotListed DEF C!Listed
  <1>4. c_open' \in Int /\ c_open' - c_open = Len(c_sockets') - Len(c_sockets)
    <2>1. c_open \in Int /\ c_sockets \in Seq(Objects)
      BY DEF ContextInv, C!TypeOK
    <2>2. Len(c_sockets') = Len(c_sockets) + 1 /\ Len(c_sockets) \in Nat
      BY <1>1, <1>2, <2>1, SocketsAppended
    <2> QED BY <1>1, <2>1, <2>2
  <1> QED BY <1>1, <1>3, <1>4, RegisterKeeps

LEMMA AppendSocketKeeps ==
  ASSUME ContextInv, c_exit = "running", NEW t \in Threads, C!AppendSocket(t)
  PROVE  ContextInv'
  <1> DEFINE o == c_call[t].of
             q == C!SocketsWithout(o)
  <1>1. /\ c_call[t].at = "enter" /\ c_call[t].op = "append" /\ ~C!AsContext(t) /\ C!Reset(t) /\ C!Returns(t)
        /\ c_sockets' = Append(q, o) /\ c_open' = c_open - (Len(c_sockets) - Len(q)) + 1
        /\ UNCHANGED <<c_kind, c_max_sockets, c_made, c_initialized, c_exit>>
    BY DEF C!AppendSocket
  <1>2. o \in Objects /\ c_slips \subseteq c_slips'
    BY <1>1, ResetDoes
  <1>3. /\ q \in Seq(Objects) /\ C!Range(q) = C!Range(c_sockets) \ {o}
        /\ Len(q) \in Nat /\ Len(c_sockets) \in Nat
    BY <1>2, SocketsWithoutIs DEF ContextInv
  <1>4. c_open' \in Int /\ c_open' - c_open = Len(c_sockets') - Len(c_sockets)
    <2>1. c_open \in Int
      BY DEF ContextInv, C!TypeOK
    <2>2. Len(c_sockets') = Len(q) + 1
      BY <1>1, <1>2, <1>3, SocketsAppended
    <2> HIDE DEF q
    <2> QED BY <1>1, <1>3, <2>1, <2>2
  <1>5. o \notin C!Range(q)
    BY <1>3
  <1> QED BY <1>1, <1>4, <1>5, RegisterKeeps

-----------------------------------------------------------------------------
(* The sockets there can be.                                                *)
SocketRecords == [life : {"none", "live", "deleted"}, home : Threads,
                  parent : BOOLEAN, owner : BOOLEAN, handle : {-1} \cup 0 .. c_made]

LEMMA SocketFields ==
  ASSUME ContextInv, NEW o \in Objects
  PROVE  c_object[o] \in SocketRecords /\ c_object[o].handle \in Int
  <1>1. c_object[o] \in SocketRecords /\ c_made \in Nat
    BY DEF ContextInv, C!TypeOK, SocketRecords
  <1>2. {-1} \cup 0 .. c_made \subseteq Int
    BY <1>1
  <1> QED BY <1>1, <1>2 DEF SocketRecords

LEMMA RecordClosed ==
  ASSUME NEW L, NEW H, NEW M, 0 \in M,
         NEW s \in [life : L, home : H, parent : BOOLEAN, owner : BOOLEAN, handle : M],
         NEW c, c = [s EXCEPT !.handle = 0, !.owner = FALSE]
  PROVE  /\ c \in [life : L, home : H, parent : BOOLEAN, owner : BOOLEAN, handle : M]
         /\ c.life = s.life /\ c.home = s.home /\ c.parent = s.parent /\ c.handle = 0 /\ c.owner = FALSE
  OBVIOUS

LEMMA RecordDeleted ==
  ASSUME NEW L, NEW H, NEW M, 0 \in M, "deleted" \in L,
         NEW s \in [life : L, home : H, parent : BOOLEAN, owner : BOOLEAN, handle : M],
         NEW c, c = [s EXCEPT !.life = "deleted", !.handle = 0]
  PROVE  /\ c \in [life : L, home : H, parent : BOOLEAN, owner : BOOLEAN, handle : M]
         /\ c.life = "deleted" /\ c.home = s.home /\ c.handle = 0
  OBVIOUS

LEMMA ClosedIs ==
  ASSUME NEW s \in SocketRecords, c_made \in Nat
  PROVE  /\ C!Closed(s) \in SocketRecords
         /\ C!Closed(s).life = s.life /\ C!Closed(s).home = s.home /\ C!Closed(s).parent = s.parent
         /\ ~(C!Closed(s).handle > 0)
         /\ C!Closed(s).owner => s.owner /\ ~(s.handle > 0)
  <1>1. CASE s.handle > 0
    <2> DEFINE c == [s EXCEPT !.handle = 0, !.owner = FALSE]
    <2>1. C!Closed(s) = c
      BY <1>1 DEF C!Closed
    <2>2. c \in SocketRecords /\ c.life = s.life /\ c.home = s.home /\ c.parent = s.parent
          /\ c.handle = 0 /\ c.owner = FALSE
      <3>1. 0 \in {-1} \cup 0 .. c_made
        OBVIOUS
      <3> HIDE DEF c
      <3> QED BY <3>1, RecordClosed DEF SocketRecords, c
    <2> HIDE DEF c
    <2> QED BY <2>1, <2>2
  <1>2. CASE ~(s.handle > 0)
    BY <1>2 DEF C!Closed
  <1> QED BY <1>1, <1>2

LEMMA LeavesDoes ==
  ASSUME ContextInv, NEW t \in Threads, c_call[t].of \in Objects,
         NEW s \in SocketRecords, C!Leaves(t, s)
  PROVE  /\ C!Returns(t)
         /\ c_object' \in [Objects -> SocketRecords]
         /\ \A p \in Objects : p # c_call[t].of => c_object'[p] = c_object[p]
         /\ c_call[t].op # "delete" => c_object'[c_call[t].of] = s /\ c_stray' = c_stray
         /\ c_call[t].op = "delete" => /\ c_object'[c_call[t].of].life = "deleted"
                                       /\ c_object'[c_call[t].of].home = s.home
                                       /\ ~(c_object'[c_call[t].of].handle > 0)
         /\ c_stray' \in Nat /\ (s.handle > 0 \/ c_stray' = c_stray)
  <1> DEFINE o == c_call[t].of
  <1>1. c_object \in [Objects -> SocketRecords] /\ c_stray \in Nat
    BY DEF ContextInv, C!TypeOK, SocketRecords
  <1>2. C!Returns(t)
    BY DEF C!Leaves
  <1>3. CASE c_call[t].op = "delete"
    <2> DEFINE d == [s EXCEPT !.life = "deleted", !.handle = 0]
    <2>1. c_object' = [c_object EXCEPT ![o] = d] /\ c_stray' = c_stray + (IF s.handle > 0 THEN 1 ELSE 0)
      BY <1>3 DEF C!Leaves
    <2>2. d \in SocketRecords /\ d.life = "deleted" /\ d.home = s.home /\ d.handle = 0
      <3>1. c_made \in Nat
        BY DEF ContextInv, C!TypeOK
      <3>2. 0 \in {-1} \cup 0 .. c_made
        BY <3>1
      <3> QED BY <3>2, RecordDeleted DEF SocketRecords
    <2>3. c_stray' \in Nat /\ (s.handle > 0 \/ c_stray' = c_stray)
      BY <1>1, <2>1
    <2> HIDE DEF d
    <2>4. /\ c_object' \in [Objects -> SocketRecords] /\ c_object'[o] = d
          /\ \A p \in Objects : p # o => c_object'[p] = c_object[p]
      BY <1>1, <2>1, <2>2
    <2> QED BY <1>2, <1>3, <2>2, <2>3, <2>4
  <1>4. CASE c_call[t].op # "delete"
    <2>1. c_object' = [c_object EXCEPT ![o] = s] /\ c_stray' = c_stray
      BY <1>4 DEF C!Leaves
    <2>2. /\ c_object' \in [Objects -> SocketRecords] /\ c_object'[o] = s
          /\ \A p \in Objects : p # o => c_object'[p] = c_object[p]
      BY <1>1, <2>1
    <2> QED BY <1>1, <1>2, <1>4, <2>1, <2>2
  <1> QED BY <1>3, <1>4

(* What is known of a socket is known of what a call leaves of it.          *)
LEMMA ObjectsAfter ==
  ASSUME ContextInv, NEW o \in Objects, UNCHANGED <<c_slips, c_made>>,
         \A p \in Objects : p # o => c_object'[p] = c_object[p],
         c_object'[o].home = c_object[o].home,
         \/ ~(C!Live(o))' /\ ~(C!HasOpen(o))'
         \/ /\ C!Live(o) /\ (C!Live(o))' /\ c_object'[o].parent = c_object[o].parent
            /\ c_object'[o].owner => c_object[o].owner /\ ~C!HasOpen(o)
            /\ ~(C!HasOpen(o))'
         \/ c_object'[o] = c_object[o]
  PROVE  ContextObjects'
  <1> SUFFICES ASSUME NEW p \in Objects
      PROVE  /\ (C!HasOpen(p))' => (C!Live(p))' /\ c_object'[p].owner
             /\ c_object'[p].home # "main" => "other thread" \in c_slips
             /\ (C!Live(p))' /\ c_object'[p].owner /\ c_object'[p].home = "main" => c_object'[p].parent
             /\ (C!Live(p))' /\ c_object'[p].owner /\ ~(C!HasOpen(p))' => "limit" \in c_slips
             /\ (C!HasOpen(p))' => "two contexts" \in c_slips \/ c_object'[p].handle = c_made
    BY DEF ContextObjects, C!HasOpen, C!Live
  <1>1. /\ C!HasOpen(p) => C!Live(p) /\ c_object[p].owner
        /\ c_object[p].home # "main" => "other thread" \in c_slips
        /\ C!Live(p) /\ c_object[p].owner /\ c_object[p].home = "main" => c_object[p].parent
        /\ C!Live(p) /\ c_object[p].owner /\ ~C!HasOpen(p) => "limit" \in c_slips
        /\ C!HasOpen(p) => "two contexts" \in c_slips \/ c_object[p].handle = c_made
    BY DEF ContextInv, ContextObjects
  <1>2. CASE c_object'[p] = c_object[p]
    BY <1>1, <1>2 DEF C!HasOpen, C!Live
  <1>3. CASE c_object'[p] # c_object[p]
    <2>1. p = o
      BY <1>3
    <2>2. CASE ~(C!Live(o))' /\ ~(C!HasOpen(o))'
      BY <1>1, <2>1, <2>2
    <2>3. CASE /\ C!Live(o) /\ (C!Live(o))' /\ c_object'[o].parent = c_object[o].parent
               /\ c_object'[o].owner => c_object[o].owner /\ ~C!HasOpen(o)
               /\ ~(C!HasOpen(o))'
      BY <1>1, <2>1, <2>3
    <2> QED BY <1>3, <2>1, <2>2, <2>3
  <1> QED BY <1>2, <1>3

(* A call that has a live socket, and neither lists it nor has closed it.   *)
LEMMA NotListing ==
  ASSUME ContextInv, NEW t \in Threads, c_call[t].op \in {"close", "delete"}
  PROVE  /\ c_call[t].of \in Objects /\ C!Live(c_call[t].of) /\ c_object[c_call[t].of].home = t
         /\ c_call[t].at \in {"close", "remove"}
         /\ \A u \in Threads : c_call[u].of = c_call[t].of => u = t
         /\ C!HasOpen(c_call[t].of) => C!Listed(c_call[t].of)
         /\ /\ C!Listed(c_call[t].of) /\ c_object[c_call[t].of].home = "main" /\ c_call[t].at = "close"
            => c_object[c_call[t].of].owner
  <1>1. c_call[t].of \in Objects /\ c_call[t].at \in {"close", "remove"}
    BY DEF ContextInv, ContextCalls
  <1>2. /\ C!Live(c_call[t].of) /\ c_object[c_call[t].of].home = t
        /\ \A u \in Threads : c_call[u].of = c_call[t].of => u = t
    BY <1>1 DEF ContextInv, ContextHolds
  <1> QED BY <1>1, <1>2 DEF ContextInv, ContextListed

LEMMA CloseSocketKeeps ==
  ASSUME ContextInv, c_exit = "running", NEW t \in Threads, C!CloseSocket(t)
  PROVE  ContextInv'
  <1>1. /\ c_call[t].at = "close"
        /\ UNCHANGED <<c_kind, c_max_sockets, c_made, c_initialized, c_sockets, c_open, c_exit, c_slips>>
    BY DEF C!CloseSocket
  <1>2. c_call[t].op \in {"close", "delete"}
    BY <1>1, CallTypes DEF ContextInv, ContextCalls
  <1>0. PICK o \in Objects : o = c_call[t].of
    BY <1>2 DEF ContextInv, ContextCalls
  <1> DEFINE s == c_object[o]
  <1>3. /\ C!Live(o) /\ s.home = t
        /\ \A u \in Threads : c_call[u].of = o => u = t
        /\ C!HasOpen(o) => C!Listed(o)
        /\ C!Listed(o) /\ s.home = "main" => s.owner
    BY <1>0, <1>1, <1>2, NotListing
  <1>4. s \in SocketRecords /\ s.handle \in Int /\ c_made \in Nat /\ c_kind \in {"QMNet", "Context"}
    BY <1>3, SocketFields DEF ContextInv, C!TypeOK
  <1>5. C!HasOpen(o) => s.owner
    BY <1>3 DEF ContextInv, ContextObjects
  <1>6. s.owner /\ s.home = "main" => s.parent
    BY <1>3 DEF ContextInv, ContextObjects
  <1>7. c_stray > 0 => c_slips \cap {"other thread", "again"} # {}
    BY DEF ContextInv, ContextCounted
  <1>8. s.home # "main" => "other thread" \in c_slips
    BY <1>3 DEF ContextInv, ContextObjects
  <1>9. \/ C!Leaves(t, s) /\ (~s.owner \/ (c_kind = "QMNet" /\ ~s.parent))
        \/ /\ C!Goes(t, "remove") /\ UNCHANGED c_stray
           /\ \/ c_kind = "QMNet" /\ UNCHANGED c_object
              \/ c_kind = "Context" /\ c_object' = [c_object EXCEPT ![o] = C!Closed(s)]
    BY <1>0, <1>4 DEF C!CloseSocket
  <1>a. CASE C!Leaves(t, s) /\ (~s.owner \/ (c_kind = "QMNet" /\ ~s.parent))
    <2>1. /\ C!Returns(t)
          /\ c_object' \in [Objects -> SocketRecords]
          /\ \A p \in Objects : p # o => c_object'[p] = c_object[p]
          /\ c_call[t].op # "delete" => c_object'[o] = s /\ c_stray' = c_stray
          /\ c_call[t].op = "delete" => /\ c_object'[o].life = "deleted"
                                        /\ c_object'[o].home = s.home
                                        /\ ~(c_object'[o].handle > 0)
          /\ c_stray' \in Nat /\ (s.handle > 0 \/ c_stray' = c_stray)
      BY <1>0, <1>4, <1>a, LeavesDoes
    <2>2. ContextCalls' /\ ContextHolds' /\ ContextEnd'
      BY <1>0, <1>1, <1>2, <2>1, Returned
    <2>3. ContextObjects'
      <3>1. \/ ~(C!Live(o))' /\ ~(C!HasOpen(o))'
            \/ c_object'[o] = c_object[o]
        BY <2>1 DEF C!Live, C!HasOpen
      <3>2. c_object'[o].home = c_object[o].home
        BY <2>1
      <3> QED BY <1>1, <1>3, <2>1, <3>1, <3>2, ObjectsAfter
    <2>4. c_stray' > 0 => c_slips' \cap {"other thread", "again"} # {}
      <3>1. CASE s.handle > 0
        BY <1>1, <1>5, <1>6, <1>8, <1>a, <3>1 DEF C!HasOpen
      <3>2. CASE ~(s.handle > 0)
        BY <1>1, <1>7, <2>1, <3>2
      <3> QED BY <3>1, <3>2
    <2>5. /\ c_call' \in [Threads ->
            [at : {"idle", "init", "make", "enter", "list", "close", "remove",
                   "busy", "destroy", "base", "term"},
             op : {"none", "create", "base", "append", "close", "delete", "threads", "shutdown", "exit"},
             of : Objects \cup {"none"}]]
          /\ \A u \in Threads : u # t => c_call'[u] = c_call[u]
          /\ c_call'[t].at = "idle"
      BY <2>1, CallReturns DEF ContextInv
    <2>6. C!TypeOK'
      BY <1>1, <2>1, <2>5 DEF ContextInv, C!TypeOK, SocketRecords
    <2>7. ContextCounted'
      <3>1. \A u \in Threads : c_call'[u].at = "list" => c_call[u].at = "list"
        BY <2>5
      <3> QED BY <1>1, <2>4, <3>1 DEF ContextInv, ContextCounted
    <2>8. ContextListed'
      <3>1. \A u \in Threads : c_call[u].at \in {"list", "remove"} \/ c_call'[u].at = "list"
              => c_call'[u] = c_call[u]
        BY <1>1, <2>5
      <3>2. C!Listed(o) => s.home # "main" \/ c_call[t].op # "delete"
        BY <1>3, <1>6, <1>a
      <3>3. \/ c_object'[o] = c_object[o]
            \/ ~(C!HasOpen(o))' /\ (c_object'[o].home # "main" \/ ~C!Listed(o))
        BY <2>1, <3>2 DEF C!HasOpen
      <3> QED BY <1>1, <2>1, <3>1, <3>3, ListedAfter DEF ContextInv
    <2> QED BY <2>2, <2>3, <2>6, <2>7, <2>8 DEF ContextInv
  <1>b. CASE /\ C!Goes(t, "remove") /\ UNCHANGED c_stray
             /\ \/ c_kind = "QMNet" /\ UNCHANGED c_object
                \/ c_kind = "Context" /\ c_object' = [c_object EXCEPT ![o] = C!Closed(s)]
    <2>1. /\ c_call' \in [Threads ->
            [at : {"idle", "init", "make", "enter", "list", "close", "remove",
                   "busy", "destroy", "base", "term"},
             op : {"none", "create", "base", "append", "close", "delete", "threads", "shutdown", "exit"},
             of : Objects \cup {"none"}]]
          /\ \A u \in Threads : u # t => c_call'[u] = c_call[u]
          /\ c_call'[t].at = "remove" /\ c_call'[t].op = c_call[t].op /\ c_call'[t].of = o
      BY <1>0, <1>b, CallTypesNext DEF ContextInv
    <2>2. /\ c_object' \in [Objects -> SocketRecords]
          /\ \A p \in Objects : p # o => c_object'[p] = c_object[p]
          /\ c_object'[o].life = s.life /\ c_object'[o].home = s.home /\ c_object'[o].parent = s.parent
          /\ \/ c_object' = c_object /\ c_kind = "QMNet"
             \/ ~(C!HasOpen(o))' /\ (c_object'[o].owner => s.owner /\ ~C!HasOpen(o))
      <3>1. c_object \in [Objects -> SocketRecords]
        BY DEF ContextInv, C!TypeOK, SocketRecords
      <3>2. CASE c_kind = "QMNet" /\ UNCHANGED c_object
        BY <3>1, <3>2
      <3>3. CASE c_object' = [c_object EXCEPT ![o] = C!Closed(s)]
        <4> DEFINE c == C!Closed(s)
        <4>1. /\ c \in SocketRecords /\ c.life = s.life /\ c.home = s.home /\ c.parent = s.parent
              /\ ~(c.handle > 0) /\ (c.owner => s.owner /\ ~(s.handle > 0))
          BY <1>4, ClosedIs
        <4> HIDE DEF c
        <4>2. c_object'[o] = c /\ c_object' \in [Objects -> SocketRecords]
              /\ \A p \in Objects : p # o => c_object'[p] = c_object[p]
          BY <1>3, <3>1, <3>3, <4>1 DEF c
        <4> QED BY <4>1, <4>2 DEF C!HasOpen
      <3> QED BY <1>b, <3>2, <3>3
    <2>3. C!TypeOK'
      BY <1>1, <1>b, <2>1, <2>2 DEF ContextInv, C!TypeOK, SocketRecords
    <2>4. ContextObjects'
      <3>1. \/ c_object'[o] = c_object[o]
            \/ /\ C!Live(o) /\ (C!Live(o))' /\ c_object'[o].parent = c_object[o].parent
               /\ c_object'[o].owner => c_object[o].owner /\ ~C!HasOpen(o)
               /\ ~(C!HasOpen(o))'
        BY <1>3, <2>2 DEF C!Live
      <3> QED BY <1>1, <1>3, <2>2, <3>1, ObjectsAfter
    <2>5. ContextListed'
      <3>1. \A u \in Threads : c_call[u].at \in {"list", "remove"} \/ c_call'[u].at = "list"
              => c_call'[u] = c_call[u]
        BY <1>1, <2>1
      <3>2. (C!Live(o))' /\ \E u \in Threads : c_call'[u].of = o /\ c_call'[u].at = "remove"
        BY <1>3, <2>1, <2>2 DEF C!Live
      <3> QED BY <1>1, <2>2, <3>1, <3>2, ListedAfter DEF ContextInv
    <2>6. ContextCounted'
      <3>1. \A u \in Threads : c_call'[u].at = "list" => c_call[u].at = "list"
        BY <2>1
      <3> QED BY <1>1, <1>b, <3>1 DEF ContextInv, ContextCounted
    <2>7. c_call["main"].op # "exit" /\ c_call["main"].at \notin {"base", "term"}
      BY <1>2, NotTheEnd
    <2>8. ContextEnd'
      <3>1. c_call'["main"].at \notin {"base", "term"}
        BY <2>1, <2>7, ContextAssumption
      <3> QED BY <3>1 DEF ContextEnd
    <2>9. ContextCalls'
      BY <1>1, <1>2, <2>1, <2>7, <1>0, ContextAssumption DEF ContextInv, ContextCalls, C!AsContext
    <2>a. ContextHolds'
      BY <1>0, <1>1, <1>2, <1>3, <2>1, <2>2 DEF ContextInv, ContextHolds, C!Live, C!HasOpen
    <2> QED BY <2>3, <2>4, <2>5, <2>6, <2>8, <2>9, <2>a DEF ContextInv
  <1> QED BY <1>9, <1>a, <1>b
LEMMA RemoveSocketKeeps ==
  ASSUME ContextInv, c_exit = "running", NEW t \in Threads, C!RemoveSocket(t)
  PROVE  ContextInv'
  <1>1. c_call[t].at = "remove"
    BY DEF C!RemoveSocket
  <1>2. c_call[t].op \in {"close", "delete"}
    BY <1>1, CallTypes DEF ContextInv, ContextCalls
  <1>3. PICK o \in Objects : o = c_call[t].of
    BY <1>2 DEF ContextInv, ContextCalls
  <1> DEFINE q == C!SocketsWithout(o)
             count == Len(c_sockets) - Len(q)
             closes == c_kind = "QMNet" /\ count > 0
             s == IF closes THEN C!Closed(c_object[o]) ELSE c_object[o]
  <1>4. /\ c_sockets' = q
        /\ c_open' = IF c_kind = "QMNet" THEN c_open - count ELSE c_open
        /\ C!Leaves(t, s)
        /\ UNCHANGED <<c_kind, c_max_sockets, c_made, c_initialized, c_exit, c_slips>>
    BY <1>3 DEF C!RemoveSocket
  <1>5. /\ C!Live(o) /\ c_object[o].home = t
        /\ \A u \in Threads : c_call[u].of = o => u = t
        /\ C!HasOpen(o) => C!Listed(o)
    BY <1>1, <1>2, <1>3, NotListing
  <1>6. /\ c_object[o] \in SocketRecords /\ c_made \in Nat /\ c_kind \in {"QMNet", "Context"}
        /\ c_sockets \in Seq(Objects) /\ c_open \in Int
    BY SocketFields DEF ContextInv, C!TypeOK
  <1>7. /\ q \in Seq(Objects) /\ C!Range(q) = C!Range(c_sockets) \ {o}
        /\ C!IsInjective(c_sockets) => C!IsInjective(q)
        /\ Len(q) \in Nat /\ Len(c_sockets) \in Nat /\ Len(q) <= Len(c_sockets)
        /\ Len(q) = Len(c_sockets) <=> ~C!Listed(o)
    BY SocketsWithoutIs DEF ContextInv
  <1> HIDE DEF q
  <1>8. C!HasOpen(o) => closes
    <2>1. C!HasOpen(o) => c_kind = "QMNet"
      BY <1>1, <1>3, <1>6 DEF ContextInv, ContextHolds
    <2>2. C!HasOpen(o) => Len(q) # Len(c_sockets)
      BY <1>5, <1>7
    <2>3. Len(q) # Len(c_sockets) => count > 0
      BY <1>7
    <2> QED BY <2>1, <2>2, <2>3
  <1>9. /\ s \in SocketRecords /\ s.life = c_object[o].life /\ s.home = c_object[o].home
        /\ s.parent = c_object[o].parent /\ ~(s.handle > 0)
        /\ s = c_object[o] \/ (s.owner => c_object[o].owner /\ ~C!HasOpen(o))
    <2>1. CASE closes
      <3>1. s = C!Closed(c_object[o])
        BY <2>1
      <3> HIDE DEF closes
      <3> QED BY <1>6, <3>1, ClosedIs DEF C!HasOpen
    <2>2. CASE ~closes
      <3>1. s = c_object[o] /\ ~C!HasOpen(o)
        BY <1>8, <2>2
      <3> HIDE DEF closes
      <3> QED BY <1>6, <3>1 DEF C!HasOpen
    <2> QED BY <2>1, <2>2
  <1> HIDE DEF s, closes
  <1>a. /\ C!Returns(t)
        /\ c_object' \in [Objects -> SocketRecords]
        /\ \A p \in Objects : p # o => c_object'[p] = c_object[p]
        /\ c_call[t].op # "delete" => c_object'[o] = s
        /\ c_call[t].op = "delete" => /\ c_object'[o].life = "deleted"
                                      /\ c_object'[o].home = s.home
                                      /\ ~(c_object'[o].handle > 0)
        /\ c_stray' \in Nat /\ c_stray' = c_stray
    BY <1>3, <1>4, <1>9, LeavesDoes
  <1>b. ContextCalls' /\ ContextHolds' /\ ContextEnd'
    BY <1>2, <1>3, <1>4, <1>a, Returned
  <1>c. ~(C!HasOpen(o))'
    BY <1>9, <1>a DEF C!HasOpen
  <1>d. ContextObjects'
    <2>1. \/ ~(C!Live(o))' /\ ~(C!HasOpen(o))'
          \/ /\ C!Live(o) /\ (C!Live(o))' /\ c_object'[o].parent = c_object[o].parent
             /\ c_object'[o].owner => c_object[o].owner /\ ~C!HasOpen(o)
             /\ ~(C!HasOpen(o))'
          \/ c_object'[o] = c_object[o]
      <3>1. CASE c_call[t].op = "delete"
        BY <1>a, <1>c, <3>1 DEF C!Live
      <3>2. CASE c_call[t].op # "delete"
        BY <1>5, <1>9, <1>a, <1>c, <3>2 DEF C!Live
      <3> QED BY <3>1, <3>2
    <2>2. c_object'[o].home = c_object[o].home
      BY <1>9, <1>a
    <2> QED BY <1>4, <1>a, <2>1, <2>2, ObjectsAfter
  <1>e. /\ c_call' \in [Threads ->
            [at : {"idle", "init", "make", "enter", "list", "close", "remove",
                   "busy", "destroy", "base", "term"},
             op : {"none", "create", "base", "append", "close", "delete", "threads", "shutdown", "exit"},
             of : Objects \cup {"none"}]]
        /\ \A u \in Threads : u # t => c_call'[u] = c_call[u]
        /\ c_call'[t].at = "idle"
    BY <1>a, CallReturns DEF ContextInv
  <1>f. c_open' \in Int
    BY <1>4, <1>6, <1>7
  <1>g. C!TypeOK'
    BY <1>4, <1>7, <1>a, <1>e, <1>f DEF ContextInv, C!TypeOK, SocketRecords
  <1>h. ContextListed'
    <2>1. \A p \in Objects : (C!Listed(p))' <=> C!Listed(p) /\ p # o
      BY <1>4, <1>7 DEF C!Listed
    <2>2. ASSUME NEW p \in Objects, (C!Listed(p))', c_object'[p].home = "main"
          PROVE  /\ (C!Live(p))'
                 /\ c_object'[p].owner \/ \E u \in Threads : c_call'[u].of = p /\ c_call'[u].at = "remove"
      <3>1. p # o /\ c_object'[p] = c_object[p] /\ C!Listed(p) /\ c_object[p].home = "main"
        BY <1>a, <2>1, <2>2
      <3>2. C!Live(p) /\ (c_object[p].owner \/ \E u \in Threads : c_call[u].of = p /\ c_call[u].at = "remove")
        BY <3>1 DEF ContextInv, ContextListed
      <3>3. ASSUME NEW u \in Threads, c_call[u].of = p, c_call[u].at = "remove"
            PROVE  c_call'[u].of = p /\ c_call'[u].at = "remove"
        BY <1>3, <1>e, <3>1, <3>3
      <3> QED BY <3>1, <3>2, <3>3 DEF C!Live
    <2>3. ASSUME NEW p \in Objects, (C!HasOpen(p))'
          PROVE  (C!Listed(p))' \/ \E u \in Threads : c_call'[u].of = p /\ c_call'[u].at = "list"
      <3>1. p # o /\ c_object'[p] = c_object[p] /\ C!HasOpen(p)
        BY <1>a, <1>c, <2>3 DEF C!HasOpen
      <3>2. C!Listed(p) \/ \E u \in Threads : c_call[u].of = p /\ c_call[u].at = "list"
        BY <3>1 DEF ContextInv, ContextListed
      <3>3. ASSUME NEW u \in Threads, c_call[u].of = p, c_call[u].at = "list"
            PROVE  c_call'[u].of = p /\ c_call'[u].at = "list"
        BY <1>3, <1>e, <3>1, <3>3
      <3> QED BY <2>1, <3>1, <3>2, <3>3
    <2>4. ASSUME "other thread" \notin c_slips'
          PROVE  /\ IsInjective(c_sockets')
                 /\ \A u \in Threads : c_call'[u].at = "list" /\ c_call'[u].op # "append" => ~(C!Listed(c_call[u].of))'
      <3>1. /\ C!IsInjective(c_sockets)
            /\ \A u \in Threads : c_call[u].at = "list" /\ c_call[u].op # "append" => ~C!Listed(c_call[u].of)
        BY <1>4, <2>4 DEF ContextInv, ContextListed, IsInjective, C!IsInjective
      <3>2. IsInjective(c_sockets')
        BY <1>4, <1>7, <3>1 DEF IsInjective, C!IsInjective
      <3>3. ASSUME NEW u \in Threads, c_call'[u].at = "list", c_call'[u].op # "append"
            PROVE  ~(C!Listed(c_call[u].of))'
        <4>1. c_call'[u] = c_call[u]
          BY <1>e, <3>3
        <4>2. c_call[u].of \in Objects
          BY <3>3, <4>1, CallTypes DEF ContextInv, ContextCalls
        <4> QED BY <2>1, <3>1, <3>3, <4>1, <4>2
      <3> QED BY <3>2, <3>3
    <2> QED BY <2>2, <2>3, <2>4 DEF ContextListed
  <1>i. ContextCounted'
    <2>1. \A u \in Threads : c_call'[u].at = "list" => c_call[u].at = "list"
      BY <1>e
    <2>2. CASE c_kind = "QMNet"
      <3>1. /\ "shutdown" \notin c_slips => c_open <= Len(c_sockets)
            /\ "base" \notin c_slips => c_open >= Len(c_sockets) /\ \A u \in Threads : c_call[u].at # "list"
            /\ c_initialized \/ c_open <= 0
        BY <2>2 DEF ContextInv, ContextCounted
      <3>2. c_open' = c_open - (Len(c_sockets) - Len(q))
        BY <1>4, <2>2
      <3>3. /\ c_open <= Len(c_sockets) => c_open' <= Len(q)
            /\ c_open >= Len(c_sockets) => c_open' >= Len(q)
            /\ c_open <= 0 => c_open' <= 0
        BY <1>6, <1>7, <3>2
      <3>4. /\ "shutdown" \notin c_slips' => c_open' <= Len(c_sockets')
            /\ "base" \notin c_slips' => c_open' >= Len(c_sockets') /\ \A u \in Threads : c_call'[u].at # "list"
            /\ c_initialized' \/ c_open' <= 0
        BY <1>4, <2>1, <3>1, <3>3
      <3> QED BY <1>4, <1>a, <3>4 DEF ContextInv, ContextCounted
    <2>3. CASE c_kind # "QMNet"
      BY <1>4, <1>a, <2>3 DEF ContextInv, ContextCounted
    <2> QED BY <2>2, <2>3
  <1> QED BY <1>b, <1>d, <1>g, <1>h, <1>i DEF ContextInv

LEMMA ContextResetKeeps ==
  ASSUME ContextInv, c_exit = "running", NEW t \in Threads, C!ContextReset(t)
  PROVE  ContextInv'
  <1>1. /\ c_call[t].at = "enter" /\ C!AsContext(t) /\ C!Reset(t) /\ C!Goes(t, "list")
        /\ UNCHANGED <<c_kind, c_max_sockets, c_made, c_initialized, c_sockets, c_open, c_exit>>
    BY DEF C!ContextReset
  <1>2. c_call[t].op \in {"create", "base", "append"}
    BY <1>1, CallTypes DEF ContextInv, ContextCalls, C!AsContext
  <1>3. PICK o \in Objects : o = c_call[t].of
    BY <1>2 DEF ContextInv, ContextCalls
  <1>4. /\ c_object'[o] \in [life : {"live"}, home : {t}, parent : BOOLEAN, owner : {TRUE}, handle : {-1, c_made}]
        /\ \A p \in Objects : p # o => c_object'[p] = c_object[p]
        /\ c_slips \subseteq c_slips'
        /\ c_slips' \subseteq {"other thread", "again", "limit", "base", "two contexts", "shutdown"}
        /\ c_call[t].op = "base" /\ c_kind = "QMNet" => "base" \in c_slips'
        /\ t # "main" => "other thread" \in c_slips'
        /\ c_stray' \in Nat
    <2> DEFINE z == c_call[t].of
    <2>1. /\ c_object'[z] \in [life : {"live"}, home : {t}, parent : BOOLEAN, owner : {TRUE}, handle : {-1, c_made}]
          /\ \A p \in Objects : p # z => c_object'[p] = c_object[p]
      BY <1>1, <1>2, ResetDoes
    <2>2. /\ c_slips \subseteq c_slips'
          /\ c_slips' \subseteq {"other thread", "again", "limit", "base", "two contexts", "shutdown"}
          /\ c_call[t].op = "base" /\ c_kind = "QMNet" => "base" \in c_slips'
          /\ t # "main" => "other thread" \in c_slips'
          /\ c_stray' \in Nat
      BY <1>1, <1>2, ResetDoes
    <2>3. z = o
      BY <1>3
    <2> HIDE DEF z
    <2> QED BY <2>1, <2>2, <2>3
  <1>5. /\ c_object' \in [Objects -> [life : {"none", "live", "deleted"}, home : Threads,
                             parent : BOOLEAN, owner : BOOLEAN, handle : {-1} \cup 0 .. c_made]]
        /\ ContextObjects'
        /\ c_stray' > 0 => c_slips' \cap {"other thread", "again"} # {}
    BY <1>1, <1>2, ResetObjects
  <1>6. /\ c_call' \in [Threads ->
            [at : {"idle", "init", "make", "enter", "list", "close", "remove",
                   "busy", "destroy", "base", "term"},
             op : {"none", "create", "base", "append", "close", "delete", "threads", "shutdown", "exit"},
             of : Objects \cup {"none"}]]
        /\ \A u \in Threads : u # t => c_call'[u] = c_call[u]
        /\ c_call'[t].at = "list" /\ c_call'[t].op = c_call[t].op /\ c_call'[t].of = o
    BY <1>1, <1>3, CallTypesNext DEF ContextInv
  <1>7. C!TypeOK'
    BY <1>1, <1>4, <1>5, <1>6 DEF ContextInv, C!TypeOK
  <1>8. c_call["main"].op # "exit" /\ c_call["main"].at \notin {"base", "term"}
    BY <1>2, NotTheEnd
  <1>9. c_object'[o].life = "live" /\ c_object'[o].home = t /\ c_object'[o].owner
    BY <1>4
  <1>a. \A u \in Threads : c_call[u].of = o => u = t
    BY <1>3 DEF ContextInv, ContextHolds
  <1>b. ContextCalls'
    <2>1. \A u \in Threads : c_call'[u].op = "exit" => c_call[u].op = "exit"
      BY <1>6
    <2>2. c_made > 0
      BY <1>1 DEF ContextInv, ContextCalls
    <2> QED BY <1>1, <1>2, <1>3, <1>6, <1>8, <2>1, <2>2, ContextAssumption DEF ContextInv, ContextCalls, C!AsContext
  <1>c. ContextHolds'
    <2> SUFFICES ASSUME NEW u \in Threads, c_call'[u].of \in Objects
                 PROVE  /\ \A v \in Threads : c_call'[v].of = c_call'[u].of => v = u
                        /\ IF c_call'[u].op \in {"create", "base"} /\ c_call'[u].at # "list"
                           THEN ~(C!Live(c_call[u].of))'
                           ELSE (C!Live(c_call[u].of))' /\ c_object'[c_call'[u].of].home = u
                        /\ c_call'[u].at = "list" => c_object'[c_call'[u].of].owner
                        /\ c_call'[u].at = "remove" /\ c_kind = "Context" => ~(C!HasOpen(c_call[u].of))'
      BY <1>1 DEF ContextHolds, C!Live, C!HasOpen
    <2>1. CASE u = t
      <3>1. \A v \in Threads : c_call'[v].of = o => v = u
        BY <1>6, <1>a, <2>1
      <3> QED BY <1>6, <1>9, <2>1, <3>1 DEF C!Live
    <2>2. CASE u # t
      <3>1. c_call'[u] = c_call[u] /\ c_call[u].of # o
        BY <1>6, <1>a, <2>2
      <3>2. c_object'[c_call[u].of] = c_object[c_call[u].of]
        BY <1>4, <3>1
      <3>3. \A v \in Threads : c_call'[v].of = c_call'[u].of => v = u
        BY <1>6, <3>1 DEF ContextInv, ContextHolds
      <3>4. /\ IF c_call[u].op \in {"create", "base"} /\ c_call[u].at # "list" THEN ~C!Live(c_call[u].of)
               ELSE C!Live(c_call[u].of) /\ c_object[c_call[u].of].home = u
            /\ c_call[u].at = "list" => c_object[c_call[u].of].owner
            /\ c_call[u].at = "remove" /\ c_kind = "Context" => ~C!HasOpen(c_call[u].of)
        BY <3>1 DEF ContextInv, ContextHolds
      <3> QED BY <3>1, <3>2, <3>3, <3>4 DEF C!Live, C!HasOpen
    <2> QED BY <2>1, <2>2
  <1>d. ContextEnd'
    <2>1. c_call'["main"].at \notin {"base", "term"}
      BY <1>6, <1>8, ContextAssumption
    <2> QED BY <2>1 DEF ContextEnd
  <1>e. ContextListed'
    <2>1. \A p \in Objects : (C!Listed(p))' <=> C!Listed(p)
      BY <1>1 DEF C!Listed
    <2>2. ASSUME NEW p \in Objects, (C!Listed(p))', c_object'[p].home = "main"
          PROVE  /\ (C!Live(p))'
                 /\ c_object'[p].owner \/ \E u \in Threads : c_call'[u].of = p /\ c_call'[u].at = "remove"
      <3>1. CASE p = o
        BY <1>9, <3>1 DEF C!Live
      <3>2. CASE p # o
        <4>1. c_object'[p] = c_object[p] /\ C!Listed(p) /\ c_object[p].home = "main"
          BY <1>4, <2>1, <2>2, <3>2
        <4>2. C!Live(p) /\ (c_object[p].owner \/ \E u \in Threads : c_call[u].of = p /\ c_call[u].at = "remove")
          BY <4>1 DEF ContextInv, ContextListed
        <4>3. ASSUME NEW u \in Threads, c_call[u].of = p, c_call[u].at = "remove"
              PROVE  c_call'[u].of = p /\ c_call'[u].at = "remove"
          BY <1>3, <1>6, <3>2, <4>3
        <4> QED BY <4>1, <4>2, <4>3 DEF C!Live
      <3> QED BY <3>1, <3>2
    <2>3. ASSUME NEW p \in Objects, (C!HasOpen(p))'
          PROVE  (C!Listed(p))' \/ \E u \in Threads : c_call'[u].of = p /\ c_call'[u].at = "list"
      <3>1. CASE p = o
        BY <1>6, <3>1
      <3>2. CASE p # o
        <4>1. C!HasOpen(p)
          BY <1>4, <2>3, <3>2 DEF C!HasOpen
        <4>2. C!Listed(p) \/ \E u \in Threads : c_call[u].of = p /\ c_call[u].at = "list"
          BY <4>1 DEF ContextInv, ContextListed
        <4>3. ASSUME NEW u \in Threads, c_call[u].of = p, c_call[u].at = "list"
              PROVE  c_call'[u].of = p /\ c_call'[u].at = "list"
          BY <1>3, <1>6, <3>2, <4>3
        <4> QED BY <2>1, <4>2, <4>3
      <3> QED BY <3>1, <3>2
    <2>4. ASSUME "other thread" \notin c_slips'
          PROVE  /\ IsInjective(c_sockets')
                 /\ \A u \in Threads : c_call'[u].at = "list" /\ c_call'[u].op # "append" => ~(C!Listed(c_call[u].of))'
      <3>1. /\ IsInjective(c_sockets) /\ "other thread" \notin c_slips
            /\ \A u \in Threads : c_call[u].at = "list" /\ c_call[u].op # "append" => ~C!Listed(c_call[u].of)
        BY <1>4, <2>4 DEF ContextInv, ContextListed
      <3>2. IsInjective(c_sockets')
        BY <1>1, <3>1
      <3>3. ASSUME NEW u \in Threads, c_call'[u].at = "list", c_call'[u].op # "append"
            PROVE  ~(C!Listed(c_call[u].of))'
        <4>1. CASE u = t
          <5>1. ~C!Live(o)
            BY <1>1, <1>2, <1>3, <1>6, <3>3, <4>1 DEF ContextInv, ContextHolds
          <5>2. ~C!Listed(o)
            BY <3>1, <5>1, NewNotListed
          <5> QED BY <1>6, <2>1, <4>1, <5>2 DEF C!Listed
        <4>2. CASE u # t
          <5>1. c_call'[u] = c_call[u]
            BY <1>6, <4>2
          <5>2. c_call[u].of \in Objects
            BY <3>3, <5>1, CallTypes DEF ContextInv, ContextCalls
          <5> QED BY <2>1, <3>1, <3>3, <5>1, <5>2
        <4> QED BY <4>1, <4>2
      <3> QED BY <3>2, <3>3
    <2> QED BY <2>2, <2>3, <2>4 DEF ContextListed
  <1>f. ContextCounted'
    <2>1. c_kind = "QMNet" /\ "base" \notin c_slips' => \A u \in Threads : c_call'[u].at # "list"
      <3> SUFFICES ASSUME c_kind = "QMNet", "base" \notin c_slips', NEW u \in Threads, c_call'[u].at = "list"
                   PROVE  FALSE
        OBVIOUS
      <3>1. u # t
        BY <1>1, <1>4 DEF C!AsContext
      <3>2. c_call[u].at # "list"
        BY <1>4 DEF ContextInv, ContextCounted
      <3> QED BY <1>6, <3>1, <3>2
    <2> QED BY <1>1, <1>4, <1>5, <2>1 DEF ContextInv, ContextCounted
  <1> QED BY <1>5, <1>7, <1>b, <1>c, <1>d, <1>e, <1>f DEF ContextInv

LEMMA ContextListKeeps ==
  ASSUME ContextInv, c_exit = "running", NEW t \in Threads, C!ContextList(t)
  PROVE  ContextInv'
  <1>1. /\ c_call[t].at = "list" /\ C!Returns(t)
        /\ UNCHANGED <<c_kind, c_max_sockets, c_made, c_initialized, c_open, c_object, c_stray, c_exit, c_slips>>
    BY DEF C!ContextList
  <1>2. c_call[t].op \in {"create", "base", "append"} /\ C!AsContext(t)
    BY <1>1, CallTypes DEF ContextInv, ContextCalls
  <1>3. PICK o \in Objects : o = c_call[t].of
    BY <1>2 DEF ContextInv, ContextCalls
  <1> DEFINE q == IF c_call[t].op = "append" THEN C!SocketsWithout(o) ELSE c_sockets
  <1>4. c_sockets' = Append(q, o)
    BY <1>3 DEF C!ContextList
  <1>5. c_sockets \in Seq(Objects) /\ c_open \in Int
    BY DEF ContextInv, C!TypeOK
  <1>6. /\ C!SocketsWithout(o) \in Seq(Objects)
        /\ C!Range(C!SocketsWithout(o)) = C!Range(c_sockets) \ {o}
    BY SocketsWithoutIs DEF ContextInv
  <1>7. q \in Seq(Objects) /\ q \in {c_sockets, C!SocketsWithout(o)}
    BY <1>5, <1>6
  <1>8. "other thread" \notin c_slips => o \notin C!Range(q)
    <2>1. c_call[t].op # "append" /\ "other thread" \notin c_slips => ~C!Listed(o)
      BY <1>1, <1>3 DEF ContextInv, ContextListed
    <2> QED BY <1>6, <2>1 DEF C!Listed
  <1>9. c_kind = "QMNet" => q = c_sockets
    BY <1>2 DEF ContextInv, ContextCalls, C!AsContext
  <1> HIDE DEF q
  <1>a. c_sockets' \in Seq(Objects) /\ Len(c_sockets') = Len(q) + 1 /\ Len(q) \in Nat
    BY <1>4, <1>7, SocketsAppended
  <1>b. /\ c_call' \in [Threads ->
            [at : {"idle", "init", "make", "enter", "list", "close", "remove",
                   "busy", "destroy", "base", "term"},
             op : {"none", "create", "base", "append", "close", "delete", "threads", "shutdown", "exit"},
             of : Objects \cup {"none"}]]
        /\ \A u \in Threads : u # t => c_call'[u] = c_call[u]
        /\ c_call'[t].at = "idle"
    BY <1>1, CallReturns DEF ContextInv
  <1>c. C!TypeOK'
    BY <1>1, <1>a, <1>b DEF ContextInv, C!TypeOK
  <1>d. ContextCalls' /\ ContextHolds' /\ ContextEnd'
    BY <1>1, <1>2, Returned
  <1>e. ContextObjects'
    BY <1>1 DEF ContextInv, ContextObjects, C!Live, C!HasOpen
  <1>f. ContextListed'
    <2>1. C!Live(o) /\ c_object[o].owner
      BY <1>1, <1>3 DEF ContextInv, ContextHolds
    <2>2. c_object'[o].life = "live" /\ c_object'[o].owner /\ c_call[t].of = o /\ c_call[t].at # "remove"
      BY <1>1, <1>3, <2>1 DEF C!Live
    <2>3. /\ \A p \in Objects : p # o => c_object'[p] = c_object[p]
          /\ c_slips \subseteq c_slips' /\ ("other thread" \notin c_slips' => o \notin C!Range(q))
      BY <1>1, <1>8
    <2> QED BY <1>1, <1>4, <1>7, <2>2, <2>3, ListedAppended
  <1>g. ContextCounted'
    <2>1. CASE c_kind = "QMNet"
      <3>1. /\ "base" \in c_slips
            /\ "shutdown" \notin c_slips => c_open <= Len(c_sockets)
        BY <1>1, <2>1 DEF ContextInv, ContextCounted
      <3>2. c_open <= Len(c_sockets) => c_open <= Len(c_sockets')
        BY <1>5, <1>9, <1>a, <2>1
      <3> QED BY <1>1, <3>1, <3>2 DEF ContextInv, ContextCounted
    <2>2. CASE c_kind # "QMNet"
      BY <1>1, <2>2 DEF ContextInv, ContextCounted
    <2> QED BY <2>1, <2>2
  <1> QED BY <1>c, <1>d, <1>e, <1>f, <1>g DEF ContextInv

LEMMA HandlesAre ==
  ASSUME ContextInv
  PROVE  /\ C!Handles \in Nat
         /\ C!Handles > 0 => c_stray > 0 \/ \E o \in Objects : C!HasOpen(o)
         /\ ~(C!Handles > 0) => \A o \in Objects : ~C!HasOpen(o)
  <1> DEFINE holders == {o \in Objects : C!HasOpen(o)}
  <1>1. C!Handles = Cardinality(holders) + c_stray
    BY DEF C!Handles, C!Cardinality, Cardinality, C!IsFiniteSet, IsFiniteSet
  <1>2. IsFiniteSet(holders) /\ Cardinality(holders) \in Nat
    BY ContextAssumption, FS_Subset, FS_CardinalityType
  <1>3. c_stray \in Nat
    BY DEF ContextInv, C!TypeOK
  <1>4. Cardinality(holders) = 0 <=> holders = {}
    BY <1>2, FS_EmptySet
  <1> HIDE DEF holders
  <1>5. /\ C!Handles \in Nat
        /\ C!Handles > 0 => c_stray > 0 \/ holders # {}
        /\ ~(C!Handles > 0) => holders = {}
    BY <1>1, <1>2, <1>3, <1>4
  <1> QED BY <1>5 DEF holders

LEMMA NextCount ==
  ASSUME NEW n \in Nat, NEW m, m = n + 1
  PROVE  m \in Nat /\ m > 0 /\ 0 .. n \subseteq 0 .. m
  OBVIOUS

LEMMA InitializeKeeps ==
  ASSUME ContextInv, c_exit = "running", NEW t \in Threads, C!Initialize(t)
  PROVE  ContextInv'
  <1>1. /\ c_call[t].at = "make" /\ C!Goes(t, "enter") /\ c_made' = c_made + 1
        /\ c_slips' = c_slips \cup (IF c_made > 0 THEN {"two contexts"} ELSE {})
        /\ UNCHANGED <<c_kind, c_max_sockets, c_sockets, c_open, c_object, c_stray, c_exit>>
    BY DEF C!Initialize, C!Slips
  <1>2. c_initialized' = (c_initialized \/ ~C!AsContext(t))
    BY DEF C!Initialize
  <1>3. c_call[t].op \in {"create", "base", "append", "threads"}
    BY <1>1, CallTypes DEF ContextInv, ContextCalls
  <1>4. c_made \in Nat /\ c_made' \in Nat /\ c_made' > 0 /\ 0 .. c_made \subseteq 0 .. c_made'
    <2>1. c_made \in Nat
      BY DEF ContextInv, C!TypeOK
    <2> QED BY <1>1, <2>1, NextCount
  <1>5. /\ c_slips \subseteq c_slips'
        /\ c_slips' \subseteq {"other thread", "again", "limit", "base", "two contexts", "shutdown"}
    BY <1>1 DEF ContextInv, C!TypeOK
  <1>6. /\ c_call' \in [Threads ->
            [at : {"idle", "init", "make", "enter", "list", "close", "remove",
                   "busy", "destroy", "base", "term"},
             op : {"none", "create", "base", "append", "close", "delete", "threads", "shutdown", "exit"},
             of : Objects \cup {"none"}]]
        /\ \A u \in Threads : u # t => c_call'[u] = c_call[u]
        /\ c_call'[t].at = "enter" /\ c_call'[t].op = c_call[t].op /\ c_call'[t].of = c_call[t].of
    BY <1>1, CallTypesNext DEF ContextInv
  <1>7. C!TypeOK'
    <2>1. c_object' \in [Objects -> [life : {"none", "live", "deleted"}, home : Threads,
                             parent : BOOLEAN, owner : BOOLEAN, handle : {-1} \cup 0 .. c_made']]
      <3>1. c_object' \in [Objects -> [life : {"none", "live", "deleted"}, home : Threads,
                             parent : BOOLEAN, owner : BOOLEAN, handle : {-1} \cup 0 .. c_made]]
        BY <1>1 DEF ContextInv, C!TypeOK
      <3> QED BY <1>4, <3>1
    <2>2. c_initialized' \in BOOLEAN
      BY <1>2, Zenon
    <2> QED BY <1>1, <1>4, <1>5, <1>6, <2>1, <2>2 DEF ContextInv, C!TypeOK
  <1>8. c_call["main"].op # "exit" /\ c_call["main"].at \notin {"base", "term"}
    BY <1>3, NotTheEnd
  <1>9. ContextCalls'
    <2> SUFFICES ASSUME NEW u \in Threads
        PROVE
          /\ c_call'[u].op \in {"create", "base", "append", "close", "delete"} <=> c_call'[u].of \in Objects
          /\ c_call'[u].op \in {"create", "base", "append"} => c_call'[u].at \in {"init", "make", "enter", "list"}
          /\ c_call'[u].op \in {"close", "delete"} => c_call'[u].at \in {"close", "remove"}
          /\ c_call'[u].op = "threads" => u = "main" /\ c_kind = "QMNet" /\ c_call'[u].at \in {"init", "make", "enter"}
          /\ c_call'[u].op = "shutdown" => u = "main" /\ c_kind = "QMNet" /\ c_call'[u].at \in {"busy", "destroy"}
          /\ c_call'[u].op # "exit"
          /\ c_call'[u].op = "none" => c_call'[u].at = "idle"
          /\ c_call'[u].op = "base" => c_kind = "QMNet"
          /\ c_call'[u].at = "list" => c_kind = "Context" \/ c_call'[u].op = "base"
          /\ c_call'[u].at = "enter" /\ ~(c_kind = "Context" \/ c_call'[u].op = "base") => c_initialized'
      BY <1>1, <1>4 DEF ContextCalls, C!AsContext
    <2>1. CASE u = t
      <3>1. ~(c_kind = "Context" \/ c_call[t].op = "base") => c_initialized'
        BY <1>2 DEF C!AsContext
      <3> QED BY <1>1, <1>3, <1>6, <2>1, <3>1 DEF ContextInv, ContextCalls
    <2>2. CASE u # t
      <3>1. c_call'[u] = c_call[u]
        BY <1>6, <2>2
      <3>2. c_call[u].op # "exit"
        BY <1>8 DEF ContextInv, ContextCalls
      <3>3. c_initialized => c_initialized'
        BY <1>2
      <3> QED BY <3>1, <3>2, <3>3 DEF ContextInv, ContextCalls, C!AsContext
    <2> QED BY <2>1, <2>2
  <1>a. ContextHolds'
    <2> SUFFICES ASSUME NEW u \in Threads, c_call'[u].of \in Objects
                 PROVE  /\ \A v \in Threads : c_call'[v].of = c_call'[u].of => v = u
                        /\ IF c_call'[u].op \in {"create", "base"} /\ c_call'[u].at # "list"
                           THEN ~C!Live(c_call'[u].of)
                           ELSE C!Live(c_call'[u].of) /\ c_object[c_call'[u].of].home = u
                        /\ c_call'[u].at = "list" => c_object[c_call'[u].of].owner
                        /\ c_call'[u].at = "remove" /\ c_kind = "Context" => ~C!HasOpen(c_call'[u].of)
      BY <1>1 DEF ContextHolds, C!Live, C!HasOpen
    <2>1. \A v \in Threads : c_call'[v].of = c_call[v].of /\ c_call'[v].op = c_call[v].op
      BY <1>6
    <2>2. \A v \in Threads : c_call'[v].of = c_call'[u].of => v = u
      BY <2>1 DEF ContextInv, ContextHolds
    <2>3. /\ IF c_call[u].op \in {"create", "base"} /\ c_call[u].at # "list" THEN ~C!Live(c_call[u].of)
             ELSE C!Live(c_call[u].of) /\ c_object[c_call[u].of].home = u
          /\ c_call[u].at = "list" => c_object[c_call[u].of].owner
          /\ c_call[u].at = "remove" /\ c_kind = "Context" => ~C!HasOpen(c_call[u].of)
      BY <2>1 DEF ContextInv, ContextHolds
    <2>4. /\ c_call'[u].at = "list" <=> c_call[u].at = "list"
          /\ c_call'[u].at = "remove" => c_call[u].at = "remove"
      BY <1>1, <1>6
    <2> QED BY <2>1, <2>2, <2>3, <2>4
  <1>b. ContextObjects'
    <2> SUFFICES ASSUME NEW o \in Objects
        PROVE  /\ C!HasOpen(o) => C!Live(o) /\ c_object[o].owner
               /\ c_object[o].home # "main" => "other thread" \in c_slips'
               /\ C!Live(o) /\ c_object[o].owner /\ c_object[o].home = "main" => c_object[o].parent
               /\ C!Live(o) /\ c_object[o].owner /\ ~C!HasOpen(o) => "limit" \in c_slips'
               /\ C!HasOpen(o) => "two contexts" \in c_slips'
      BY <1>1 DEF ContextObjects, C!HasOpen, C!Live
    <2>1. C!HasOpen(o) => "two contexts" \in c_slips'
      <3>1. c_object[o].handle \in {-1} \cup 0 .. c_made
        BY DEF ContextInv, C!TypeOK
      <3>2. C!HasOpen(o) => c_made > 0
        BY <1>4, <3>1 DEF C!HasOpen
      <3> QED BY <1>1, <3>2
    <2> QED BY <1>5, <2>1 DEF ContextInv, ContextObjects
  <1>c. ContextListed'
    <2>1. \A u \in Threads : c_call[u].at \in {"list", "remove"} \/ c_call'[u].at = "list"
            => c_call'[u] = c_call[u]
      BY <1>1, <1>6
    <2> QED BY <1>1, <1>5, <2>1, ListedAfter DEF ContextInv
  <1>d. ContextCounted'
    <2>1. \A u \in Threads : c_call'[u].at = "list" => c_call[u].at = "list"
      BY <1>6
    <2>2. c_initialized => c_initialized'
      BY <1>2
    <2> QED BY <1>1, <1>4, <1>5, <2>1, <2>2 DEF ContextInv, ContextCounted
  <1>e. ContextEnd'
    <2>1. c_call'["main"].at \notin {"base", "term"}
      BY <1>6, <1>8, ContextAssumption
    <2> QED BY <2>1 DEF ContextEnd
  <1> QED BY <1>7, <1>9, <1>a, <1>b, <1>c, <1>d, <1>e DEF ContextInv

LEMMA StillClean == c_exit' = "running" => C!CleanExit'
  BY DEF C!CleanExit

LEMMA SetIoThreadsKeeps ==
  ASSUME ContextInv, c_exit = "running", C!SetIoThreads
  PROVE  ContextInv' /\ C!CleanExit'
  <1>1. /\ c_call["main"].at = "enter" /\ c_call["main"].op = "threads"
        /\ UNCHANGED <<c_kind, c_max_sockets, c_initialized, c_sockets, c_open, c_object, c_stray, c_slips>>
        /\ \/ c_open > 0 /\ c_exit' = "aborted" /\ UNCHANGED <<c_made, c_call>>
           \/ ~(c_open > 0) /\ C!Handles > 0 /\ c_exit' = "waits" /\ UNCHANGED <<c_made, c_call>>
           \/ ~(C!Handles > 0) /\ c_made' = c_made + 1 /\ C!Returns("main") /\ UNCHANGED c_exit
    <2>1. c_open \in Int
      BY DEF ContextInv, C!TypeOK
    <2>2. C!Handles \in Nat
      BY HandlesAre
    <2>3. c_open > 0 \/ c_open <= 0
      BY <2>1
    <2>4. /\ c_call["main"].at = "enter" /\ c_call["main"].op = "threads"
          /\ UNCHANGED <<c_kind, c_max_sockets, c_initialized, c_sockets, c_open, c_object, c_stray, c_slips>>
      BY DEF C!SetIoThreads
    <2>5. CASE c_open > 0
      <3>1. ~(c_open <= 0)
        BY <2>1, <2>5
      <3> QED BY <2>4, <2>5, <3>1, Zenon DEF C!SetIoThreads
    <2>6. CASE c_open <= 0 /\ C!Handles > 0
      <3>1. ~(c_open > 0)
        BY <2>1, <2>6
      <3> QED BY <2>4, <2>6, <3>1, Zenon DEF C!SetIoThreads
    <2>7. CASE c_open <= 0 /\ ~(C!Handles > 0)
      <3>1. ~(c_open > 0)
        BY <2>1, <2>7
      <3> QED BY <2>4, <2>7, <3>1, Zenon DEF C!SetIoThreads
    <2> QED BY <2>3, <2>5, <2>6, <2>7
  <1>2. c_kind = "QMNet" /\ c_open \in Int /\ c_sockets \in Seq(Objects) /\ c_made \in Nat
    BY <1>1, ContextAssumption DEF ContextInv, ContextCalls, C!TypeOK
  <1>3. CASE c_exit' # "running"
    <2>1. UNCHANGED <<c_made, c_call>> /\ c_exit' \in {"aborted", "waits"}
      BY <1>1, <1>3
    <2>2. C!TypeOK'
      BY <1>1, <2>1 DEF ContextInv, C!TypeOK, C!Exits
    <2>3. ContextCalls' /\ ContextHolds' /\ ContextObjects'
      BY <1>1, <2>1 DEF ContextInv, ContextCalls, ContextHolds, ContextObjects, C!AsContext, C!Live, C!HasOpen
    <2>4. ContextListed'
      BY <1>1, <2>1, ListedAfter DEF ContextInv
    <2>5. ContextCounted' /\ ContextEnd'
      BY <1>1, <1>3, <2>1 DEF ContextInv, ContextCounted, ContextEnd
    <2>6. C!CleanExit'
      <3>1. CASE c_exit' = "aborted"
        <4>1. c_sockets = <<>> => "shutdown" \in c_slips
          <5>1. "shutdown" \notin c_slips => c_open <= Len(c_sockets)
            BY <1>2 DEF ContextInv, ContextCounted
          <5>2. c_open > 0
            BY <1>1, <1>3, <3>1
          <5> QED BY <1>2, <5>1, <5>2
        <4> QED BY <1>1, <3>1, <4>1 DEF C!CleanExit
      <3>2. CASE c_exit' = "waits"
        <4>1. ~(c_open > 0) /\ C!Handles > 0
          BY <1>1, <1>3, <3>2
        <4>2. c_slips \cap {"other thread", "again", "base"} # {}
          <5>1. c_stray > 0 => c_slips \cap {"other thread", "again"} # {}
            BY DEF ContextInv, ContextCounted
          <5>2. ASSUME NEW o \in Objects, C!HasOpen(o), "base" \notin c_slips
                PROVE  FALSE
            <6>1. c_open >= Len(c_sockets) /\ \A t \in Threads : c_call[t].at # "list"
              BY <1>2, <5>2 DEF ContextInv, ContextCounted
            <6>2. o \in C!Range(c_sockets)
              BY <5>2, <6>1 DEF ContextInv, ContextListed, C!Listed
            <6>3. Len(c_sockets) > 0
              BY <1>2, <6>2 DEF C!Range
            <6> QED BY <1>2, <4>1, <6>1, <6>3
          <5> QED BY <4>1, <5>1, <5>2, HandlesAre
        <4> QED BY <1>1, <3>2, <4>2 DEF C!CleanExit
      <3> QED BY <2>1, <3>1, <3>2
    <2> QED BY <2>2, <2>3, <2>4, <2>5, <2>6 DEF ContextInv
  <1>4. CASE c_exit' = "running"
    <2>1. ~(C!Handles > 0) /\ c_made' = c_made + 1 /\ C!Returns("main") /\ UNCHANGED c_exit
      BY <1>1, <1>4
    <2>2. \A o \in Objects : ~C!HasOpen(o)
      BY <2>1, HandlesAre
    <2>3. c_made' \in Nat /\ c_made' > 0 /\ 0 .. c_made \subseteq 0 .. c_made'
      BY <1>2, <2>1
    <2>4. /\ c_call' \in [Threads ->
            [at : {"idle", "init", "make", "enter", "list", "close", "remove",
                   "busy", "destroy", "base", "term"},
             op : {"none", "create", "base", "append", "close", "delete", "threads", "shutdown", "exit"},
             of : Objects \cup {"none"}]]
          /\ \A u \in Threads : u # "main" => c_call'[u] = c_call[u]
          /\ c_call'["main"] = C!Idle /\ c_call'["main"].at = "idle"
          /\ c_call'["main"].op = "none" /\ c_call'["main"].of = "none"
      BY <2>1, CallReturns, ContextAssumption DEF ContextInv
    <2>5. C!TypeOK'
      <3>1. c_object' \in [Objects -> [life : {"none", "live", "deleted"}, home : Threads,
                             parent : BOOLEAN, owner : BOOLEAN, handle : {-1} \cup 0 .. c_made']]
        <4>1. c_object' \in [Objects -> [life : {"none", "live", "deleted"}, home : Threads,
                             parent : BOOLEAN, owner : BOOLEAN, handle : {-1} \cup 0 .. c_made]]
          BY <1>1 DEF ContextInv, C!TypeOK
        <4> QED BY <2>3, <4>1
      <3> QED BY <1>1, <2>1, <2>3, <2>4, <3>1 DEF ContextInv, C!TypeOK
    <2>6. ContextCalls'
      BY <1>1, <2>3, <2>4, ContextAssumption DEF ContextInv, ContextCalls, C!AsContext
    <2>7. ContextHolds'
      BY <1>1, <2>4, ContextAssumption DEF ContextInv, ContextHolds, C!Live, C!HasOpen
    <2>8. ContextObjects'
      BY <1>1, <2>2 DEF ContextInv, ContextObjects, C!Live, C!HasOpen
    <2>9. ContextListed'
      <3>1. \A u \in Threads : c_call[u].at \in {"list", "remove"} \/ c_call'[u].at = "list"
              => c_call'[u] = c_call[u]
        BY <1>1, <2>4
      <3> QED BY <1>1, <3>1, ListedAfter DEF ContextInv
    <2>a. ContextCounted'
      <3>1. \A u \in Threads : c_call'[u].at = "list" => c_call[u].at = "list"
        BY <2>4
      <3> QED BY <1>1, <2>3, <3>1 DEF ContextInv, ContextCounted
    <2>b. ContextEnd'
      BY <2>4 DEF ContextEnd
    <2> QED BY <1>4, <2>5, <2>6, <2>7, <2>8, <2>9, <2>a, <2>b, StillClean DEF ContextInv
  <1> QED BY <1>3, <1>4

LEMMA EmptyList ==
  ASSUME NEW q, q = <<>>
  PROVE  /\ q \in Seq(Objects) /\ Len(q) = 0 /\ (\A o : o \notin C!Range(q)) /\ IsInjective(q)
  BY DEF C!Range, IsInjective

LEMMA ListHolds ==
  ASSUME NEW q \in Seq(Objects)
  PROVE  Len(q) \in Nat /\ \A o : o \in C!Range(q) => o \in Objects
  BY DEF C!Range

LEMMA HeldIs ==
  ASSUME ContextInv, NEW u \in Threads, NEW o \in Objects, c_call[u].of = o
  PROVE  /\ \A v \in Threads : c_call[v].of = o => v = u
         /\ c_call[u].op \in {"create", "base"} /\ c_call[u].at # "list" => ~C!Live(o)
         /\ ~(c_call[u].op \in {"create", "base"} /\ c_call[u].at # "list") =>
              C!Live(o) /\ c_object[o].home = u
         /\ c_call[u].at = "list" => c_object[o].owner
         /\ c_call[u].at = "remove" /\ c_kind = "Context" => ~C!HasOpen(o)
  BY DEF ContextInv, ContextHolds

(* What destroying the sockets does: it ends the application, for a reason,  *)
(* or it deletes what is in the list, which is all of main and alive.        *)
LEMMA DestroyDoes ==
  ASSUME ContextInv, c_exit = "running", NEW base \in BOOLEAN, C!DestroySockets(base)
  PROVE  \/ /\ c_exit' = "undefined" /\ "other thread" \in c_slips
            /\ UNCHANGED <<c_sockets, c_object>>
         \/ /\ c_exit' = "locked" /\ "limit" \in c_slips
            /\ UNCHANGED <<c_sockets, c_object>>
         \/ /\ c_exit' = "running" /\ c_sockets' = <<>>
            /\ \A o \in Objects : C!Listed(o) => C!Live(o) /\ c_object[o].home = "main"
            /\ c_object' = [o \in Objects |-> IF C!Listed(o) THEN [C!Closed(c_object[o]) EXCEPT !.life = "deleted"]
                                              ELSE c_object[o]]
  <1>0. \A o : o \in C!Range(c_sockets) => o \in Objects
    <2>1. c_sockets \in Seq(Objects)
      BY DEF ContextInv, C!TypeOK
    <2> QED BY <2>1, ListHolds
  <1>1. CASE C!Unsafe
    <2>1. c_exit' = "undefined" /\ UNCHANGED <<c_sockets, c_object>>
      BY <1>1 DEF C!DestroySockets
    <2>2. ASSUME NEW o \in C!Range(c_sockets), ~C!Live(o) \/ c_object[o].home # "main"
          PROVE  "other thread" \in c_slips
      BY <1>0, <2>2 DEF ContextInv, ContextObjects, ContextListed, C!Listed
    <2>3. ~C!IsInjective(c_sockets) => "other thread" \in c_slips
      BY DEF ContextInv, ContextListed, IsInjective, C!IsInjective
    <2> QED BY <1>1, <2>1, <2>2, <2>3 DEF C!Unsafe
  <1>2. CASE ~C!Unsafe /\ C!Sticks(base)
    <2>1. c_exit' = "locked" /\ UNCHANGED <<c_sockets, c_object>>
      BY <1>2 DEF C!DestroySockets
    <2>2. PICK o \in C!Range(c_sockets) : c_object[o].owner /\ ~C!HasOpen(o)
      BY <1>2 DEF C!Sticks
    <2>3. C!Live(o)
      BY <1>2, <2>2 DEF C!Unsafe
    <2> QED BY <1>0, <2>1, <2>2, <2>3 DEF ContextInv, ContextObjects
  <1>3. CASE ~C!Unsafe /\ ~C!Sticks(base)
    <2>1. /\ c_exit' = c_exit /\ c_sockets' = <<>>
          /\ c_object' = [o \in Objects |-> IF C!Listed(o) THEN [C!Closed(c_object[o]) EXCEPT !.life = "deleted"]
                                            ELSE c_object[o]]
      BY <1>3 DEF C!DestroySockets
    <2>2. \A o \in Objects : C!Listed(o) => C!Live(o) /\ c_object[o].home = "main"
      BY <1>3 DEF C!Unsafe, C!Listed
    <2> QED BY <2>1, <2>2
  <1> QED BY <1>1, <1>2, <1>3

LEMMA AtLeast ==
  ASSUME NEW a \in Int, NEW m \in Nat, NEW n, n = 0
  PROVE  a >= m => a >= n
  OBVIOUS

LEMMA RecordGone ==
  ASSUME NEW L, NEW H, NEW M, "deleted" \in L,
         NEW s \in [life : L, home : H, parent : BOOLEAN, owner : BOOLEAN, handle : M],
         NEW c, c = [s EXCEPT !.life = "deleted"]
  PROVE  /\ c \in [life : L, home : H, parent : BOOLEAN, owner : BOOLEAN, handle : M]
         /\ c.life = "deleted" /\ c.home = s.home /\ c.handle = s.handle
  OBVIOUS

(* The sockets are deleted: nobody had one of them, and the list is empty.   *)
LEMMA DestroyedKeeps ==
  ASSUME ContextInv, c_exit' = "running", c_sockets' = <<>>,
         \A o \in Objects : C!Listed(o) => C!Live(o) /\ c_object[o].home = "main",
         c_object' = [o \in Objects |-> IF C!Listed(o) THEN [C!Closed(c_object[o]) EXCEPT !.life = "deleted"]
                                        ELSE c_object[o]],
         c_call["main"].of = "none", c_call["main"].at \in {"destroy", "base"},
         c_call'["main"].of = "none", c_call'["main"].at \in {"idle", "base", "term"},
         \A u \in Threads : u # "main" => c_call'[u] = c_call[u],
         C!TypeOK => c_call' \in [Threads ->
            [at : {"idle", "init", "make", "enter", "list", "close", "remove",
                   "busy", "destroy", "base", "term"},
             op : {"none", "create", "base", "append", "close", "delete", "threads", "shutdown", "exit"},
             of : Objects \cup {"none"}]],
         c_slips \subseteq c_slips',
         c_slips' \subseteq {"other thread", "again", "limit", "base", "two contexts", "shutdown"},
         "shutdown" \in c_slips' \/ c_kind # "QMNet" \/ c_open <= 0,
         UNCHANGED <<c_kind, c_max_sockets, c_made, c_initialized, c_open, c_stray>>,
         ContextCalls', ContextEnd'
  PROVE  ContextInv'
  <1>1. c_sockets \in Seq(Objects) /\ c_made \in Nat /\ c_open \in Int
    BY DEF ContextInv, C!TypeOK
  <1>2. ASSUME NEW o \in Objects
        PROVE  /\ c_object'[o] \in SocketRecords
               /\ ~C!Listed(o) => c_object'[o] = c_object[o]
               /\ C!Listed(o) => /\ c_object'[o].life = "deleted" /\ c_object'[o].home = c_object[o].home
                                 /\ ~(c_object'[o].handle > 0)
    <2> DEFINE c == C!Closed(c_object[o])
               d == [c EXCEPT !.life = "deleted"]
    <2>1. c_object'[o] = IF C!Listed(o) THEN d ELSE c_object[o]
      OBVIOUS
    <2>2. c_object[o] \in SocketRecords
      BY SocketFields
    <2>3. c \in SocketRecords /\ c.home = c_object[o].home /\ ~(c.handle > 0)
      BY <1>1, <2>2, ClosedIs
    <2> HIDE DEF c
    <2>4. d \in SocketRecords /\ d.life = "deleted" /\ d.home = c.home /\ d.handle = c.handle
      <3>1. "deleted" \in {"none", "live", "deleted"}
        OBVIOUS
      <3> QED BY <2>3, <3>1, RecordGone DEF SocketRecords
    <2> HIDE DEF d
    <2> QED BY <2>1, <2>2, <2>3, <2>4
  <1>3. ASSUME NEW u \in Threads, NEW o \in Objects, c_call'[u].of = o
        PROVE  u # "main" /\ c_call'[u] = c_call[u] /\ c_object'[o] = c_object[o]
    <2>1. u # "main" /\ c_call'[u] = c_call[u]
      BY <1>3, ContextAssumption
    <2>2. ~C!Live(o) \/ c_object[o].home = u
      <3>1. c_call[u].of = o
        BY <1>3, <2>1
      <3> QED BY <3>1, HeldIs
    <2>3. ~C!Listed(o)
      BY <2>1, <2>2
    <2> QED BY <1>2, <2>1, <2>3
  <1>4. C!TypeOK'
    <2>1. c_object' \in [Objects -> SocketRecords]
      BY <1>2
    <2>2. c_sockets' \in Seq(Objects)
      BY EmptyList
    <2>3. c_exit' \in C!Exits
      BY DEF C!Exits
    <2> QED BY <2>1, <2>2, <2>3 DEF ContextInv, C!TypeOK, SocketRecords
  <1>5. ContextHolds'
    <2> SUFFICES ASSUME NEW u \in Threads, c_call'[u].of \in Objects
                 PROVE  /\ \A v \in Threads : c_call'[v].of = c_call'[u].of => v = u
                        /\ IF c_call'[u].op \in {"create", "base"} /\ c_call'[u].at # "list"
                           THEN ~(C!Live(c_call[u].of))'
                           ELSE (C!Live(c_call[u].of))' /\ c_object'[c_call'[u].of].home = u
                        /\ c_call'[u].at = "list" => c_object'[c_call'[u].of].owner
                        /\ c_call'[u].at = "remove" /\ c_kind' = "Context" => ~(C!HasOpen(c_call[u].of))'
      BY Zenon DEF ContextHolds, C!Live, C!HasOpen
    <2>0. PICK o \in Objects : o = c_call'[u].of
      OBVIOUS
    <2>1. c_call'[u] = c_call[u] /\ c_object'[o] = c_object[o] /\ c_call[u].of = o
      BY <1>3, <2>0
    <2>2. \A v \in Threads : c_call'[v].of = o => v = u
      <3> SUFFICES ASSUME NEW v \in Threads, c_call'[v].of = o PROVE v = u
        OBVIOUS
      <3>1. c_call[v].of = o
        BY <1>3
      <3>2. c_call[u].of = o
        BY <2>1
      <3>3. \A w \in Threads : c_call[w].of = o => w = u
        BY <3>2, HeldIs, Zenon
      <3> QED BY <3>1, <3>3, Zenon
    <2>3. /\ c_call[u].op \in {"create", "base"} /\ c_call[u].at # "list" => ~C!Live(o)
          /\ ~(c_call[u].op \in {"create", "base"} /\ c_call[u].at # "list") =>
               C!Live(o) /\ c_object[o].home = u
          /\ c_call[u].at = "list" => c_object[o].owner
          /\ c_call[u].at = "remove" /\ c_kind = "Context" => ~C!HasOpen(o)
      <3>1. c_call[u].of = o
        BY <2>1
      <3> QED BY <3>1, HeldIs, Zenon
    <2>4. /\ IF c_call[u].op \in {"create", "base"} /\ c_call[u].at # "list"
             THEN ~(c_object'[o].life = "live")
             ELSE c_object'[o].life = "live" /\ c_object'[o].home = u
          /\ c_call[u].at = "list" => c_object'[o].owner
          /\ c_call[u].at = "remove" /\ c_kind = "Context" => ~(c_object'[o].handle > 0)
      BY <2>1, <2>3, Zenon DEF C!Live, C!HasOpen
    <2>5. c_call'[u] = c_call[u] /\ c_call'[u].of = o /\ c_kind' = c_kind
      BY <2>1
    <2> QED BY <2>2, <2>4, <2>5, Zenon DEF C!Live, C!HasOpen
  <1>6. ContextObjects'
    <2> SUFFICES ASSUME NEW p \in Objects
        PROVE  /\ (C!HasOpen(p))' => (C!Live(p))' /\ c_object'[p].owner
               /\ c_object'[p].home # "main" => "other thread" \in c_slips'
               /\ (C!Live(p))' /\ c_object'[p].owner /\ c_object'[p].home = "main" => c_object'[p].parent
               /\ (C!Live(p))' /\ c_object'[p].owner /\ ~(C!HasOpen(p))' => "limit" \in c_slips'
               /\ (C!HasOpen(p))' => "two contexts" \in c_slips' \/ c_object'[p].handle = c_made
      BY DEF ContextObjects, C!HasOpen, C!Live
    <2>1. /\ C!HasOpen(p) => C!Live(p) /\ c_object[p].owner
          /\ c_object[p].home # "main" => "other thread" \in c_slips
          /\ C!Live(p) /\ c_object[p].owner /\ c_object[p].home = "main" => c_object[p].parent
          /\ C!Live(p) /\ c_object[p].owner /\ ~C!HasOpen(p) => "limit" \in c_slips
          /\ C!HasOpen(p) => "two contexts" \in c_slips \/ c_object[p].handle = c_made
      BY DEF ContextInv, ContextObjects
    <2>2. CASE C!Listed(p)
      BY <1>2, <2>1, <2>2 DEF C!HasOpen, C!Live
    <2>3. CASE ~C!Listed(p)
      <3>1. c_object'[p] = c_object[p]
        BY <1>2, <2>3
      <3> QED BY <2>1, <3>1 DEF C!HasOpen, C!Live
    <2> QED BY <2>2, <2>3
  <1>7. ContextListed'
    <2>1. \A o : o \notin C!Range(c_sockets')
      BY EmptyList
    <2>2. ASSUME NEW p \in Objects, (C!HasOpen(p))'
          PROVE  \E u \in Threads : c_call'[u].of = p /\ c_call'[u].at = "list"
      <3>1. ~C!Listed(p) /\ C!HasOpen(p)
        BY <1>2, <2>2 DEF C!HasOpen
      <3>2. PICK u \in Threads : c_call[u].of = p /\ c_call[u].at = "list"
        BY <3>1 DEF ContextInv, ContextListed
      <3>3. c_call'[u] = c_call[u]
        BY <3>2, ContextAssumption
      <3> QED BY <3>2, <3>3
    <2>3. IsInjective(c_sockets')
      BY EmptyList
    <2> QED BY <2>1, <2>2, <2>3 DEF ContextListed, C!Listed
  <1>8. ContextCounted'
    <2>1. Len(c_sockets') = 0 /\ Len(c_sockets) \in Nat
      BY <1>1, EmptyList, ListHolds
    <2>2. \A u \in Threads : c_call'[u].at = "list" => c_call[u].at = "list"
      OBVIOUS
    <2>3. c_open >= Len(c_sockets) => c_open >= Len(c_sockets')
      BY <1>1, <2>1, AtLeast
    <2>4. c_open <= 0 => c_open <= Len(c_sockets')
      BY <2>1
    <2> QED BY <2>2, <2>3, <2>4 DEF ContextInv, ContextCounted
  <1> QED BY <1>4, <1>5, <1>6, <1>7, <1>8 DEF ContextInv

(* Main goes on, and the sockets and the list stay.                         *)
LEMMA MainGoes ==
  ASSUME ContextInv,
         UNCHANGED <<c_kind, c_max_sockets, c_made, c_initialized, c_sockets, c_open, c_object, c_stray>>,
         c_exit' \in {"undefined", "locked"}, c_slips \subseteq c_slips',
         c_slips' \subseteq {"other thread", "again", "limit", "base", "two contexts", "shutdown"},
         c_call' \in [Threads ->
            [at : {"idle", "init", "make", "enter", "list", "close", "remove",
                   "busy", "destroy", "base", "term"},
             op : {"none", "create", "base", "append", "close", "delete", "threads", "shutdown", "exit"},
             of : Objects \cup {"none"}]],
         \A u \in Threads : u # "main" => c_call'[u] = c_call[u],
         c_call["main"].of = "none", c_call["main"].at \in {"destroy", "base"},
         c_call'["main"].of = "none", c_call'["main"].at \in {"idle", "base", "term"},
         ContextCalls', ContextEnd'
  PROVE  ContextInv'
  <1>1. C!TypeOK'
    BY DEF ContextInv, C!TypeOK, C!Exits
  <1>2. ContextHolds'
    <2> SUFFICES ASSUME NEW u \in Threads, c_call'[u].of \in Objects
                 PROVE  /\ \A v \in Threads : c_call'[v].of = c_call'[u].of => v = u
                        /\ IF c_call'[u].op \in {"create", "base"} /\ c_call'[u].at # "list"
                           THEN ~C!Live(c_call'[u].of)
                           ELSE C!Live(c_call'[u].of) /\ c_object[c_call'[u].of].home = u
                        /\ c_call'[u].at = "list" => c_object[c_call'[u].of].owner
                        /\ c_call'[u].at = "remove" /\ c_kind = "Context" => ~C!HasOpen(c_call'[u].of)
      BY DEF ContextHolds, C!Live, C!HasOpen
    <2>1. \A v \in Threads : c_call'[v].of \in Objects => c_call'[v] = c_call[v]
      BY ContextAssumption
    <2>2. c_call'[u] = c_call[u]
      BY <2>1
    <2>3. /\ \A v \in Threads : c_call[v].of = c_call[u].of => v = u
          /\ IF c_call[u].op \in {"create", "base"} /\ c_call[u].at # "list" THEN ~C!Live(c_call[u].of)
             ELSE C!Live(c_call[u].of) /\ c_object[c_call[u].of].home = u
          /\ c_call[u].at = "list" => c_object[c_call[u].of].owner
          /\ c_call[u].at = "remove" /\ c_kind = "Context" => ~C!HasOpen(c_call[u].of)
      BY <2>2 DEF ContextInv, ContextHolds
    <2>4. \A v \in Threads : c_call'[v].of = c_call'[u].of => v = u
      <3> SUFFICES ASSUME NEW v \in Threads, c_call'[v].of = c_call'[u].of PROVE v = u
        OBVIOUS
      <3>1. c_call'[v] = c_call[v]
        BY <2>1
      <3>2. c_call[v].of = c_call[u].of
        BY <2>2, <3>1, Zenon
      <3> QED BY <2>3, <3>2, Zenon
    <2> QED BY <2>2, <2>3, <2>4, Zenon
  <1>3. ContextObjects'
    BY DEF ContextInv, ContextObjects, C!Live, C!HasOpen
  <1>4. \A u \in Threads : c_call[u].at \in {"list", "remove"} \/ c_call'[u].at = "list"
          => c_call'[u] = c_call[u]
    BY ContextAssumption
  <1>5. ContextListed'
    BY <1>4, ListedAfter DEF ContextInv
  <1>6. ContextCounted'
    BY <1>4 DEF ContextInv, ContextCounted
  <1> QED BY <1>1, <1>2, <1>3, <1>5, <1>6 DEF ContextInv

LEMMA ShutdownKeeps ==
  ASSUME ContextInv, c_exit = "running", C!Shutdown
  PROVE  ContextInv' /\ C!CleanExit'
  <1>1. /\ c_call["main"].at = "destroy" /\ c_slips' = c_slips \cup {"shutdown"}
        /\ C!DestroySockets(FALSE)
        /\ UNCHANGED <<c_kind, c_max_sockets, c_made, c_initialized, c_open, c_stray>>
        /\ IF c_call["main"].op = "shutdown" THEN C!Returns("main") ELSE C!Goes("main", "base")
    BY DEF C!Shutdown, C!Slips
  <1>2. c_call["main"].op \in {"shutdown", "exit"} /\ c_call["main"].of = "none"
    BY <1>1, CallTypes, ContextAssumption DEF ContextInv, ContextCalls
  <1>3. /\ c_call' \in [Threads ->
            [at : {"idle", "init", "make", "enter", "list", "close", "remove",
                   "busy", "destroy", "base", "term"},
             op : {"none", "create", "base", "append", "close", "delete", "threads", "shutdown", "exit"},
             of : Objects \cup {"none"}]]
        /\ \A u \in Threads : u # "main" => c_call'[u] = c_call[u]
        /\ c_call'["main"].of = "none"
        /\ \/ c_call'["main"].at = "idle" /\ c_call'["main"].op = "none"
           \/ c_call'["main"].at = "base" /\ c_call'["main"].op = "exit" /\ c_call["main"].op = "exit"
    <2>1. CASE c_call["main"].op = "shutdown"
      BY <1>1, <2>1, CallReturns, ContextAssumption DEF ContextInv
    <2>2. CASE c_call["main"].op = "exit"
      BY <1>1, <1>2, <2>2, CallTypesNext, ContextAssumption DEF ContextInv
    <2> QED BY <1>2, <2>1, <2>2
  <1>4. ContextCalls'
    BY <1>1, <1>2, <1>3, ContextAssumption DEF ContextInv, ContextCalls, C!AsContext, C!Idle
  <1>5. ContextEnd'
    BY <1>1, <1>3 DEF ContextEnd
  <1>6. /\ c_slips \subseteq c_slips'
        /\ c_slips' \subseteq {"other thread", "again", "limit", "base", "two contexts", "shutdown"}
    BY <1>1 DEF ContextInv, C!TypeOK
  <1>7. \/ /\ c_exit' = "undefined" /\ "other thread" \in c_slips
           /\ UNCHANGED <<c_sockets, c_object>>
        \/ /\ c_exit' = "locked" /\ "limit" \in c_slips
           /\ UNCHANGED <<c_sockets, c_object>>
        \/ /\ c_exit' = "running" /\ c_sockets' = <<>>
           /\ \A o \in Objects : C!Listed(o) => C!Live(o) /\ c_object[o].home = "main"
           /\ c_object' = [o \in Objects |-> IF C!Listed(o) THEN [C!Closed(c_object[o]) EXCEPT !.life = "deleted"]
                                             ELSE c_object[o]]
    BY <1>1, DestroyDoes
  <1>8. CASE c_exit' = "running"
    <2>1. "shutdown" \in c_slips' \/ c_kind # "QMNet" \/ c_open <= 0
      BY <1>1
    <2>2. ContextInv'
      BY <1>1, <1>2, <1>3, <1>4, <1>5, <1>6, <1>7, <1>8, <2>1, DestroyedKeeps
    <2> QED BY <1>8, <2>2, StillClean
  <1>9. CASE c_exit' # "running"
    <2>1. c_exit' \in {"undefined", "locked"} /\ UNCHANGED <<c_sockets, c_object>>
      BY <1>7, <1>9
    <2>2. ContextInv'
      BY <1>1, <1>2, <1>3, <1>4, <1>5, <1>6, <2>1, MainGoes
    <2>3. C!CleanExit'
      BY <1>6, <1>7, <2>1 DEF C!CleanExit
    <2> QED BY <2>2, <2>3
  <1> QED BY <1>8, <1>9

LEMMA DestroyContextKeeps ==
  ASSUME ContextInv, c_exit = "running", C!DestroyContext
  PROVE  ContextInv' /\ C!CleanExit'
  <1>1. /\ c_call["main"].at = "base" /\ C!DestroySockets(TRUE) /\ C!Goes("main", "term")
        /\ UNCHANGED <<c_kind, c_max_sockets, c_made, c_initialized, c_open, c_stray, c_slips>>
    BY DEF C!DestroyContext
  <1>2. c_call["main"].op = "exit" /\ c_call["main"].of = "none"
    BY <1>1, CallTypes, ContextAssumption DEF ContextInv, ContextCalls
  <1>3. /\ c_call' \in [Threads ->
            [at : {"idle", "init", "make", "enter", "list", "close", "remove",
                   "busy", "destroy", "base", "term"},
             op : {"none", "create", "base", "append", "close", "delete", "threads", "shutdown", "exit"},
             of : Objects \cup {"none"}]]
        /\ \A u \in Threads : u # "main" => c_call'[u] = c_call[u]
        /\ c_call'["main"].of = "none" /\ c_call'["main"].at = "term" /\ c_call'["main"].op = "exit"
    BY <1>1, <1>2, CallTypesNext, ContextAssumption DEF ContextInv
  <1>4. ContextCalls'
    BY <1>1, <1>2, <1>3, ContextAssumption DEF ContextInv, ContextCalls, C!AsContext, C!Idle
  <1>6. /\ c_slips \subseteq c_slips'
        /\ c_slips' \subseteq {"other thread", "again", "limit", "base", "two contexts", "shutdown"}
    BY <1>1 DEF ContextInv, C!TypeOK
  <1>7. \/ /\ c_exit' = "undefined" /\ "other thread" \in c_slips
           /\ UNCHANGED <<c_sockets, c_object>>
        \/ /\ c_exit' = "locked" /\ "limit" \in c_slips
           /\ UNCHANGED <<c_sockets, c_object>>
        \/ /\ c_exit' = "running" /\ c_sockets' = <<>>
           /\ \A o \in Objects : C!Listed(o) => C!Live(o) /\ c_object[o].home = "main"
           /\ c_object' = [o \in Objects |-> IF C!Listed(o) THEN [C!Closed(c_object[o]) EXCEPT !.life = "deleted"]
                                             ELSE c_object[o]]
    BY <1>1, DestroyDoes
  <1>5. ContextEnd'
    BY <1>3, <1>7 DEF ContextEnd
  <1>8. CASE c_exit' = "running"
    <2>1. "shutdown" \in c_slips' \/ c_kind # "QMNet" \/ c_open <= 0
      <3>1. c_kind = "QMNet" => "shutdown" \in c_slips \/ ~c_initialized
        BY <1>1 DEF ContextInv, ContextEnd
      <3>2. c_kind = "QMNet" => c_initialized \/ c_open <= 0
        BY DEF ContextInv, ContextCounted
      <3> QED BY <1>1, <3>1, <3>2
    <2>2. ContextInv'
      BY <1>1, <1>2, <1>3, <1>4, <1>5, <1>6, <1>7, <1>8, <2>1, DestroyedKeeps
    <2> QED BY <1>8, <2>2, StillClean
  <1>9. CASE c_exit' # "running"
    <2>1. c_exit' \in {"undefined", "locked"} /\ UNCHANGED <<c_sockets, c_object>>
      BY <1>7, <1>9
    <2>2. ContextInv'
      BY <1>1, <1>2, <1>3, <1>4, <1>5, <1>6, <2>1, MainGoes
    <2>3. C!CleanExit'
      BY <1>6, <1>7, <2>1 DEF C!CleanExit
    <2> QED BY <2>2, <2>3
  <1> QED BY <1>8, <1>9

LEMMA TermContextKeeps ==
  ASSUME ContextInv, c_exit = "running", C!TermContext
  PROVE  ContextInv' /\ C!CleanExit'
  <1>1. /\ c_call["main"].at = "term"
        /\ c_exit' = (IF C!Handles > 0 THEN "waits" ELSE "ended")
        /\ UNCHANGED <<c_kind, c_max_sockets, c_made, c_initialized, c_sockets, c_open, c_object,
                       c_stray, c_call, c_slips>>
    BY DEF C!TermContext
  <1>2. c_exit' \in {"waits", "ended"}
    BY <1>1
  <1>3. C!TypeOK'
    BY <1>1, <1>2 DEF ContextInv, C!TypeOK, C!Exits
  <1>4. ContextCalls' /\ ContextHolds' /\ ContextObjects'
    <2>1. ContextCalls'
      BY <1>1 DEF ContextInv, ContextCalls, C!AsContext
    <2>2. ContextHolds'
      BY <1>1 DEF ContextInv, ContextHolds, C!Live, C!HasOpen
    <2>3. ContextObjects'
      BY <1>1 DEF ContextInv, ContextObjects, C!Live, C!HasOpen
    <2> QED BY <2>1, <2>2, <2>3
  <1>5. ContextListed'
    BY <1>1, ListedAfter DEF ContextInv
  <1>6. ContextCounted' /\ ContextEnd'
    BY <1>1, <1>2 DEF ContextInv, ContextCounted, ContextEnd
  <1>7. C!CleanExit'
    <2>1. CASE C!Handles > 0
      <3>1. c_exit' = "waits"
        BY <1>1, <2>1
      <3>2. c_sockets = <<>>
        BY <1>1 DEF ContextInv, ContextEnd
      <3>3. c_call["main"].op = "exit"
        BY <1>1, CallTypes, ContextAssumption DEF ContextInv, ContextCalls
      <3>4. \A u \in Threads : c_call[u].at # "list"
        BY <1>1, <3>3, ContextAssumption DEF ContextInv, ContextCalls, C!Idle
      <3>5. \A o \in Objects : ~C!HasOpen(o)
        BY <3>2, <3>4, EmptyList DEF ContextInv, ContextListed, C!Listed
      <3>6. c_slips \cap {"other thread", "again"} # {}
        BY <2>1, <3>5, HandlesAre DEF ContextInv, ContextCounted
      <3> QED BY <1>1, <3>1, <3>6 DEF C!CleanExit
    <2>2. CASE ~(C!Handles > 0)
      <3>1. c_exit' = "ended"
        BY <1>1, <2>2
      <3>2. \A o \in Objects : C!Live(o) /\ c_object[o].owner => "limit" \in c_slips
        BY <2>2, HandlesAre DEF ContextInv, ContextObjects
      <3> QED BY <1>1, <3>1, <3>2 DEF C!CleanExit, C!Live
    <2> QED BY <2>1, <2>2
  <1> QED BY <1>3, <1>4, <1>5, <1>6, <1>7 DEF ContextInv

(* The invariant of the context, and what it says of its end.                *)
ContextHere == ContextInv /\ C!CleanExit

LEMMA ContextStart == C!Init => ContextHere
  BY ContextInitially DEF ContextHere, C!CleanExit, C!Init

LEMMA ContextRests ==
  ASSUME ContextHere, UNCHANGED c_vars
  PROVE  ContextHere'
  <1>1. ContextInv'
    <2>0. /\ ContextInv
          /\ UNCHANGED <<c_kind, c_max_sockets, c_made, c_initialized, c_sockets, c_open, c_object,
                         c_stray, c_call, c_exit, c_slips>>
      BY DEF ContextHere, c_vars
    <2>1. C!TypeOK'
      BY <2>0 DEF ContextInv, C!TypeOK
    <2>2. ContextCalls'
      BY <2>0 DEF ContextInv, ContextCalls, C!AsContext
    <2>3. ContextHolds'
      BY <2>0 DEF ContextInv, ContextHolds, C!Live, C!HasOpen
    <2>4. ContextObjects'
      BY <2>0 DEF ContextInv, ContextObjects, C!Live, C!HasOpen
    <2>5. ContextListed'
      BY <2>0, ListedAfter DEF ContextInv
    <2>6. ContextCounted' /\ ContextEnd'
      BY <2>0 DEF ContextInv, ContextCounted, ContextEnd
    <2> QED BY <2>1, <2>2, <2>3, <2>4, <2>5, <2>6 DEF ContextInv
  <1>2. C!CleanExit'
    BY DEF ContextHere, c_vars, C!CleanExit, C!Live
  <1> QED BY <1>1, <1>2 DEF ContextHere

LEMMA ContextStep ==
  ASSUME ContextHere, C!Next
  PROVE  ContextHere'
  <1>1. c_exit = "running" /\ ContextInv
    BY DEF C!Next, ContextHere
  <1>2. ASSUME NEW t \in Threads, NEW op \in {"create", "append", "close", "delete"}, NEW o \in Objects,
               C!Start(t, op, o)
        PROVE  ContextInv' /\ c_exit' = "running"
    <2>1. ContextInv'
      BY <1>1, <1>2, StartKeeps
    <2> QED BY <1>1, <1>2, <2>1 DEF C!Start
  <1>3. ASSUME NEW t \in Threads, NEW o \in Objects, c_kind = "QMNet", C!Start(t, "base", o)
        PROVE  ContextInv' /\ c_exit' = "running"
    <2>1. ContextInv'
      BY <1>1, <1>3, StartKeeps
    <2> QED BY <1>1, <1>3, <2>1 DEF C!Start
  <1>4. ASSUME NEW t \in Threads, C!TestInitialized(t)
        PROVE  ContextInv' /\ c_exit' = "running"
    BY <1>1, <1>4, TestInitializedKeeps DEF C!TestInitialized
  <1>5. ASSUME NEW t \in Threads, C!Initialize(t)
        PROVE  ContextInv' /\ c_exit' = "running"
    BY <1>1, <1>5, InitializeKeeps DEF C!Initialize
  <1>6. ASSUME NEW t \in Threads, C!CreateSocket(t)
        PROVE  ContextInv' /\ c_exit' = "running"
    BY <1>1, <1>6, CreateSocketKeeps DEF C!CreateSocket
  <1>7. ASSUME NEW t \in Threads, C!AppendSocket(t)
        PROVE  ContextInv' /\ c_exit' = "running"
    BY <1>1, <1>7, AppendSocketKeeps DEF C!AppendSocket
  <1>8. ASSUME NEW t \in Threads, C!ContextReset(t)
        PROVE  ContextInv' /\ c_exit' = "running"
    BY <1>1, <1>8, ContextResetKeeps DEF C!ContextReset
  <1>9. ASSUME NEW t \in Threads, C!ContextList(t)
        PROVE  ContextInv' /\ c_exit' = "running"
    BY <1>1, <1>9, ContextListKeeps DEF C!ContextList
  <1>a. ASSUME NEW t \in Threads, C!CloseSocket(t)
        PROVE  ContextInv' /\ c_exit' = "running"
    BY <1>1, <1>a, CloseSocketKeeps DEF C!CloseSocket
  <1>b. ASSUME NEW t \in Threads, C!RemoveSocket(t)
        PROVE  ContextInv' /\ c_exit' = "running"
    BY <1>1, <1>b, RemoveSocketKeeps DEF C!RemoveSocket
  <1>c. ASSUME C!StartSetIoThreads
        PROVE  ContextInv' /\ c_exit' = "running"
    BY <1>1, <1>c, StartSetIoThreadsKeeps DEF C!StartSetIoThreads
  <1>d. ASSUME NEW op \in {"shutdown", "exit"}, C!StartShutdown(op)
        PROVE  ContextInv' /\ c_exit' = "running"
    BY <1>1, <1>d, StartShutdownKeeps DEF C!StartShutdown
  <1>e. ASSUME C!ReadBusy
        PROVE  ContextInv' /\ c_exit' = "running"
    BY <1>1, <1>e, ReadBusyKeeps DEF C!ReadBusy
  <1>f. ASSUME C!SetIoThreads \/ C!Shutdown \/ C!DestroyContext \/ C!TermContext
        PROVE  ContextInv' /\ C!CleanExit'
    BY <1>1, <1>f, SetIoThreadsKeeps, ShutdownKeeps, DestroyContextKeeps, TermContextKeeps
  <1>g. ContextInv' /\ c_exit' = "running" => ContextHere'
    BY StillClean DEF ContextHere
  <1>h. ContextInv' /\ C!CleanExit' => ContextHere'
    BY DEF ContextHere
  <1> QED BY <1>2, <1>3, <1>4, <1>5, <1>6, <1>7, <1>8, <1>9, <1>a, <1>b, <1>c, <1>d, <1>e, <1>f, <1>g, <1>h
          DEF C!Next

(* What the list and the count tell follows.                                *)
LEMMA TableFollows == ContextHere => TableTrue
  <1> SUFFICES ASSUME ContextInv, c_exit = "running" PROVE C!TableTrue
    BY DEF ContextHere, TableTrue, C!TableTrue
  <1>0. c_sockets \in Seq(Objects) /\ c_open \in Int
    BY DEF ContextInv, C!TypeOK
  <1>1. \A o \in C!Range(c_sockets) : C!Live(o) \/ c_object[o].home # "main"
    BY <1>0, ListHolds DEF ContextInv, ContextListed, C!Listed
  <1>2. ASSUME NEW o \in Objects, C!HasOpen(o), ~C!InTransit(o)
        PROVE  C!Listed(o)
    BY <1>2 DEF ContextInv, ContextListed, C!InTransit
  <1>3. "other thread" \notin c_slips => C!IsInjective(c_sockets)
    BY DEF ContextInv, ContextListed, IsInjective, C!IsInjective
  <1>4. c_kind = "QMNet" /\ c_slips \cap {"base", "shutdown"} = {} => c_open = Len(c_sockets)
    <2>1. Len(c_sockets) \in Nat
      BY <1>0, ListHolds
    <2>2. c_kind = "QMNet" /\ c_slips \cap {"base", "shutdown"} = {} =>
            c_open <= Len(c_sockets) /\ c_open >= Len(c_sockets)
      BY DEF ContextInv, ContextCounted
    <2> QED BY <1>0, <2>1, <2>2
  <1>5. "two contexts" \notin c_slips => \A o \in Objects : C!HasOpen(o) => c_object[o].handle = c_made
    BY DEF ContextInv, ContextObjects
  <1> QED BY <1>1, <1>2, <1>3, <1>4, <1>5 DEF C!TableTrue

-----------------------------------------------------------------------------
(* The beacon: it reads the pipe when there is something in it; an echo of    *)
(* our own that is current carries what is published, and a beacon that was   *)
(* configured knows where to broadcast, hears its peers or has lost its        *)
(* network since, and gives up its socket only then.                          *)
BeaconInv ==
  /\ B!TypeOK
  /\ b_stage = "pipe" => b_pipe > 0
  /\ \A i \in DOMAIN b_datagrams : b_datagrams[i].from = "current" => b_datagrams[i].data = b_transmit
  /\ \A i \in DOMAIN b_reports : b_reports[i].from # "current"
  /\ b_configured /\ B!Running =>
       /\ b_broadcast /\ (b_listening \/ b_outage) /\ (b_network \/ b_outage)
       /\ b_stage = "prepare" => b_outage

LEMMA ListMade ==
  ASSUME NEW T, NEW n \in Nat, NEW f, f = [i \in 1 .. n |-> f[i]], \A i \in 1 .. n : f[i] \in T
  PROVE  f \in Seq(T) /\ Len(f) = n /\ DOMAIN f = 1 .. n
  OBVIOUS

LEMMA TailOf ==
  ASSUME NEW T, NEW q \in Seq(T), q # <<>>
  PROVE  /\ Tail(q) \in Seq(T) /\ Head(q) \in T /\ Head(q) = q[1] /\ 1 \in DOMAIN q
         /\ Len(Tail(q)) = Len(q) - 1 /\ Len(q) \in Nat /\ Len(Tail(q)) <= Len(q)
         /\ \A i \in DOMAIN Tail(q) : i + 1 \in DOMAIN q /\ Tail(q)[i] = q[i + 1]
  OBVIOUS

LEMMA AppendOf ==
  ASSUME NEW T, NEW q \in Seq(T), NEW x \in T
  PROVE  /\ Append(q, x) \in Seq(T) /\ Len(Append(q, x)) = Len(q) + 1 /\ Len(q) \in Nat
         /\ DOMAIN Append(q, x) = 1 .. Len(q) + 1
         /\ \A i \in DOMAIN Append(q, x) : \/ i \in DOMAIN q /\ Append(q, x)[i] = q[i]
                                          \/ Append(q, x)[i] = x
  OBVIOUS

LEMMA BeaconBounds ==
  /\ Intervals \subseteq Nat \ {0} /\ Hwm \in Nat /\ MaxPending \in Nat /\ MaxDatagrams \in Nat
  /\ \A T : <<>> \in Seq(T) /\ Len(<<>>) = 0
  /\ 0 \in 0 .. MaxPending /\ 0 <= MaxDatagrams /\ 0 <= Hwm
  BY PartsAssumption DEF B!BeaconConstants

LEMMA BeaconInitially == B!Init => BeaconInv
  <1> SUFFICES ASSUME B!Init PROVE BeaconInv
    OBVIOUS
  <1>1. \E i \in Intervals : b_ping_in \in 0 .. i
    <2>1. b_interval \in Intervals /\ b_ping_in = 0
      BY DEF B!Init
    <2>2. 0 \in 0 .. b_interval
      BY <2>1, BeaconBounds
    <2> QED BY <2>1, <2>2
  <1>2. b_datagrams = <<>> /\ b_reports = <<>> /\ b_pipe = 0
    BY DEF B!Init
  <1>3. /\ b_datagrams \in Seq(B!Datagram) /\ Len(b_datagrams) <= MaxDatagrams
        /\ b_reports \in Seq(B!Datagram \cup {B!Hostname}) /\ Len(b_reports) <= Hwm
        /\ b_pipe \in 0 .. MaxPending
    BY <1>2, BeaconBounds
  <1>4. {b_readable, b_terminated, b_configured, b_listening, b_broadcast, b_network, b_outage} \subseteq BOOLEAN
    BY DEF B!Init
  <1>5. B!TypeOK
    BY <1>1, <1>3, <1>4 DEF B!Init, B!TypeOK, B!Stage
  <1>6. ~b_configured /\ b_stage # "pipe"
    BY DEF B!Init
  <1> QED BY <1>2, <1>5, <1>6 DEF BeaconInv

(* A step that leaves alone what is at the socket and what is reported.      *)
LEMMA BeaconQuiet ==
  ASSUME BeaconInv, UNCHANGED <<b_datagrams, b_reports>>,
         \A i \in DOMAIN b_datagrams : b_datagrams[i].from = "current" => b_transmit' = b_transmit,
         b_stage' \in B!Stage, b_pipe' \in 0 .. MaxPending, b_stage' = "pipe" => b_pipe' > 0,
         {b_readable', b_terminated', b_configured', b_listening', b_broadcast', b_network', b_outage'} \subseteq BOOLEAN,
         b_transmit' \in Datas \cup {B!None}, b_filter' \in Filters \cup {B!None}, b_interval' \in Intervals,
         \E i \in Intervals : b_ping_in' \in 0 .. i,
         b_configured' /\ (B!Running)' =>
            /\ b_broadcast' /\ (b_listening' \/ b_outage') /\ (b_network' \/ b_outage')
            /\ b_stage' = "prepare" => b_outage'
  PROVE  BeaconInv'
  <1>1. B!TypeOK'
    BY DEF BeaconInv, B!TypeOK
  <1> QED BY <1>1 DEF BeaconInv

LEMMA BeaconTypes ==
  ASSUME BeaconInv
  PROVE  /\ b_stage \in B!Stage
         /\ {b_readable, b_terminated, b_configured, b_listening, b_broadcast, b_network, b_outage} \subseteq BOOLEAN
         /\ b_transmit \in Datas \cup {B!None} /\ b_filter \in Filters \cup {B!None} /\ b_interval \in Intervals
         /\ \E i \in Intervals : b_ping_in \in 0 .. i
         /\ b_datagrams \in Seq(B!Datagram) /\ Len(b_datagrams) <= MaxDatagrams
         /\ b_pipe \in 0 .. MaxPending
         /\ b_reports \in Seq(B!Datagram \cup {B!Hostname}) /\ Len(b_reports) <= Hwm
  BY DEF BeaconInv, B!TypeOK

LEMMA BeaconReads == ASSUME BeaconInv, b_stage = "pipe" PROVE b_pipe > 0
  BY DEF BeaconInv

LEMMA IntervalWaits == \A n \in Intervals : \E i \in Intervals : n \in 0 .. i /\ 0 \in 0 .. i
  BY BeaconBounds

(* The application, the network and time.                                   *)
LEMMA BeaconWorld ==
  ASSUME BeaconInv, B!Running,
         B!PollInterrupted \/ B!Command \/ B!NetworkGoes \/ B!NetworkComes \/ B!Tick
  PROVE  BeaconInv'
  <1>1. CASE B!PollInterrupted
    BY <1>1, BeaconQuiet, BeaconTypes
       DEF B!PollInterrupted, B!handler_vars, B!app_vars, B!net_vars, B!Stage, B!Running
  <1>2. CASE B!Command
    <2>1. b_pipe' \in 0 .. MaxPending /\ (b_stage = "pipe" => b_pipe' > 0)
      BY <1>2, BeaconTypes, BeaconBounds, BeaconReads DEF B!Command
    <2>2. UNCHANGED <<b_stage, b_readable, b_terminated, b_configured, b_listening, b_broadcast, b_transmit,
                      b_filter, b_interval, b_ping_in, b_datagrams, b_reports, b_network, b_outage>>
      BY <1>2 DEF B!Command, B!handler_vars, B!net_vars
    <2> QED BY <2>1, <2>2, BeaconQuiet, BeaconTypes DEF BeaconInv, B!Running
  <1>3. CASE B!NetworkGoes \/ B!NetworkComes
    <2>1. /\ UNCHANGED <<b_stage, b_readable, b_terminated, b_configured, b_listening, b_broadcast, b_transmit,
                         b_filter, b_interval, b_ping_in, b_datagrams, b_reports, b_pipe>>
          /\ \/ b_network' = FALSE /\ b_outage' = TRUE
             \/ b_network' = TRUE /\ b_outage' = b_outage
      BY <1>3 DEF B!NetworkGoes, B!NetworkComes, B!handler_vars, B!app_vars, B!net_vars
    <2> QED BY <2>1, BeaconQuiet, BeaconTypes DEF BeaconInv, B!Running
  <1>4. CASE B!Tick
    <2>1. \E i \in Intervals : b_ping_in' \in 0 .. i
      <3>1. PICK i \in Intervals : b_ping_in \in 0 .. i
        BY BeaconTypes
      <3>2. b_ping_in' \in 0 .. i
        BY <1>4, <3>1, BeaconBounds DEF B!Tick
      <3> QED BY <3>2
    <2>2. UNCHANGED <<b_stage, b_readable, b_terminated, b_configured, b_listening, b_broadcast, b_transmit,
                      b_filter, b_interval, b_pipe, b_datagrams, b_reports, b_network, b_outage>>
      BY <1>4 DEF B!Tick, B!app_vars, B!net_vars
    <2> QED BY <2>1, <2>2, BeaconQuiet, BeaconTypes DEF BeaconInv, B!Running
  <1> QED BY <1>1, <1>2, <1>3, <1>4

(* A step that changes what is at the socket or what is reported.            *)
LEMMA BeaconMoves ==
  ASSUME BeaconInv,
         b_datagrams' \in Seq(B!Datagram), Len(b_datagrams') <= MaxDatagrams,
         b_reports' \in Seq(B!Datagram \cup {B!Hostname}), Len(b_reports') <= Hwm,
         \A i \in DOMAIN b_datagrams' : b_datagrams'[i].from = "current" => b_datagrams'[i].data = b_transmit',
         \A i \in DOMAIN b_reports' : b_reports'[i].from # "current",
         b_stage' \in B!Stage, b_pipe' \in 0 .. MaxPending, b_stage' = "pipe" => b_pipe' > 0,
         {b_readable', b_terminated', b_configured', b_listening', b_broadcast', b_network', b_outage'} \subseteq BOOLEAN,
         b_transmit' \in Datas \cup {B!None}, b_filter' \in Filters \cup {B!None}, b_interval' \in Intervals,
         \E i \in Intervals : b_ping_in' \in 0 .. i,
         b_configured' /\ (B!Running)' =>
            /\ b_broadcast' /\ (b_listening' \/ b_outage') /\ (b_network' \/ b_outage')
            /\ b_stage' = "prepare" => b_outage'
  PROVE  BeaconInv'
  <1>1. B!TypeOK'
    BY DEF B!TypeOK
  <1> QED BY <1>1 DEF BeaconInv

LEMMA BeaconFacts ==
  ASSUME BeaconInv
  PROVE  /\ \A i \in DOMAIN b_datagrams : b_datagrams[i].from = "current" => b_datagrams[i].data = b_transmit
         /\ \A i \in DOMAIN b_reports : b_reports[i].from # "current"
         /\ b_configured /\ B!Running =>
              /\ b_broadcast /\ (b_listening \/ b_outage) /\ (b_network \/ b_outage)
              /\ b_stage = "prepare" => b_outage
  BY DEF BeaconInv

(* The reports when the application takes one and when the actor adds one.   *)
LEMMA ReportTaken ==
  ASSUME BeaconInv, b_reports # <<>>
  PROVE  /\ Tail(b_reports) \in Seq(B!Datagram \cup {B!Hostname}) /\ Len(Tail(b_reports)) <= Hwm
         /\ \A i \in DOMAIN Tail(b_reports) : Tail(b_reports)[i].from # "current"
  <1> DEFINE T == B!Datagram \cup {B!Hostname}
  <1>1. /\ Tail(b_reports) \in Seq(T) /\ Len(Tail(b_reports)) <= Len(b_reports) /\ Len(b_reports) \in Nat
        /\ Len(Tail(b_reports)) = Len(b_reports) - 1
        /\ \A i \in DOMAIN Tail(b_reports) : i + 1 \in DOMAIN b_reports /\ Tail(b_reports)[i] = b_reports[i + 1]
    <2>1. b_reports \in Seq(T)
      BY BeaconTypes
    <2> QED BY <2>1, TailOf
  <1>2. Len(Tail(b_reports)) <= Hwm
    <2>1. Len(b_reports) <= Hwm /\ Hwm \in Nat
      BY BeaconTypes, BeaconBounds
    <2> HIDE DEF T
    <2> QED BY <1>1, <2>1
  <1> QED BY <1>1, <1>2, BeaconFacts, Zenon

LEMMA ReportAdded ==
  ASSUME BeaconInv, Len(b_reports) < Hwm, NEW x \in B!Datagram \cup {B!Hostname}, x.from # "current"
  PROVE  /\ Append(b_reports, x) \in Seq(B!Datagram \cup {B!Hostname}) /\ Len(Append(b_reports, x)) <= Hwm
         /\ \A i \in DOMAIN Append(b_reports, x) : Append(b_reports, x)[i].from # "current"
  <1> DEFINE T == B!Datagram \cup {B!Hostname}
  <1> DEFINE q == Append(b_reports, x)
  <1>1. b_reports \in Seq(T)
    BY BeaconTypes
  <1>2. /\ q \in Seq(T) /\ Len(q) = Len(b_reports) + 1 /\ Len(b_reports) \in Nat
        /\ \A i \in DOMAIN q : (i \in DOMAIN b_reports /\ q[i] = b_reports[i]) \/ q[i] = x
    BY <1>1, AppendOf
  <1>3. Hwm \in Nat
    BY BeaconBounds
  <1> HIDE DEF q, T
  <1>4. Len(q) <= Hwm
    BY <1>2, <1>3
  <1>5. \A i \in DOMAIN q : q[i].from # "current"
    BY <1>2, BeaconFacts, Zenon
  <1> QED BY <1>2, <1>4, <1>5 DEF q, T

(* A datagram that comes in at the end of the queue.                         *)
LEMMA DatagramAdded ==
  ASSUME BeaconInv, Len(b_datagrams) < MaxDatagrams, NEW x \in B!Datagram,
         x.from = "current" => x.data = b_transmit
  PROVE  /\ Append(b_datagrams, x) \in Seq(B!Datagram) /\ Len(Append(b_datagrams, x)) <= MaxDatagrams
         /\ \A i \in DOMAIN Append(b_datagrams, x) :
              Append(b_datagrams, x)[i].from = "current" => Append(b_datagrams, x)[i].data = b_transmit
  <1> DEFINE q == Append(b_datagrams, x)
  <1>1. b_datagrams \in Seq(B!Datagram)
    BY BeaconTypes
  <1>2. /\ q \in Seq(B!Datagram) /\ Len(q) = Len(b_datagrams) + 1 /\ Len(b_datagrams) \in Nat
        /\ \A i \in DOMAIN q : (i \in DOMAIN b_datagrams /\ q[i] = b_datagrams[i]) \/ q[i] = x
    BY <1>1, AppendOf
  <1>3. MaxDatagrams \in Nat
    BY BeaconBounds
  <1> HIDE DEF q
  <1>4. Len(q) <= MaxDatagrams
    BY <1>2, <1>3
  <1>5. \A i \in DOMAIN q : q[i].from = "current" => q[i].data = b_transmit
    BY <1>2, BeaconFacts, Zenon
  <1> QED BY <1>2, <1>4, <1>5 DEF q

LEMMA DatagramTaken ==
  ASSUME BeaconInv, b_datagrams # <<>>
  PROVE  /\ Tail(b_datagrams) \in Seq(B!Datagram) /\ Len(Tail(b_datagrams)) <= MaxDatagrams
         /\ \A i \in DOMAIN Tail(b_datagrams) :
              Tail(b_datagrams)[i].from = "current" => Tail(b_datagrams)[i].data = b_transmit
         /\ Head(b_datagrams) \in B!Datagram
         /\ Head(b_datagrams).from = "current" => Head(b_datagrams).data = b_transmit
  <1>1. b_datagrams \in Seq(B!Datagram)
    BY BeaconTypes
  <1>2. /\ Tail(b_datagrams) \in Seq(B!Datagram) /\ Len(Tail(b_datagrams)) = Len(b_datagrams) - 1
        /\ Len(b_datagrams) \in Nat
        /\ Head(b_datagrams) \in B!Datagram /\ Head(b_datagrams) = b_datagrams[1] /\ 1 \in DOMAIN b_datagrams
        /\ \A i \in DOMAIN Tail(b_datagrams) :
             i + 1 \in DOMAIN b_datagrams /\ Tail(b_datagrams)[i] = b_datagrams[i + 1]
    BY <1>1, TailOf
  <1>3. Len(Tail(b_datagrams)) <= MaxDatagrams
    <2>1. Len(b_datagrams) <= MaxDatagrams /\ MaxDatagrams \in Nat
      BY BeaconTypes, BeaconBounds
    <2> QED BY <1>2, <2>1
  <1> QED BY <1>2, <1>3, BeaconFacts, Zenon

(* What is published changes: no echo of ours is current any more.           *)
LEMMA FormerlyOurs ==
  ASSUME BeaconInv
  PROVE  /\ B!Formerly(b_datagrams) \in Seq(B!Datagram) /\ Len(B!Formerly(b_datagrams)) <= MaxDatagrams
         /\ \A i \in DOMAIN B!Formerly(b_datagrams) : B!Formerly(b_datagrams)[i].from # "current"
  <1> DEFINE f == B!Formerly(b_datagrams)
  <1>1. b_datagrams \in Seq(B!Datagram)
    BY BeaconTypes
  <1>2. PICK n \in Nat : n = Len(b_datagrams) /\ DOMAIN b_datagrams = 1 .. n
                         /\ \A i \in 1 .. n : b_datagrams[i] \in B!Datagram
    BY <1>1
  <1>3. f = [i \in 1 .. n |-> f[i]]
    BY <1>2 DEF B!Formerly
  <1>4. \A i \in 1 .. n : f[i] \in B!Datagram /\ f[i].from # "current"
    <2> SUFFICES ASSUME NEW i \in 1 .. n PROVE f[i] \in B!Datagram /\ f[i].from # "current"
      OBVIOUS
    <2>1. f[i] = IF b_datagrams[i].from = "current" THEN [b_datagrams[i] EXCEPT !.from = "former"]
                 ELSE b_datagrams[i]
      BY <1>2 DEF B!Formerly
    <2>2. b_datagrams[i] \in B!Datagram
      BY <1>2
    <2> HIDE DEF f
    <2>3. PICK d \in B!Datagram : d = b_datagrams[i]
      BY <2>2
    <2>4. [d EXCEPT !.from = "former"] \in B!Datagram /\ [d EXCEPT !.from = "former"].from = "former"
      BY <2>3 DEF B!Datagram
    <2> QED BY <2>1, <2>3, <2>4
  <1> HIDE DEF f
  <1>5. f \in Seq(B!Datagram) /\ Len(f) = n /\ DOMAIN f = 1 .. n
    BY <1>3, <1>4, ListMade, Zenon
  <1>6. n <= MaxDatagrams
    BY <1>2, BeaconTypes
  <1> QED BY <1>4, <1>5, <1>6 DEF f

LEMMA TakeReportKeeps == ASSUME BeaconInv, B!TakeReport PROVE BeaconInv'
  <1>1. /\ b_reports # <<>> /\ b_reports' = Tail(b_reports)
        /\ UNCHANGED <<b_stage, b_readable, b_terminated, b_configured, b_listening, b_broadcast, b_transmit,
                       b_filter, b_interval, b_ping_in, b_pipe, b_datagrams, b_network, b_outage>>
    BY DEF B!TakeReport, B!handler_vars, B!net_vars
  <1>2. PICK q : q = Tail(b_reports)
    OBVIOUS
  <1>3. q \in Seq(B!Datagram \cup {B!Hostname}) /\ Len(q) <= Hwm /\ \A i \in DOMAIN q : q[i].from # "current"
    BY <1>1, <1>2, ReportTaken
  <1>4. b_reports' = q
    BY <1>1, <1>2
  <1> QED BY <1>1, <1>3, <1>4, BeaconMoves, BeaconTypes, BeaconFacts, BeaconReads DEF B!Running

LEMMA PeerBroadcastsKeeps ==
  ASSUME BeaconInv, NEW data \in Datas, B!PeerBroadcasts(data) PROVE BeaconInv'
  <1>1. PICK x : x = [data |-> data, from |-> "peer"]
    OBVIOUS
  <1>2. x \in B!Datagram /\ x.from = "peer"
    BY <1>1 DEF B!Datagram
  <1>3. /\ Len(b_datagrams) < MaxDatagrams /\ b_datagrams' = Append(b_datagrams, x)
        /\ UNCHANGED <<b_stage, b_readable, b_terminated, b_configured, b_listening, b_broadcast, b_transmit,
                       b_filter, b_interval, b_ping_in, b_pipe, b_reports, b_network, b_outage>>
    BY <1>1 DEF B!PeerBroadcasts, B!handler_vars, B!app_vars, B!net_vars
  <1>4. /\ b_datagrams' \in Seq(B!Datagram) /\ Len(b_datagrams') <= MaxDatagrams
        /\ \A i \in DOMAIN b_datagrams' : b_datagrams'[i].from = "current" => b_datagrams'[i].data = b_transmit
    BY <1>2, <1>3, DatagramAdded
  <1> QED BY <1>3, <1>4, BeaconMoves, BeaconTypes, BeaconFacts, BeaconReads DEF B!Running

(* The handler.                                                             *)
LEMMA NoPingKeeps == ASSUME BeaconInv, B!NoPing PROVE BeaconInv'
  <1>1. /\ b_stage = "ping" /\ b_stage' \in {"ended", "poll"}
        /\ UNCHANGED <<b_readable, b_terminated, b_configured, b_listening, b_broadcast, b_transmit, b_filter,
                       b_interval, b_ping_in, b_pipe, b_datagrams, b_reports, b_network, b_outage>>
    BY DEF B!NoPing, B!Again, B!handler_vars, B!app_vars, B!net_vars
  <1>2. b_stage' \in B!Stage /\ b_stage' # "pipe" /\ b_stage' # "prepare" /\ B!Running
    BY <1>1 DEF B!Stage, B!Running
  <1> QED BY <1>1, <1>2, BeaconQuiet, BeaconTypes, BeaconFacts

LEMMA PingKeeps == ASSUME BeaconInv, B!Ping PROVE BeaconInv'
  <1>1. /\ b_stage = "ping" /\ b_stage' \in {"ended", "poll"} /\ b_transmit # B!None /\ b_ping_in' = b_interval
        /\ UNCHANGED <<b_readable, b_terminated, b_configured, b_listening, b_broadcast, b_transmit, b_filter,
                       b_interval, b_pipe, b_reports, b_network, b_outage>>
    BY DEF B!Ping, B!Again, B!app_vars, B!net_vars
  <1>2. b_stage' \in B!Stage /\ b_stage' # "pipe" /\ b_stage' # "prepare" /\ B!Running
    BY <1>1 DEF B!Stage, B!Running
  <1>3. \E i \in Intervals : b_ping_in' \in 0 .. i
    <2>1. b_interval \in Intervals
      BY BeaconTypes
    <2>2. PICK i \in Intervals : b_interval \in 0 .. i
      BY <2>1, IntervalWaits
    <2> QED BY <1>1, <2>2
  <1>4. /\ b_datagrams' \in Seq(B!Datagram) /\ Len(b_datagrams') <= MaxDatagrams
        /\ \A i \in DOMAIN b_datagrams' : b_datagrams'[i].from = "current" => b_datagrams'[i].data = b_transmit
    <2>1. CASE UNCHANGED b_datagrams
      BY <2>1, BeaconTypes, BeaconFacts
    <2>2. CASE /\ Len(b_datagrams) < MaxDatagrams
               /\ b_datagrams' = Append(b_datagrams, [data |-> b_transmit, from |-> "current"])
      <3>1. PICK x : x = [data |-> b_transmit, from |-> "current"]
        OBVIOUS
      <3>2. b_transmit \in Datas
        BY <1>1, BeaconTypes
      <3>3. x \in B!Datagram /\ (x.from = "current" => x.data = b_transmit)
        BY <3>1, <3>2 DEF B!Datagram
      <3>4. b_datagrams' = Append(b_datagrams, x)
        BY <2>2, <3>1
      <3> QED BY <2>2, <3>3, <3>4, DatagramAdded
    <2> QED BY <2>1, <2>2 DEF B!Ping
  <1> QED BY <1>1, <1>2, <1>3, <1>4, BeaconMoves, BeaconTypes, BeaconFacts

LEMMA PingFailsKeeps == ASSUME BeaconInv, B!PingFails PROVE BeaconInv'
  <1>1. /\ b_stage = "ping" /\ b_stage' = "prepare" /\ ~(b_network /\ b_broadcast)
        /\ UNCHANGED <<b_readable, b_terminated, b_configured, b_listening, b_broadcast, b_transmit, b_filter,
                       b_interval, b_ping_in, b_pipe, b_datagrams, b_reports, b_network, b_outage>>
    BY DEF B!PingFails, B!handler_vars, B!app_vars, B!net_vars
  <1>2. b_stage' \in B!Stage /\ b_stage' # "pipe" /\ B!Running
    BY <1>1 DEF B!Stage, B!Running
  <1>3. b_configured => b_outage
    BY <1>1, <1>2, BeaconFacts
  <1> QED BY <1>1, <1>2, <1>3, BeaconQuiet, BeaconTypes, BeaconFacts

LEMMA BeaconPollReturnsKeeps == ASSUME BeaconInv, B!PollReturns PROVE BeaconInv'
  <1>1. /\ b_stage = "poll" /\ b_stage' = IF b_pipe > 0 THEN "pipe" ELSE IF B!Readable THEN "udp" ELSE "ping"
        /\ b_readable' = B!Readable
        /\ UNCHANGED <<b_terminated, b_configured, b_listening, b_broadcast, b_transmit, b_filter,
                       b_interval, b_ping_in, b_pipe, b_datagrams, b_reports, b_network, b_outage>>
    BY DEF B!PollReturns, B!app_vars, B!net_vars
  <1>2. b_stage' \in B!Stage /\ (b_stage' = "pipe" => b_pipe > 0) /\ b_stage' # "prepare" /\ B!Running
    BY <1>1 DEF B!Stage, B!Running
  <1>3. B!Readable \in BOOLEAN
    BY BeaconTypes DEF B!Readable
  <1>4. b_readable' \in BOOLEAN
    BY <1>1, <1>3
  <1> QED BY <1>1, <1>2, <1>4, BeaconQuiet, BeaconTypes, BeaconFacts

LEMMA BeaconAborts ==
  ASSUME BeaconInv, B!Abort, b_pipe' \in 0 .. MaxPending PROVE BeaconInv'
  <1>1. /\ b_stage' = "aborted"
        /\ UNCHANGED <<b_readable, b_terminated, b_configured, b_listening, b_broadcast, b_transmit, b_filter,
                       b_interval, b_ping_in, b_datagrams, b_reports, b_network, b_outage>>
    BY DEF B!Abort, B!handler_vars, B!net_vars
  <1>2. b_stage' \in B!Stage /\ b_stage' # "pipe" /\ ~(B!Running)'
    BY <1>1 DEF B!Stage, B!Running
  <1> QED BY <1>1, <1>2, BeaconQuiet, BeaconTypes

LEMMA PrepareAgainKeeps == ASSUME BeaconInv, B!PrepareAgain PROVE BeaconInv'
  <1>1. CASE B!Abort
    <2>1. b_pipe' = b_pipe
      BY DEF B!PrepareAgain
    <2> QED BY <1>1, <2>1, BeaconAborts, BeaconTypes
  <1>2. CASE ~B!Abort
    <2>1. /\ b_stage = "prepare" /\ b_stage' \in {"ended", "poll"} /\ b_ping_in' = b_interval
          /\ b_datagrams' = <<>>
          /\ b_listening' = (b_network /\ b_configured) /\ b_broadcast' = (b_broadcast \/ b_network)
          /\ UNCHANGED <<b_readable, b_terminated, b_configured, b_transmit, b_filter,
                         b_interval, b_pipe, b_reports, b_network, b_outage>>
      BY <1>2 DEF B!PrepareAgain, B!PrepareUdp, B!Again, B!net_vars
    <2>2. b_stage' \in B!Stage /\ b_stage' # "pipe" /\ b_stage' # "prepare" /\ B!Running
      BY <2>1 DEF B!Stage, B!Running
    <2>3. \E i \in Intervals : b_ping_in' \in 0 .. i
      <3>1. b_interval \in Intervals
        BY BeaconTypes
      <3>2. PICK i \in Intervals : b_interval \in 0 .. i
        BY <3>1, IntervalWaits
      <3> QED BY <2>1, <3>2
    <2>4. b_listening' \in BOOLEAN /\ b_broadcast' \in BOOLEAN
      BY <2>1, BeaconTypes
    <2>5. b_configured => b_broadcast /\ b_outage
      BY <2>1, <2>2, BeaconFacts
    <2>6. /\ b_datagrams' \in Seq(B!Datagram) /\ Len(b_datagrams') <= MaxDatagrams
          /\ DOMAIN b_datagrams' = {}
      BY <2>1, BeaconBounds
    <2> QED BY <2>1, <2>2, <2>3, <2>4, <2>5, <2>6, BeaconMoves, BeaconTypes, BeaconFacts
  <1> QED BY <1>1, <1>2

LEMMA HandleUdpKeeps == ASSUME BeaconInv, B!HandleUdp PROVE BeaconInv'
  <1>1. /\ b_stage = "udp" /\ b_stage' = "ping"
        /\ UNCHANGED <<b_readable, b_terminated, b_configured, b_listening, b_broadcast, b_transmit, b_filter,
                       b_interval, b_ping_in, b_pipe, b_network, b_outage>>
    BY DEF B!HandleUdp, B!handler_vars, B!net_vars
  <1>2. b_stage' \in B!Stage /\ b_stage' # "pipe" /\ b_stage' # "prepare" /\ B!Running
    BY <1>1 DEF B!Stage, B!Running
  <1>3. CASE b_datagrams = <<>>
    <2>1. UNCHANGED <<b_datagrams, b_reports>>
      BY <1>3 DEF B!HandleUdp
    <2> QED BY <1>1, <1>2, <2>1, BeaconQuiet, BeaconTypes, BeaconFacts
  <1>4. CASE b_datagrams # <<>>
    <2>1. b_datagrams' = Tail(b_datagrams)
      BY <1>4 DEF B!HandleUdp
    <2>2. PICK x : x = Head(b_datagrams)
      OBVIOUS
    <2>3. /\ b_datagrams' \in Seq(B!Datagram) /\ Len(b_datagrams') <= MaxDatagrams
          /\ \A i \in DOMAIN b_datagrams' : b_datagrams'[i].from = "current" => b_datagrams'[i].data = b_transmit
          /\ x \in B!Datagram /\ (x.from = "current" => x.data = b_transmit)
      BY <1>4, <2>1, <2>2, DatagramTaken
    <2>4. /\ b_reports' \in Seq(B!Datagram \cup {B!Hostname}) /\ Len(b_reports') <= Hwm
          /\ \A i \in DOMAIN b_reports' : b_reports'[i].from # "current"
      <3>1. CASE B!Valid(x.data)
        <4>1. Len(b_reports) < Hwm /\ b_reports' = Append(b_reports, x)
          BY <1>4, <2>2, <3>1 DEF B!HandleUdp
        <4>2. x.data # b_transmit
          BY <3>1 DEF B!Valid
        <4>3. x.from # "current"
          BY <2>3, <4>2
        <4>4. x \in B!Datagram \cup {B!Hostname}
          BY <2>3
        <4> QED BY <4>1, <4>3, <4>4, ReportAdded
      <3>2. CASE ~B!Valid(x.data)
        <4>1. b_reports' = b_reports
          BY <1>4, <2>2, <3>2 DEF B!HandleUdp
        <4> QED BY <4>1, BeaconTypes, BeaconFacts
      <3> QED BY <3>1, <3>2
    <2> QED BY <1>1, <1>2, <2>3, <2>4, BeaconMoves, BeaconTypes, BeaconFacts
  <1> QED BY <1>3, <1>4

LEMMA AfterPipeStage ==
  ASSUME b_stage' = B!AfterPipe
  PROVE  b_stage' \in B!Stage /\ b_stage' # "pipe" /\ b_stage' # "prepare"
  BY DEF B!AfterPipe, B!Stage

(* The commands.                                                            *)
LEMMA ConfigureKeeps ==
  ASSUME BeaconInv, b_stage = "pipe", b_pipe' \in 0 .. MaxPending, B!Configure PROVE BeaconInv'
  <1>1. CASE B!Abort
    BY <1>1, BeaconAborts
  <1>2. CASE ~B!Abort
    <2>1. /\ Len(b_reports) < Hwm /\ b_reports' = Append(b_reports, B!Hostname)
          /\ b_configured' = TRUE /\ b_outage' = ~b_network /\ b_datagrams' = <<>>
          /\ b_listening' = (b_network /\ TRUE) /\ b_broadcast' = (b_broadcast \/ b_network)
          /\ b_stage' = (IF b_network THEN B!AfterPipe ELSE "aborted")
          /\ UNCHANGED <<b_readable, b_terminated, b_transmit, b_filter, b_interval, b_ping_in, b_network>>
      BY <1>2 DEF B!Configure, B!PrepareUdp
    <2>2. /\ b_stage' \in B!Stage /\ b_stage' # "pipe" /\ b_stage' # "prepare"
          /\ ((B!Running)' => b_network)
      BY <2>1, AfterPipeStage DEF B!Stage, B!Running
    <2>3. b_network \in BOOLEAN /\ b_broadcast \in BOOLEAN
      BY BeaconTypes
    <2>4. b_listening' \in BOOLEAN /\ b_broadcast' \in BOOLEAN /\ b_outage' \in BOOLEAN
      BY <2>1, <2>3
    <2>5. (B!Running)' => b_broadcast' /\ b_listening' /\ b_network'
      BY <2>1, <2>2
    <2>6. /\ b_datagrams' \in Seq(B!Datagram) /\ Len(b_datagrams') <= MaxDatagrams
          /\ DOMAIN b_datagrams' = {}
      BY <2>1, BeaconBounds
    <2>7. /\ b_reports' \in Seq(B!Datagram \cup {B!Hostname}) /\ Len(b_reports') <= Hwm
          /\ \A i \in DOMAIN b_reports' : b_reports'[i].from # "current"
      <3>1. PICK x : x = B!Hostname
        OBVIOUS
      <3>2. x \in B!Datagram \cup {B!Hostname} /\ x.from # "current"
        BY <3>1 DEF B!Hostname
      <3>3. b_reports' = Append(b_reports, x)
        BY <2>1, <3>1
      <3> QED BY <2>1, <3>2, <3>3, ReportAdded
    <2> QED BY <2>1, <2>2, <2>4, <2>5, <2>6, <2>7, BeaconMoves, BeaconTypes
  <1> QED BY <1>1, <1>2

LEMMA PublishKeeps ==
  ASSUME BeaconInv, b_stage = "pipe", b_pipe' \in 0 .. MaxPending, B!Publish \/ B!Silence PROVE BeaconInv'
  <1>1. CASE B!Abort
    BY <1>1, BeaconAborts
  <1>2. CASE ~B!Abort
    <2>1. /\ b_transmit' \in Datas \cup {B!None} /\ b_interval' \in Intervals
          /\ b_ping_in' \in {0, b_ping_in} /\ b_datagrams' = B!Formerly(b_datagrams)
          /\ b_stage' = B!AfterPipe
          /\ UNCHANGED <<b_readable, b_terminated, b_configured, b_listening, b_broadcast, b_filter,
                         b_reports, b_network, b_outage>>
      BY <1>2, BeaconTypes DEF B!Publish, B!Silence, B!net_vars
    <2>2. b_stage' \in B!Stage /\ b_stage' # "pipe" /\ b_stage' # "prepare" /\ B!Running
      BY <2>1, AfterPipeStage DEF B!Running
    <2>3. \E i \in Intervals : b_ping_in' \in 0 .. i
      <3>1. PICK i \in Intervals : b_ping_in \in 0 .. i
        BY BeaconTypes
      <3>2. 0 \in 0 .. i
        BY BeaconBounds
      <3> QED BY <2>1, <3>1, <3>2
    <2>4. /\ b_datagrams' \in Seq(B!Datagram) /\ Len(b_datagrams') <= MaxDatagrams
          /\ \A i \in DOMAIN b_datagrams' : b_datagrams'[i].from # "current"
      BY <2>1, FormerlyOurs
    <2> QED BY <2>1, <2>2, <2>3, <2>4, BeaconMoves, BeaconTypes, BeaconFacts
  <1> QED BY <1>1, <1>2

LEMMA OtherCommandsKeep ==
  ASSUME BeaconInv, b_stage = "pipe", b_pipe' \in 0 .. MaxPending,
         B!Verbose \/ B!Term \/ \E f \in Filters \cup {B!None} : B!Subscribe(f)
  PROVE  BeaconInv'
  <1>1. /\ b_stage' = B!AfterPipe /\ b_terminated' \in {TRUE, b_terminated} /\ b_filter' \in Filters \cup {B!None}
        /\ UNCHANGED <<b_readable, b_configured, b_listening, b_broadcast, b_transmit, b_interval,
                       b_ping_in, b_datagrams, b_reports, b_network, b_outage>>
    BY BeaconTypes DEF B!Verbose, B!Term, B!Subscribe, B!handler_vars, B!net_vars
  <1>2. b_stage' \in B!Stage /\ b_stage' # "pipe" /\ b_stage' # "prepare" /\ B!Running
    BY <1>1, AfterPipeStage DEF B!Running
  <1>3. b_terminated' \in BOOLEAN
    BY <1>1, BeaconTypes
  <1> QED BY <1>1, <1>2, <1>3, BeaconQuiet, BeaconTypes, BeaconFacts

LEMMA BeaconHandlePipeKeeps == ASSUME BeaconInv, B!HandlePipe PROVE BeaconInv'
  <1>1. b_stage = "pipe" /\ b_pipe' = b_pipe - 1
    BY DEF B!HandlePipe
  <1>2. b_pipe' \in 0 .. MaxPending
    BY <1>1, BeaconReads, BeaconTypes, BeaconBounds
  <1>3. \/ B!Configure \/ B!Publish \/ B!Silence \/ B!Verbose \/ B!Term
        \/ \E f \in Filters \cup {B!None} : B!Subscribe(f)
    BY DEF B!HandlePipe
  <1> QED BY <1>1, <1>2, <1>3, ConfigureKeeps, PublishKeeps, OtherCommandsKeep

LEMMA BeaconRests == ASSUME BeaconInv, UNCHANGED b_vars PROVE BeaconInv'
  <1>1. UNCHANGED <<b_stage, b_readable, b_terminated, b_configured, b_listening, b_broadcast, b_transmit,
                    b_filter, b_interval, b_ping_in, b_datagrams, b_pipe, b_reports, b_network, b_outage>>
    BY DEF b_vars
  <1>2. (B!Running)' = B!Running
    BY <1>1 DEF B!Running
  <1> QED BY <1>1, <1>2, BeaconQuiet, BeaconTypes, BeaconFacts, BeaconReads

LEMMA BeaconStep == ASSUME BeaconInv, B!Next PROVE BeaconInv'
  <1>1. B!Running
    BY DEF B!Next
  <1>2. CASE B!Handler
    BY <1>2, BeaconHandlePipeKeeps, HandleUdpKeeps, NoPingKeeps, PingKeeps, PingFailsKeeps, PrepareAgainKeeps,
       BeaconPollReturnsKeeps DEF B!Handler
  <1>3. CASE B!PollInterrupted \/ B!Command \/ B!NetworkGoes \/ B!NetworkComes \/ B!Tick
    BY <1>1, <1>3, BeaconWorld
  <1>4. CASE B!TakeReport \/ \E data \in Datas : B!PeerBroadcasts(data)
    BY <1>4, TakeReportKeeps, PeerBroadcastsKeeps
  <1> QED BY <1>2, <1>3, <1>4 DEF B!Next

LEMMA BeaconHears == BeaconInv => B!HearsOthersOnly
  BY DEF BeaconInv, B!HearsOthersOnly

-----------------------------------------------------------------------------
(* The worker: while it polls it has polls left.                            *)
WorkerInv ==
  W!TypeOK /\ (w_stage \in {"poll", "check", "returned"} => w_liveness > 0)

LEMMA WorkerBounds ==
  /\ HEARTBEAT_LIVENESS \in Nat /\ HEARTBEAT_LIVENESS > 0
  /\ Day \in Nat /\ Day > 0
  /\ HEARTBEAT_LIVENESS \in 0 .. HEARTBEAT_LIVENESS
  BY PartsAssumption DEF W!WorkerConstants

LEMMA TimeOfDay == \A a \in Int, d \in Nat : d > 0 => a % d \in 0 .. d - 1
  OBVIOUS

LEMMA TimeAdded == ASSUME w_now \in 0 .. Day - 1 PROVE W!AddTime(w_now, Heartbeat) \in 0 .. Day - 1
  <1>1. Heartbeat \in Nat
    BY PartsAssumption DEF W!WorkerConstants
  <1>2. w_now + Heartbeat \in Int
    BY <1>1, WorkerBounds
  <1> QED BY <1>2, WorkerBounds, TimeOfDay DEF W!AddTime

LEMMA PartOf ==
  ASSUME NEW T, NEW q \in Seq(T), NEW a \in Int, NEW b \in 0 .. Len(q), a >= 1
  PROVE  SubSeq(q, a, b) \in Seq(T)
  OBVIOUS

LEMMA InsertedOf ==
  ASSUME NEW T, NEW q \in Seq(T), NEW i \in 1 .. Len(q) + 1, NEW x \in T
  PROVE  SubSeq(q, 1, i - 1) \o <<x>> \o SubSeq(q, i, Len(q)) \in Seq(T)
  <1>1. Len(q) \in Nat
    OBVIOUS
  <1>2. i - 1 \in 0 .. Len(q) /\ Len(q) \in 0 .. Len(q) /\ i \in Int /\ i >= 1
    BY <1>1
  <1> DEFINE a == SubSeq(q, 1, i - 1)  b == <<x>>  c == SubSeq(q, i, Len(q))
  <1>3. a \in Seq(T) /\ c \in Seq(T)
    BY <1>2, PartOf
  <1>4. b \in Seq(T)
    OBVIOUS
  <1> HIDE DEF a, b, c
  <1>5. a \o b \in Seq(T)
    BY <1>3, <1>4, ConcatOf
  <1>6. (a \o b) \o c \in Seq(T)
    BY <1>3, <1>5, ConcatOf
  <1> QED BY <1>6 DEF a, b, c

LEMMA WorkerTypes ==
  ASSUME WorkerInv
  PROVE  /\ w_stage \in W!Stage /\ w_liveness \in 0 .. HEARTBEAT_LIVENESS
         /\ w_heartbeat_at \in 0 .. Day - 1 /\ w_now \in 0 .. Day - 1
         /\ w_elapsed \in Nat /\ w_request \in BOOLEAN
         /\ w_to_broker \in Seq(W!Message) /\ w_to_worker \in Seq({"REQUEST", "HEARTBEAT", "DISCONNECT"})
         /\ w_known \subseteq W!Link /\ w_up \in BOOLEAN
         /\ w_stage \in {"poll", "check", "returned"} => w_liveness > 0
  BY DEF WorkerInv, W!TypeOK

LEMMA WorkerIs ==
  ASSUME w_stage' \in W!Stage, w_liveness' \in 0 .. HEARTBEAT_LIVENESS,
         w_heartbeat_at' \in 0 .. Day - 1, w_now' \in 0 .. Day - 1,
         w_elapsed' \in Nat, w_request' \in BOOLEAN,
         w_to_broker' \in Seq(W!Message), w_to_worker' \in Seq({"REQUEST", "HEARTBEAT", "DISCONNECT"}),
         w_known' \subseteq W!Link, w_up' \in BOOLEAN,
         w_stage' \in {"poll", "check", "returned"} => w_liveness' > 0
  PROVE  WorkerInv'
  BY DEF WorkerInv, W!TypeOK

LEMMA SentToBroker ==
  ASSUME WorkerInv, NEW command \in {"READY", "HEARTBEAT", "REPORT", "DISCONNECT"}
  PROVE  W!SendToBroker(w_to_broker, command) \in Seq(W!Message)
  <1>1. PICK x : x = [link |-> "current", command |-> command]
    OBVIOUS
  <1>2. x \in W!Message
    BY <1>1 DEF W!Message, W!Link
  <1>3. W!SendToBroker(w_to_broker, command) = Append(w_to_broker, x)
    BY <1>1 DEF W!SendToBroker
  <1> QED BY <1>2, <1>3, WorkerTypes, AppendOf

(* What the worker's old sockets still hold is sent as of old links.        *)
LEMMA AbandonedOf ==
  ASSUME WorkerInv, NEW k \in 0 .. Len(w_to_broker)
  PROVE  W!Abandoned(w_to_broker, k) \in Seq(W!Message) /\ Len(W!Abandoned(w_to_broker, k)) = k
  <1> DEFINE f == W!Abandoned(w_to_broker, k)
  <1>1. w_to_broker \in Seq(W!Message)
    BY WorkerTypes
  <1>2. k \in Nat /\ \A i \in 1 .. k : w_to_broker[i] \in W!Message
    BY <1>1
  <1>3. f = [i \in 1 .. k |-> f[i]]
    BY DEF W!Abandoned
  <1>4. \A i \in 1 .. k : f[i] \in W!Message
    <2> SUFFICES ASSUME NEW i \in 1 .. k PROVE f[i] \in W!Message
      OBVIOUS
    <2>1. f[i] = [w_to_broker[i] EXCEPT !.link = "old"]
      BY DEF W!Abandoned
    <2>2. PICK m \in W!Message : m = w_to_broker[i]
      BY <1>2
    <2>3. [m EXCEPT !.link = "old"] \in W!Message
      BY DEF W!Message, W!Link
    <2> HIDE DEF f
    <2> QED BY <2>1, <2>2, <2>3
  <1> HIDE DEF f
  <1> QED BY <1>2, <1>3, <1>4, ListMade, Zenon DEF f

LEMMA Connected ==
  ASSUME WorkerInv, W!ConnectToBroker
  PROVE  /\ w_to_broker' \in Seq(W!Message) /\ w_to_worker' \in Seq({"REQUEST", "HEARTBEAT", "DISCONNECT"})
         /\ w_known' \subseteq W!Link /\ w_liveness' \in 0 .. HEARTBEAT_LIVENESS /\ w_liveness' > 0
         /\ w_heartbeat_at' \in 0 .. Day - 1
  <1>3. PICK x : x = [link |-> "current", command |-> "READY"]
    OBVIOUS
  <1>1. PICK k \in 0 .. Len(w_to_broker) : \E i \in 1 .. k + 1 :
          w_to_broker' = SubSeq(W!Abandoned(w_to_broker, k), 1, i - 1)
                         \o <<x>> \o SubSeq(W!Abandoned(w_to_broker, k), i, k)
    BY <1>3 DEF W!ConnectToBroker
  <1>2. PICK q : q = W!Abandoned(w_to_broker, k)
    OBVIOUS
  <1>4. q \in Seq(W!Message) /\ Len(q) = k /\ x \in W!Message
    BY <1>2, <1>3, AbandonedOf DEF W!Message, W!Link
  <1>5. PICK i \in 1 .. Len(q) + 1 : w_to_broker' = SubSeq(q, 1, i - 1) \o <<x>> \o SubSeq(q, i, Len(q))
    BY <1>1, <1>2, <1>4
  <1>6. w_to_broker' \in Seq(W!Message)
    BY <1>4, <1>5, InsertedOf
  <1>7. w_to_worker' \in Seq({"REQUEST", "HEARTBEAT", "DISCONNECT"})
    BY DEF W!ConnectToBroker
  <1>8. w_known' \subseteq W!Link
    BY DEF W!ConnectToBroker, W!Link
  <1>9. w_liveness' \in 0 .. HEARTBEAT_LIVENESS /\ w_liveness' > 0
    BY WorkerBounds DEF W!ConnectToBroker
  <1>10. w_heartbeat_at' \in 0 .. Day - 1
    BY WorkerTypes, TimeAdded DEF W!ConnectToBroker
  <1> QED BY <1>6, <1>7, <1>8, <1>9, <1>10

LEMMA TakenOf ==
  ASSUME NEW T, NEW q \in Seq(T), q # <<>> PROVE Tail(q) \in Seq(T) /\ Head(q) \in T
  BY TailOf

LEMMA WorkerInitially == W!Init => WorkerInv
  <1> SUFFICES ASSUME W!Init PROVE WorkerInv
    OBVIOUS
  <1>1. w_liveness \in 0 .. HEARTBEAT_LIVENESS
    BY WorkerBounds DEF W!Init
  <1>2. w_to_broker \in Seq(W!Message) /\ w_to_worker \in Seq({"REQUEST", "HEARTBEAT", "DISCONNECT"})
    BY DEF W!Init
  <1>3. {w_heartbeat_at, w_now} \subseteq 0 .. Day - 1 /\ w_elapsed \in Nat
    BY DEF W!Init
  <1>4. w_stage \in W!Stage /\ w_stage \notin {"poll", "check", "returned"}
    BY DEF W!Init, W!Stage
  <1>5. w_request \in BOOLEAN /\ w_known \subseteq W!Link /\ w_up \in BOOLEAN
    BY DEF W!Init
  <1> QED BY <1>1, <1>2, <1>3, <1>4, <1>5, Zenon DEF WorkerInv, W!TypeOK

(* The loop.                                                                *)
LEMMA ReceiveKeeps == ASSUME WorkerInv, W!Receive PROVE WorkerInv'
  <1>1. w_to_worker # <<>> /\ w_stage' = "check" /\ UNCHANGED <<w_now, w_elapsed, w_up>>
    BY DEF W!Receive
  <1>2. w_request' \in BOOLEAN
    BY WorkerTypes DEF W!Receive
  <1>3. CASE W!ConnectToBroker
    BY <1>1, <1>2, <1>3, Connected, WorkerTypes, WorkerIs DEF W!Stage
  <1>4. CASE ~W!ConnectToBroker
    <2>1. w_liveness' = HEARTBEAT_LIVENESS /\ w_to_worker' = Tail(w_to_worker)
          /\ UNCHANGED <<w_heartbeat_at, w_to_broker, w_known>>
      BY <1>4 DEF W!Receive
    <2>2. w_to_worker' \in Seq({"REQUEST", "HEARTBEAT", "DISCONNECT"})
      BY <1>1, <2>1, WorkerTypes, TakenOf
    <2> QED BY <1>1, <1>2, <2>1, <2>2, WorkerTypes, WorkerBounds, WorkerIs DEF W!Stage
  <1> QED BY <1>3, <1>4

LEMMA PollExpiresKeeps == ASSUME WorkerInv, W!PollExpires PROVE WorkerInv'
  <1>1. /\ w_stage = "poll" /\ w_liveness' = w_liveness - 1
        /\ w_stage' = (IF w_liveness' = 0 THEN "sleep" ELSE "check") /\ w_elapsed' = 0
        /\ UNCHANGED <<w_now, w_heartbeat_at, w_request, w_to_broker, w_to_worker, w_known, w_up>>
    BY DEF W!PollExpires, W!broker_vars
  <1>2. w_liveness > 0 /\ w_liveness \in 0 .. HEARTBEAT_LIVENESS
    BY <1>1, WorkerTypes
  <1>3. w_liveness' \in 0 .. HEARTBEAT_LIVENESS /\ (w_liveness' # 0 => w_liveness' > 0)
    BY <1>1, <1>2, WorkerBounds
  <1>4. w_stage' \in W!Stage /\ (w_stage' \in {"poll", "check", "returned"} => w_liveness' # 0)
    BY <1>1 DEF W!Stage
  <1>5. w_elapsed' \in Nat
    BY <1>1
  <1> QED BY <1>1, <1>3, <1>4, <1>5, WorkerTypes, WorkerIs

LEMMA WakeUpKeeps == ASSUME WorkerInv, W!WakeUp PROVE WorkerInv'
  BY Connected, WorkerTypes, WorkerIs DEF W!WakeUp, W!Stage

LEMMA StartKept == ASSUME WorkerInv, W!Start PROVE WorkerInv'
  BY Connected, WorkerTypes, WorkerIs DEF W!Start, W!Stage

LEMMA CheckHeartbeatKeeps == ASSUME WorkerInv, W!CheckHeartbeat PROVE WorkerInv'
  <1>1. /\ w_stage = "check" /\ w_stage' = "poll" /\ w_elapsed' = 0
        /\ UNCHANGED <<w_liveness, w_now, w_request, w_to_worker, w_known, w_up>>
    BY DEF W!CheckHeartbeat, W!broker_vars
  <1>2. w_to_broker' \in Seq(W!Message) /\ w_heartbeat_at' \in 0 .. Day - 1
    <2>1. W!SendToBroker(w_to_broker, "HEARTBEAT") \in Seq(W!Message)
      BY SentToBroker
    <2>2. W!AddTime(w_now, Heartbeat) \in 0 .. Day - 1
      BY WorkerTypes, TimeAdded
    <2> QED BY <2>1, <2>2, WorkerTypes DEF W!CheckHeartbeat
  <1> QED BY <1>1, <1>2, WorkerTypes, WorkerIs DEF W!Stage

(* The application.                                                         *)
LEMMA ApplicationKeeps ==
  ASSUME WorkerInv, W!Interrupted \/ W!SendToClient \/ W!ReceiveAgain \/ W!Delete PROVE WorkerInv'
  <1>1. CASE W!Interrupted
    BY <1>1, WorkerTypes, WorkerIs DEF W!Interrupted, W!broker_vars, W!Stage
  <1>2. CASE W!SendToClient
    <2>1. W!SendToBroker(w_to_broker, "REPORT") \in Seq(W!Message)
      BY SentToBroker
    <2> QED BY <1>2, <2>1, WorkerTypes, WorkerIs DEF W!SendToClient, W!broker_vars
  <1>3. CASE W!ReceiveAgain
    BY <1>3, WorkerTypes, WorkerIs DEF W!ReceiveAgain, W!broker_vars, W!Stage
  <1>4. CASE W!Delete
    <2>1. W!SendToBroker(w_to_broker, "DISCONNECT") \in Seq(W!Message)
      BY SentToBroker
    <2>2. w_to_broker' \in Seq(W!Message) /\ w_to_worker' \in Seq({"REQUEST", "HEARTBEAT", "DISCONNECT"})
      BY <1>4, <2>1, WorkerTypes DEF W!Delete
    <2>3. w_stage' = "deleted" /\ UNCHANGED <<w_liveness, w_heartbeat_at, w_elapsed, w_request, w_now, w_known, w_up>>
      BY <1>4 DEF W!Delete, W!broker_vars
    <2> QED BY <2>2, <2>3, WorkerTypes, WorkerIs DEF W!Stage
  <1> QED BY <1>1, <1>2, <1>3, <1>4

(* The broker, and time.                                                    *)
LEMMA WorkerUntouched ==
  ASSUME WorkerInv, UNCHANGED <<w_stage, w_liveness, w_heartbeat_at, w_elapsed, w_request>>,
         w_now' \in 0 .. Day - 1,
         w_to_broker' \in Seq(W!Message), w_to_worker' \in Seq({"REQUEST", "HEARTBEAT", "DISCONNECT"}),
         w_known' \subseteq W!Link, w_up' \in BOOLEAN
  PROVE  WorkerInv'
  BY WorkerTypes, WorkerIs

LEMMA BrokerKeeps == ASSUME WorkerInv, W!Broker PROVE WorkerInv'
  <1>1. CASE W!BrokerReads
    <2>1. PICK m : m = Head(w_to_broker)
      OBVIOUS
    <2>2. w_to_broker # <<>> /\ w_to_broker' = Tail(w_to_broker)
          /\ UNCHANGED <<w_stage, w_liveness, w_heartbeat_at, w_elapsed, w_request, w_now, w_up>>
      BY <1>1 DEF W!BrokerReads, W!worker_vars
    <2>3. m \in W!Message /\ w_to_broker' \in Seq(W!Message)
      BY <2>1, <2>2, WorkerTypes, TakenOf
    <2>4. m.link \in W!Link
      BY <2>3 DEF W!Message
    <2>5. w_known' \in {w_known \cup {m.link}, w_known \ {m.link}, w_known}
      BY <1>1, <2>1 DEF W!BrokerReads
    <2>6. w_known' \subseteq W!Link
      BY <2>4, <2>5, WorkerTypes
    <2>7. w_to_worker' \in {w_to_worker, Append(w_to_worker, "DISCONNECT")}
      BY <1>1 DEF W!BrokerReads
    <2>8. Append(w_to_worker, "DISCONNECT") \in Seq({"REQUEST", "HEARTBEAT", "DISCONNECT"})
      BY WorkerTypes, AppendOf
    <2> QED BY <2>2, <2>3, <2>6, <2>7, <2>8, WorkerTypes, WorkerUntouched
  <1>2. CASE W!BrokerStops
    <2>1. w_to_broker' = <<>> /\ w_known' = {} /\ w_up' = FALSE
          /\ UNCHANGED <<w_stage, w_liveness, w_heartbeat_at, w_elapsed, w_request, w_now, w_to_worker>>
      BY <1>2 DEF W!BrokerStops, W!worker_vars
    <2>2. w_to_broker' \in Seq(W!Message)
      BY <2>1
    <2> QED BY <2>1, <2>2, WorkerTypes, WorkerUntouched
  <1>3. CASE W!BrokerStarts
    BY <1>3, WorkerTypes, WorkerUntouched DEF W!BrokerStarts, W!worker_vars
  <1>4. CASE \E command \in {"REQUEST", "HEARTBEAT", "DISCONNECT"} : W!BrokerSends(command)
    <2>1. PICK command \in {"REQUEST", "HEARTBEAT", "DISCONNECT"} : W!BrokerSends(command)
      BY <1>4
    <2>2. Append(w_to_worker, command) \in Seq({"REQUEST", "HEARTBEAT", "DISCONNECT"})
      BY WorkerTypes, AppendOf
    <2> QED BY <2>1, <2>2, WorkerTypes, WorkerUntouched DEF W!BrokerSends, W!worker_vars, W!broker_vars
  <1>5. CASE \E link \in W!Link : W!BrokerForgets(link)
    BY <1>5, WorkerTypes, WorkerUntouched DEF W!BrokerForgets, W!worker_vars
  <1> QED BY <1>1, <1>2, <1>3, <1>4, <1>5 DEF W!Broker

LEMMA TickKeeps == ASSUME WorkerInv, W!Tick PROVE WorkerInv'
  <1>1. /\ w_now' = (w_now + 1) % Day
        /\ UNCHANGED <<w_stage, w_liveness, w_heartbeat_at, w_request, w_to_broker, w_to_worker, w_known, w_up>>
    BY DEF W!Tick, W!broker_vars
  <1>2. w_elapsed' \in Nat
    <2>1. w_elapsed' \in {w_elapsed, w_elapsed + 1}
      BY DEF W!Tick
    <2> QED BY <2>1, WorkerTypes
  <1>3. w_now' \in 0 .. Day - 1
    <2>1. w_now + 1 \in Int
      BY WorkerTypes, WorkerBounds
    <2> QED BY <1>1, <2>1, WorkerBounds, TimeOfDay
  <1> QED BY <1>1, <1>2, <1>3, WorkerTypes, WorkerIs

LEMMA WorkerRests == ASSUME WorkerInv, UNCHANGED w_vars PROVE WorkerInv'
  BY WorkerTypes, WorkerIs DEF w_vars

LEMMA WorkerStep == ASSUME WorkerInv, W!Next PROVE WorkerInv'
  BY ReceiveKeeps, PollExpiresKeeps, WakeUpKeeps, CheckHeartbeatKeeps, StartKept, ApplicationKeeps,
     BrokerKeeps, TickKeeps DEF W!Next, W!Loop, W!Application

-----------------------------------------------------------------------------
(* The parts together: a step is a step of one part, and the others rest.   *)

PartsInv == RelayInv /\ WorkerInv /\ ContextHere /\ BeaconInv

LEMMA RelayRests == ASSUME RelayInv, UNCHANGED vars PROVE RelayInv'
  BY StutterKeeps

LEMMA PartsStart == PartsInit => PartsInv
  BY Initially, WorkerInitially, ContextStart, BeaconInitially DEF PartsInit, PartsInv

LEMMA PartsStep ==
  ASSUME PartsInv, [PartsNext]_<<part, vars, w_vars, c_vars, b_vars>>
  PROVE  PartsInv'
  <1>1. RelayInv /\ WorkerInv /\ ContextHere /\ BeaconInv
    BY DEF PartsInv
  <1>2. CASE RelayNext
    <2>1. Next /\ UNCHANGED w_vars /\ UNCHANGED c_vars /\ UNCHANGED b_vars
      BY <1>2 DEF RelayNext
    <2> QED BY <1>1, <2>1, StepKeeps, WorkerRests, ContextRests, BeaconRests DEF PartsInv
  <1>3. CASE WorkerNext
    <2>1. W!Next /\ UNCHANGED vars /\ UNCHANGED c_vars /\ UNCHANGED b_vars
      BY <1>3 DEF WorkerNext
    <2> QED BY <1>1, <2>1, RelayRests, WorkerStep, ContextRests, BeaconRests DEF PartsInv
  <1>4. CASE ContextNext
    <2>1. C!Next /\ UNCHANGED vars /\ UNCHANGED w_vars /\ UNCHANGED b_vars
      BY <1>4 DEF ContextNext
    <2> QED BY <1>1, <2>1, RelayRests, WorkerRests, ContextStep, BeaconRests DEF PartsInv
  <1>5. CASE BeaconNext
    <2>1. B!Next /\ UNCHANGED vars /\ UNCHANGED w_vars /\ UNCHANGED c_vars
      BY <1>5 DEF BeaconNext
    <2> QED BY <1>1, <2>1, RelayRests, WorkerRests, ContextRests, BeaconStep DEF PartsInv
  <1>6. CASE UNCHANGED <<part, vars, w_vars, c_vars, b_vars>>
    <2>1. UNCHANGED vars /\ UNCHANGED w_vars /\ UNCHANGED c_vars /\ UNCHANGED b_vars
      BY <1>6
    <2> QED BY <1>1, <2>1, RelayRests, WorkerRests, ContextRests, BeaconRests DEF PartsInv
  <1> QED BY <1>2, <1>3, <1>4, <1>5, <1>6 DEF PartsNext

(* What every behaviour of every part keeps.                                *)
THEOREM PartsInvariance == PartsSpec => []PartsInv
  <1>1. PartsInit => PartsInv
    BY PartsStart
  <1>2. PartsInv /\ [PartsNext]_<<part, vars, w_vars, c_vars, b_vars>> => PartsInv'
    BY PartsStep
  <1> QED BY <1>1, <1>2, PTL DEF PartsSpec

(* The variables of every part keep their types: the worker's liveness does  *)
(* not go below zero, the beacon's queues keep to their bounds and it reads    *)
(* the pipe only for a command that is there.                                 *)
THEOREM PartsTypes == PartsSpec => []TypesOK
  <1>1. PartsInv => TypesOK
    BY DEF PartsInv, TypesOK, RelayInv, WorkerInv, ContextHere, ContextInv, BeaconInv
  <1> QED BY <1>1, PartsInvariance, PTL

(* While the process runs a context's list and count are true: what is in    *)
(* the list is alive or of another thread, what is open and in no call is in   *)
(* it, once unless a thread was not main's, the count is its length unless a   *)
(* base or a shutdown slipped in, and all handles are of one zmq context       *)
(* unless two were made.                                                      *)
THEOREM TableAlwaysTrue == PartsSpec => []TableTrue
  <1>1. PartsInv => TableTrue
    BY TableFollows DEF PartsInv
  <1> QED BY <1>1, PartsInvariance, PTL

(* When a context does not end with every handle closed a slip is the        *)
(* reason: the limit locks main out, another thread's socket is used after its *)
(* end, a shutdown aborts with an empty list, and a socket that was appended   *)
(* again, or of a base or of another thread, keeps the end waiting.            *)
THEOREM CleanExitAlways == PartsSpec => []CleanExit
  <1>1. PartsInv => CleanExit
    BY DEF PartsInv, ContextHere, CleanExit
  <1> QED BY <1>1, PartsInvariance, PTL

(* The beacon never reports an echo of what it publishes now, and once it is *)
(* configured it hears its peers unless the network was away since.          *)
THEOREM BeaconHearsAlways == PartsSpec => []B!HearsOthersOnly
  <1>1. PartsInv => B!HearsOthersOnly
    BY BeaconHears DEF PartsInv
  <1> QED BY <1>1, PartsInvariance, PTL
==============================================================================
