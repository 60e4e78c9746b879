------------------------------ MODULE WireProofs ------------------------------
(* The encoding of messages, the Messages objects, bind() and attach(), for   *)
(* every Base, all contents, all lists of endpoints and any number of steps.  *)
EXTENDS MCWire, ListsProofs


(* Division with remainder, as the conversion of a number to bytes uses it.  *)
LEMMA DivMod ==
  ASSUME NEW n \in Nat, NEW b \in Nat, b > 0
  PROVE  /\ n \div b \in Nat /\ n % b \in 0 .. b - 1
         /\ n = b * (n \div b) + (n % b)
  OBVIOUS

(* A number below b * c has a quotient below c.                              *)
LEMMA DivBelow ==
  ASSUME NEW n \in Nat, NEW b \in Nat, NEW c \in Nat, b > 0, n < b * c
  PROVE  n \div b \in 0 .. c - 1
  <1>1. n \div b \in Nat /\ n >= b * (n \div b)
    BY DivMod
  <1>2. SUFFICES ASSUME n \div b >= c PROVE FALSE
    BY <1>1
  <1>3. b * (n \div b) >= b * c
    BY <1>1, <1>2
  <1> QED BY <1>1, <1>3

LEMMA Bases == Word \in Nat /\ Word > 0 /\ Long = Word * Word /\ Word = Base * Base /\ Long \in Nat
  BY BaseAssumption DEF Word, Long

(* The two bytes of a number below Word.                                     *)
LEMMA TwoBytes ==
  ASSUME NEW n \in 0 .. Word - 1
  PROVE  /\ (n \div Base) % Base \in Byte /\ n % Base \in Byte
         /\ ((n \div Base) % Base) * Base + (n % Base) = n
  <1>1. n \in Nat /\ n < Base * Base
    BY Bases
  <1>2. n \div Base \in 0 .. Base - 1
    BY <1>1, DivBelow, BaseAssumption
  <1>3. /\ n % Base \in 0 .. Base - 1
        /\ n = Base * (n \div Base) + (n % Base)
    BY <1>1, DivMod, BaseAssumption
  <1>4. (n \div Base) % Base = n \div Base
    BY <1>2, BaseAssumption
  <1>5. (n \div Base) * Base + (n % Base) = n
    BY <1>2, <1>3, BaseAssumption
  <1> QED BY <1>2, <1>3, <1>4, <1>5 DEF Byte

(* Four bytes are read as the number they were written for.                  *)
LEMMA FourBytes ==
  ASSUME NEW n \in 0 .. Long - 1
  PROVE  \E w, x, y, z \in Byte :
           Put4(n) = <<w, x, y, z>> /\ (w * Base + x) * Word + y * Base + z = n
  <1> DEFINE high == n \div Word
             low  == n % Word
  <1>1. n \in Nat /\ n < Word * Word
    BY Bases
  <1>2. high \in 0 .. Word - 1
    BY <1>1, DivBelow, Bases
  <1>3. low \in 0 .. Word - 1 /\ n = Word * high + low
    BY <1>1, DivMod, Bases
  <1>4. high % Word = high
    BY <1>2, Bases
  <1> HIDE DEF high, low
  <1>5. Put4(n) = <<(high \div Base) % Base, high % Base, (low \div Base) % Base, low % Base>>
    BY <1>4 DEF Put4, high, low
  <1>6. PICK w, x \in Byte :
          w = (high \div Base) % Base /\ x = high % Base /\ w * Base + x = high
    BY <1>2, TwoBytes
  <1>7. PICK y, z \in Byte :
          y = (low \div Base) % Base /\ z = low % Base /\ y * Base + z = low
    BY <1>3, TwoBytes
  <1>8. Put4(n) = <<w, x, y, z>>
    BY <1>5, <1>6, <1>7
  <1>9. y * Base \in Int /\ z \in Int
    BY BaseAssumption DEF Byte
  <1>10. high * Word + y * Base + z = n
    <2>1. high * Word = Word * high /\ Word * high \in Int
      BY <1>2, Bases
    <2> QED BY <1>3, <1>7, <1>9, <2>1
  <1> QED BY <1>6, <1>8, <1>10

(* ReadHeader reads back the size that Header wrote, for every size an int   *)
(* holds and whatever follows, and accepts the frame exactly when all of its  *)
(* bytes are there: Messages::encode and decode agree on where frames end.    *)
THEOREM HeaderRoundTrip ==
  ASSUME NEW size \in 0 .. (Long \div 2) - 1, NEW rest \in Seq(Byte)
  PROVE  LET b == Header(size) \o rest
         IN /\ ReadHeader(b).size = size
            /\ ReadHeader(b).head = Len(Header(size))
            /\ ReadHeader(b).verdict = IF Len(rest) >= size THEN "ok" ELSE "malformed"
  <1> DEFINE b == Header(size) \o rest
  <1>1. Marker \in Byte /\ Len(rest) \in Nat /\ size \in Nat
    BY BaseAssumption DEF Marker, Byte
  <1>2. CASE size < Marker
    <2>1. Header(size) = <<size>> /\ size \in Byte
      BY <1>1, <1>2, BaseAssumption DEF Header, Marker, Byte
    <2>2. b \in Seq(Byte) /\ b[1] = size /\ Len(b) = 1 + Len(rest)
      BY <1>1, <2>1
    <2>3. b[1] # Marker
      BY <1>1, <1>2, <2>2
    <2> HIDE DEF b
    <2>4. /\ ReadHeader(b).size = size /\ ReadHeader(b).head = 1
          /\ ReadHeader(b).verdict = IF Len(rest) >= size THEN "ok" ELSE "malformed"
      BY <1>1, <2>2, <2>3 DEF ReadHeader, Holds
    <2>5. Len(Header(size)) = 1
      BY <2>1
    <2> QED BY <2>4, <2>5 DEF b
  <1>3. CASE ~(size < Marker)
    <2>1. size \in 0 .. Long - 1 /\ size < Long \div 2
      <3>1. Long \in Nat
        BY Bases
      <3>2. \A m \in Nat : \A k \in 0 .. (m \div 2) - 1 : k \in 0 .. m - 1 /\ k < m \div 2
        OBVIOUS
      <3> QED BY <3>1, <3>2
    <2>2. PICK w, x, y, z \in Byte :
            Put4(size) = <<w, x, y, z>> /\ (w * Base + x) * Word + y * Base + z = size
      BY <2>1, FourBytes
    <2>3. Header(size) = <<Marker>> \o <<w, x, y, z>>
      BY <1>3, <2>2 DEF Header
    <2>4. /\ b \in Seq(Byte) /\ Len(b) = 5 + Len(rest) /\ b[1] = Marker
          /\ Tail(b)[1] = w /\ Tail(b)[2] = x /\ Tail(b)[3] = y /\ Tail(b)[4] = z
          /\ Len(Header(size)) = 5
      <3> HIDE DEF Byte
      <3>1. /\ <<Marker>> \in Seq(Byte) /\ Len(<<Marker>>) = 1
            /\ <<w, x, y, z>> \in Seq(Byte) /\ Len(<<w, x, y, z>>) = 4
        BY <1>1
      <3>2. /\ Header(size) \in Seq(Byte) /\ Len(Header(size)) = 5
            /\ Header(size)[1] = Marker
            /\ \A i \in 1 .. 4 : Header(size)[i + 1] = <<w, x, y, z>>[i]
        <4>1. /\ <<Marker>> \o <<w, x, y, z>> \in Seq(Byte)
              /\ Len(<<Marker>> \o <<w, x, y, z>>) = 1 + 4
              /\ \A i \in 1 .. 5 : (<<Marker>> \o <<w, x, y, z>>)[i] =
                   IF i <= 1 THEN <<Marker>>[i] ELSE <<w, x, y, z>>[i - 1]
          BY <3>1, ConcatProperties
        <4>2. <<Marker>>[1] = Marker
          OBVIOUS
        <4>3. \A i \in 1 .. 4 : i + 1 \in 1 .. 5 /\ ~(i + 1 <= 1) /\ (i + 1) - 1 = i
          OBVIOUS
        <4> QED BY <2>3, <4>1, <4>2, <4>3
      <3>3. /\ b \in Seq(Byte) /\ Len(b) = 5 + Len(rest)
            /\ \A i \in 1 .. 5 : b[i] = Header(size)[i]
        <4> DEFINE h == Header(size)
        <4>0. h \in Seq(Byte) /\ rest \in Seq(Byte) /\ b = h \o rest /\ Len(h) = 5
          BY <3>2
        <4> HIDE DEF h, b
        <4>1. /\ b \in Seq(Byte) /\ Len(b) = Len(h) + Len(rest)
              /\ \A i \in 1 .. Len(h) + Len(rest) :
                   b[i] = IF i <= Len(h) THEN h[i] ELSE rest[i - Len(h)]
          BY <4>0, ConcatProperties
        <4>2. \A i \in 1 .. 5 + Len(rest) : b[i] = IF i <= 5 THEN h[i] ELSE rest[i - 5]
          BY <4>0, <4>1
        <4>3. \A i \in 1 .. 5 : i \in 1 .. 5 + Len(rest) /\ i <= 5
          BY <1>1
        <4> QED BY <4>0, <4>1, <4>2, <4>3 DEF h
      <3> HIDE DEF b
      <3>4. \A i \in 1 .. 4 : Tail(b)[i] = b[i + 1]
        BY <1>1, <3>3
      <3> QED BY <3>2, <3>3, <3>4
    <2> HIDE DEF b
    <2>5. Get4(Tail(b)) = size
      BY <2>2, <2>4 DEF Get4, Get2
    <2>6. Signed(Get4(Tail(b))) = size
      BY <2>1, <2>5 DEF Signed
    <2>7. Holds(b, 5)
      BY <1>1, <2>4 DEF Holds
    <2>8. ReadHeader(b).size = size /\ ReadHeader(b).head = 5
      BY <2>4, <2>6, <2>7 DEF ReadHeader
    <2>9. ReadHeader(b).verdict = IF Len(rest) >= size THEN "ok" ELSE "malformed"
      BY <1>1, <2>4, <2>6, <2>7 DEF ReadHeader, Holds
    <2> QED BY <2>4, <2>8, <2>9 DEF b
  <1> QED BY <1>1, <1>2, <1>3 DEF Marker, Byte

LEMMA FrameLength == ASSUME NEW f \in Frame PROVE Len(f) \in Nat
  BY DEF Frame

(* The sum that Total runs up.                                              *)
Sums(q, s) ==
  /\ s \in [0 .. Len(q) -> Nat] /\ s[0] = 0
  /\ \A k \in 1 .. Len(q) : s[k] = s[k - 1] + Len(q[k])

LEMMA TotalSums ==
  ASSUME NEW q \in Seq(Frame)
  PROVE  \E s : Sums(q, s) /\ Total(q) = s[Len(q)]
  <1> DEFINE n == Len(q)
             F == [p \in (1 .. n) \X Nat |-> p[2] + Len(q[p[1]])]
             Def(s) == s = [k \in 0 .. n |-> IF k = 0 THEN 0 ELSE s[k - 1] + Len(q[k])]
             t == CHOOSE s : Def(s)
  <1>1. n \in Nat /\ \A k \in 1 .. n : q[k] \in Frame /\ Len(q[k]) \in Nat
    BY FrameLength
  <1>2. F \in [(1 .. n) \X Nat -> Nat] /\ \A k \in 1 .. n, m \in Nat : F[<<k, m>>] = m + Len(q[k])
    BY <1>1
  <1> HIDE DEF n, F
  <1>3. PICK f \in [0 .. n -> Nat] : f[0] = 0 /\ \A k \in 1 .. n : f[k] = F[<<k, f[k - 1]>>]
    <2>1. 0 \in Nat
      OBVIOUS
    <2>2. Runs(n, Nat, 0, F)
      BY <1>1, <1>2, <2>1, RunningFunction, Zenon
    <2> QED BY <2>2 DEF Runs
  <1>4. \A k \in 1 .. n : f[k] = f[k - 1] + Len(q[k])
    <2> SUFFICES ASSUME NEW k \in 1 .. n PROVE f[k] = f[k - 1] + Len(q[k])
      OBVIOUS
    <2>1. k - 1 \in 0 .. n
      BY <1>1
    <2> QED BY <1>2, <1>3, <2>1
  <1>5. Def(f)
    <2>1. \A k \in 0 .. n : k # 0 => k \in 1 .. n
      BY <1>1
    <2> QED BY <1>3, <1>4, <2>1
  <1>6. Def(t)
    BY <1>5, Zenon
  <1>7. Total(q) = t[n]
    BY DEF Total, n
  <1> HIDE DEF t
  <1>8. 0 \in 0 .. n /\ \A k \in 1 .. n : k \in 0 .. n /\ k - 1 \in 0 .. n /\ k # 0
    BY <1>1
  <1>9. t[0] = 0 /\ \A k \in 1 .. n : t[k] = t[k - 1] + Len(q[k])
    BY <1>6, <1>8
  <1>10. \A k \in 0 .. n : t[k] \in Nat
    <2> DEFINE S == {k \in 0 .. n : t[k] \in Nat}
    <2>1. 0 \in S
      BY <1>8, <1>9
    <2>2. \A k \in 1 .. n : k - 1 \in S => k \in S
      <3> SUFFICES ASSUME NEW k \in 1 .. n, k - 1 \in S PROVE k \in S
        OBVIOUS
      <3>1. t[k - 1] \in Nat /\ Len(q[k]) \in Nat /\ k \in 0 .. n
        BY <1>1, <1>8
      <3>2. t[k] = t[k - 1] + Len(q[k])
        BY <1>9
      <3>3. t[k] \in Nat
        BY <3>1, <3>2
      <3> QED BY <3>1, <3>3
    <2> HIDE DEF S
    <2>3. 0 .. n \subseteq S
      BY <1>1, <2>1, <2>2, StepByStep
    <2> QED BY <2>3 DEF S
  <1>11. t \in [0 .. n -> Nat]
    BY <1>6, <1>10
  <1> QED BY <1>7, <1>9, <1>11 DEF Sums, n

(* There is one such sum.                                                   *)
LEMMA TotalIs ==
  ASSUME NEW q \in Seq(Frame), NEW s, Sums(q, s)
  PROVE  Total(q) = s[Len(q)] /\ Total(q) \in Nat
  <1>1. PICK t : Sums(q, t) /\ Total(q) = t[Len(q)]
    BY TotalSums
  <1> DEFINE S == {k \in 0 .. Len(q) : s[k] = t[k]}
  <1>2. Len(q) \in Nat
    OBVIOUS
  <1>3. 0 \in S
    BY <1>1, <1>2 DEF Sums
  <1>4. \A k \in 1 .. Len(q) : k - 1 \in S => k \in S
    BY <1>1, <1>2 DEF Sums
  <1> HIDE DEF S
  <1>5. 0 .. Len(q) \subseteq S
    BY <1>2, <1>3, <1>4, StepByStep
  <1>6. Len(q) \in 0 .. Len(q)
    BY <1>2
  <1>7. Len(q) \in S
    BY <1>5, <1>6
  <1>8. s[Len(q)] = t[Len(q)] /\ t[Len(q)] \in Nat
    BY <1>1, <1>6, <1>7 DEF S, Sums
  <1> QED BY <1>1, <1>8

LEMMA TotalNone == Total(<<>>) = 0
  <1> DEFINE s == [k \in 0 .. 0 |-> 0]
  <1>1. <<>> \in Seq(Frame) /\ Len(<<>>) = 0
    OBVIOUS
  <1>2. Sums(<<>>, s)
    BY <1>1 DEF Sums
  <1>3. s[0] = 0
    OBVIOUS
  <1> HIDE DEF s
  <1> QED BY <1>1, <1>2, <1>3, TotalIs

LEMMA TotalConcat ==
  ASSUME NEW p \in Seq(Frame), NEW q \in Seq(Frame)
  PROVE  Total(p \o q) = Total(p) + Total(q) /\ p \o q \in Seq(Frame) /\ Total(p) \in Nat /\ Total(q) \in Nat
  <1> DEFINE m == Len(p)  n == Len(q)  r == p \o q
  <1>1. PICK s : Sums(p, s) /\ Total(p) = s[m]
    BY TotalSums
  <1>2. PICK t : Sums(q, t) /\ Total(q) = t[n]
    BY TotalSums
  <1>3. m \in Nat /\ n \in Nat
    OBVIOUS
  <1>4. /\ r \in Seq(Frame) /\ Len(r) = m + n
        /\ \A i \in 1 .. m : r[i] = p[i]
        /\ \A i \in 1 .. n : r[m + i] = q[i]
    BY ConcatOf
  <1>5. /\ s \in [0 .. m -> Nat] /\ s[0] = 0 /\ \A k \in 1 .. m : s[k] = s[k - 1] + Len(p[k])
        /\ t \in [0 .. n -> Nat] /\ t[0] = 0 /\ \A k \in 1 .. n : t[k] = t[k - 1] + Len(q[k])
    BY <1>1, <1>2 DEF Sums
  <1> DEFINE u == [k \in 0 .. m + n |-> IF k <= m THEN s[k] ELSE s[m] + t[k - m]]
  <1> HIDE DEF m, n, r
  <1>6. u \in [0 .. m + n -> Nat]
    <2> SUFFICES ASSUME NEW k \in 0 .. m + n
                 PROVE  (IF k <= m THEN s[k] ELSE s[m] + t[k - m]) \in Nat
      OBVIOUS
    <2>1. k <= m => k \in 0 .. m
      BY <1>3
    <2>2. ~(k <= m) => m \in 0 .. m /\ k - m \in 0 .. n
      BY <1>3
    <2> QED BY <1>5, <2>1, <2>2
  <1>7. u[0] = 0 /\ u[m + n] = s[m] + t[n]
    <2>1. 0 \in 0 .. m + n /\ m + n \in 0 .. m + n /\ 0 <= m /\ s[m] \in Nat /\ m \in 0 .. m
      BY <1>3, <1>5
    <2>2. u[0] = s[0]
      BY <2>1
    <2>3. CASE n = 0
      <3>1. m + n = m /\ m <= m
        BY <1>3, <2>3
      <3>2. u[m + n] = s[m]
        BY <2>1, <3>1
      <3> QED BY <1>5, <2>1, <2>2, <2>3, <3>2
    <2>4. CASE n # 0
      <3>1. ~(m + n <= m) /\ (m + n) - m = n
        BY <1>3, <2>4
      <3> QED BY <1>5, <2>1, <2>2, <3>1
    <2> QED BY <2>3, <2>4
  <1>8. ASSUME NEW k \in 1 .. m + n PROVE u[k] = u[k - 1] + Len(r[k])
    <2>1. k \in 0 .. m + n /\ k - 1 \in 0 .. m + n
      BY <1>3
    <2>2. CASE k <= m
      <3>1. k \in 1 .. m /\ k - 1 <= m
        BY <1>3, <2>2
      <3> QED BY <1>4, <1>5, <2>1, <2>2, <3>1
    <2>3. CASE ~(k <= m)
      <3>1. PICK i \in 1 .. n : k = m + i
        <4>1. k - m \in 1 .. n /\ k = m + (k - m)
          BY <1>3, <2>3
        <4> QED BY <4>1
      <3>2. k - m = i /\ (k - 1) - m = i - 1 /\ i - 1 \in 0 .. n /\ i \in 0 .. n /\ m \in 0 .. m
        BY <1>3, <3>1
      <3>3. u[k] = s[m] + t[i]
        BY <2>1, <2>3, <3>2
      <3>4. r[k] = q[i] /\ t[i] = t[i - 1] + Len(q[i])
        BY <1>4, <1>5, <3>1
      <3>5. u[k - 1] = s[m] + t[i - 1]
        <4>1. CASE k - 1 <= m
          <5>1. k - 1 = m /\ i = 1
            BY <1>3, <2>3, <3>1, <4>1
          <5>2. u[k - 1] = s[m] /\ t[i - 1] = 0
            BY <1>5, <2>1, <4>1, <5>1
          <5>3. s[m] \in Nat
            BY <1>5, <3>2
          <5> QED BY <5>2, <5>3
        <4>2. CASE ~(k - 1 <= m)
          BY <2>1, <3>2, <4>2
        <4> QED BY <4>1, <4>2
      <3>6. s[m] \in Nat /\ t[i - 1] \in Nat /\ Len(q[i]) \in Nat
        <4>1. q[i] \in Frame
          BY DEF n
        <4> QED BY <1>5, <3>2, <4>1, FrameLength
      <3> QED BY <3>3, <3>4, <3>5, <3>6
    <2> QED BY <2>2, <2>3
  <1> HIDE DEF u
  <1>9. Sums(r, u)
    BY <1>4, <1>6, <1>7, <1>8 DEF Sums
  <1>10. Total(r) = u[m + n]
    BY <1>4, <1>9, TotalIs
  <1>11. s[m] \in Nat /\ t[n] \in Nat
    <2>1. m \in 0 .. m /\ n \in 0 .. n
      BY <1>3
    <2> QED BY <1>5, <2>1
  <1> QED BY <1>1, <1>2, <1>4, <1>7, <1>10, <1>11 DEF m, n, r

LEMMA TotalOne == ASSUME NEW f \in Frame PROVE <<f>> \in Seq(Frame) /\ Total(<<f>>) = Len(f)
  <1> DEFINE s == [k \in 0 .. 1 |-> IF k = 0 THEN 0 ELSE Len(f)]
  <1>1. <<f>> \in Seq(Frame) /\ Len(<<f>>) = 1 /\ <<f>>[1] = f /\ Len(f) \in Nat
    BY FrameLength
  <1>2. s \in [0 .. 1 -> Nat] /\ s[0] = 0 /\ s[1] = Len(f)
    BY <1>1
  <1> HIDE DEF s
  <1>3. Sums(<<f>>, s)
    <2>1. \A k \in 1 .. 1 : k = 1 /\ k - 1 = 0
      OBVIOUS
    <2> QED BY <1>1, <1>2, <2>1 DEF Sums
  <1> QED BY <1>1, <1>2, <1>3, TotalIs

(* The sequence that FlattenSeq puts together.                              *)
Joins(qs, f, T) ==
  /\ f \in [0 .. Len(qs) -> Seq(T)] /\ f[0] = <<>>
  /\ \A k \in 1 .. Len(qs) : f[k] = f[k - 1] \o qs[k]

LEMMA NothingBefore == ASSUME NEW T, NEW q \in Seq(T) PROVE <<>> \o q = q /\ q \o <<>> = q /\ <<>> \in Seq(T)
  BY ConcatEmptySeq

LEMMA FlattenJoins ==
  ASSUME NEW T, NEW qs \in Seq(Seq(T))
  PROVE  \E f : Joins(qs, f, T) /\ FlattenSeq(qs) = f[Len(qs)]
  <1> DEFINE n == Len(qs)  X == Seq(T)
             F == [p \in (1 .. n) \X X |-> p[2] \o qs[p[1]]]
             Def(s) == s = [i \in 1 .. n |-> IF i = 1 THEN qs[i] ELSE s[i - 1] \o qs[i]]
             t == CHOOSE s : Def(s)
  <1>1. n \in Nat /\ \A k \in 1 .. n : qs[k] \in X
    OBVIOUS
  <1>2. \A x, y \in X : x \o y \in X
    BY ConcatOf
  <1>3. \A x \in X : <<>> \o x = x /\ <<>> \in X
    BY NothingBefore
  <1>4. <<>> \in X
    OBVIOUS
  <1> HIDE DEF X
  <1>5. F \in [(1 .. n) \X X -> X] /\ \A k \in 1 .. n, x \in X : F[<<k, x>>] = x \o qs[k]
    <2>1. \A k \in 1 .. n, x \in X : x \o qs[k] \in X
      BY <1>1, <1>2
    <2> HIDE DEF n
    <2> QED BY <2>1
  <1> HIDE DEF n, F
  <1>6. PICK f \in [0 .. n -> X] : f[0] = <<>> /\ \A k \in 1 .. n : f[k] = F[<<k, f[k - 1]>>]
    <2>1. Runs(n, X, <<>>, F)
      BY <1>1, <1>4, <1>5, RunningFunction, Zenon
    <2> QED BY <2>1 DEF Runs
  <1>7. \A k \in 1 .. n : k \in 0 .. n /\ k - 1 \in 0 .. n /\ (k # 1 => k - 1 \in 1 .. n) /\ (k = 1 => k - 1 = 0)
    BY <1>1
  <1>8. \A k \in 1 .. n : f[k] = f[k - 1] \o qs[k] /\ f[k] \in X
    BY <1>5, <1>6, <1>7
  <1> DEFINE g == [i \in 1 .. n |-> f[i]]
  <1>9. Def(g)
    <2>1. \A i \in 1 .. n : f[i] = IF i = 1 THEN qs[i] ELSE g[i - 1] \o qs[i]
      <3> SUFFICES ASSUME NEW i \in 1 .. n
                   PROVE  f[i] = IF i = 1 THEN qs[i] ELSE g[i - 1] \o qs[i]
        OBVIOUS
      <3>1. CASE i = 1
        BY <1>1, <1>3, <1>6, <1>7, <1>8, <3>1
      <3>2. CASE i # 1
        BY <1>7, <1>8, <3>2
      <3> QED BY <3>1, <3>2
    <2> QED BY <2>1
  <1>10. Def(t)
    BY <1>9, Zenon
  <1>11. n # 0 => FlattenSeq(qs) = t[n]
    BY DEF FlattenSeq, n
  <1> HIDE DEF t, g
  <1>12. \A k \in 1 .. n : t[k] = f[k]
    <2> DEFINE S == {k \in 0 .. n : k \in 1 .. n => t[k] = f[k]}
    <2>1. 0 \in S
      BY <1>1
    <2>2. ASSUME NEW k \in 1 .. n, k - 1 \in S PROVE k \in S
      <3>1. t[k] = IF k = 1 THEN qs[k] ELSE t[k - 1] \o qs[k]
        BY <1>10
      <3>2. CASE k = 1
        <4>1. f[k] = qs[k]
          BY <1>1, <1>3, <1>6, <1>7, <1>8, <3>2
        <4> QED BY <1>7, <3>1, <3>2, <4>1
      <3>3. CASE k # 1
        <4>1. t[k - 1] = f[k - 1]
          BY <1>7, <2>2, <3>3
        <4> QED BY <1>7, <1>8, <3>1, <3>3, <4>1
      <3> QED BY <3>2, <3>3
    <2> HIDE DEF S
    <2>3. 0 .. n \subseteq S
      BY <1>1, <2>1, <2>2, StepByStep
    <2> QED BY <1>7, <2>3 DEF S
  <1>13. FlattenSeq(qs) = f[n]
    <2>1. CASE n = 0
      BY <1>6, <2>1 DEF FlattenSeq, n
    <2>2. CASE n # 0
      <3>1. n \in 1 .. n
        BY <1>1, <2>2
      <3> QED BY <1>11, <1>12, <2>2, <3>1
    <2> QED BY <2>1, <2>2
  <1> QED BY <1>6, <1>8, <1>13 DEF Joins, n, X

LEMMA FlattenIs ==
  ASSUME NEW T, NEW qs \in Seq(Seq(T)), NEW f, Joins(qs, f, T)
  PROVE  FlattenSeq(qs) = f[Len(qs)] /\ FlattenSeq(qs) \in Seq(T)
  <1>1. PICK t : Joins(qs, t, T) /\ FlattenSeq(qs) = t[Len(qs)]
    BY FlattenJoins
  <1> DEFINE n == Len(qs)  S == {k \in 0 .. n : f[k] = t[k]}
  <1>2. n \in Nat /\ n \in 0 .. n
    OBVIOUS
  <1>3. /\ f[0] = <<>> /\ \A k \in 1 .. n : f[k] = f[k - 1] \o qs[k]
        /\ t[0] = <<>> /\ \A k \in 1 .. n : t[k] = t[k - 1] \o qs[k]
        /\ f \in [0 .. n -> Seq(T)]
    BY <1>1 DEF Joins
  <1> HIDE DEF n
  <1>4. 0 \in S
    BY <1>2, <1>3
  <1>5. ASSUME NEW k \in 1 .. n, k - 1 \in S PROVE k \in S
    <2>1. k \in 0 .. n
      BY <1>2
    <2> QED BY <1>3, <1>5, <2>1
  <1> HIDE DEF S
  <1>6. 0 .. n \subseteq S
    BY <1>2, <1>4, <1>5, StepByStep
  <1>7. f[n] = t[n] /\ f[n] \in Seq(T)
    BY <1>2, <1>3, <1>6 DEF S
  <1> QED BY <1>1, <1>7 DEF n

LEMMA FlattenNone == FlattenSeq(<<>>) = <<>>
  BY DEF FlattenSeq

LEMMA Associative ==
  ASSUME NEW T, NEW p \in Seq(T), NEW q \in Seq(T), NEW r \in Seq(T)
  PROVE  (p \o q) \o r = p \o (q \o r)
  BY ConcatAssociative, SMTT(30)

LEMMA OneInFront ==
  ASSUME NEW X, NEW qs \in Seq(X), NEW x \in X
  PROVE  /\ <<x>> \o qs \in Seq(X) /\ Len(<<x>> \o qs) = Len(qs) + 1 /\ Len(qs) \in Nat
         /\ (<<x>> \o qs)[1] = x
         /\ \A k \in 1 .. Len(qs) : (<<x>> \o qs)[k + 1] = qs[k]
         /\ \A k \in 2 .. Len(qs) + 1 : k - 1 \in 1 .. Len(qs) /\ (<<x>> \o qs)[k] = qs[k - 1]
  <1> DEFINE r == <<x>> \o qs  n == Len(qs)
  <1>1. <<x>> \in Seq(X) /\ Len(<<x>>) = 1 /\ <<x>>[1] = x /\ n \in Nat
    OBVIOUS
  <1>2. /\ r \in Seq(X) /\ Len(r) = 1 + n
        /\ \A i \in 1 .. 1 : r[i] = <<x>>[i]
        /\ \A i \in 1 .. n : r[1 + i] = qs[i]
    <2> HIDE DEF r, n
    <2>1. PICK p \in Seq(X) : p = <<x>> /\ Len(p) = 1
      BY <1>1
    <2>2. /\ p \o qs \in Seq(X) /\ Len(p \o qs) = Len(p) + Len(qs)
          /\ \A i \in 1 .. Len(p) : (p \o qs)[i] = p[i]
          /\ \A i \in 1 .. Len(qs) : (p \o qs)[Len(p) + i] = qs[i]
      BY ConcatOf
    <2> QED BY <2>1, <2>2 DEF r, n
  <1> HIDE DEF r, n
  <1>3. r[1] = x
    BY <1>1, <1>2
  <1>4. \A k \in 1 .. n : r[k + 1] = qs[k]
    BY <1>1, <1>2
  <1>5. \A k \in 2 .. n + 1 : k - 1 \in 1 .. n /\ r[k] = qs[k - 1]
    BY <1>1, <1>4
  <1> QED BY <1>1, <1>2, <1>3, <1>4, <1>5 DEF r, n

LEMMA FlattenFront ==
  ASSUME NEW T, NEW qs \in Seq(Seq(T)), NEW x \in Seq(T)
  PROVE  FlattenSeq(<<x>> \o qs) = x \o FlattenSeq(qs)
  <1> DEFINE r == <<x>> \o qs  n == Len(qs)  X == Seq(T)
  <1>1. PICK f : Joins(qs, f, T) /\ FlattenSeq(qs) = f[n]
    BY FlattenJoins
  <1>2. /\ f \in [0 .. n -> X] /\ f[0] = <<>>
        /\ \A k \in 1 .. n : f[k] = f[k - 1] \o qs[k]
    BY <1>1 DEF Joins
  <1>3. /\ r \in Seq(X) /\ Len(r) = n + 1 /\ n \in Nat /\ r[1] = x
        /\ \A k \in 2 .. n + 1 : k - 1 \in 1 .. n /\ r[k] = qs[k - 1]
    BY OneInFront
  <1>4. <<>> \in X /\ x \in X /\ <<>> \o x = x /\ x \o <<>> = x
    BY NothingBefore
  <1>5. \A y, z \in X : y \o z \in X
    BY ConcatOf
  <1>6. \A y, z \in X : (x \o y) \o z = x \o (y \o z)
    BY Associative
  <1>7. \A k \in 1 .. n : qs[k] \in X
    OBVIOUS
  <1> DEFINE u == [k \in 0 .. n + 1 |-> IF k = 0 THEN <<>> ELSE x \o f[k - 1]]
  <1> HIDE DEF r, n, X
  <1>8. u[0] = <<>> /\ \A k \in 1 .. n + 1 : u[k] = x \o f[k - 1] /\ k - 1 \in 0 .. n
    BY <1>3, SMTT(30)
  <1>9. u \in [0 .. n + 1 -> X]
    <2>1. \A k \in 0 .. n + 1 : k # 0 => k - 1 \in 0 .. n
      BY <1>3
    <2> QED BY <1>2, <1>4, <1>5, <2>1
  <1> HIDE DEF u
  <1>10. ASSUME NEW k \in 1 .. n + 1 PROVE u[k] = u[k - 1] \o r[k]
    <2>1. CASE k = 1
      <3>1. k - 1 = 0 /\ u[k] = x \o f[0]
        BY <1>8, <2>1
      <3>2. u[k] = x
        BY <1>2, <1>4, <3>1
      <3>3. u[k - 1] \o r[k] = x
        BY <1>3, <1>4, <1>8, <2>1, <3>1
      <3> QED BY <3>2, <3>3
    <2>2. CASE k # 1
      <3>1. k \in 2 .. n + 1 /\ k - 1 \in 1 .. n + 1 /\ k - 1 \in 1 .. n
        BY <1>3, <2>2
      <3>2. PICK i \in 1 .. n : i = k - 1
        BY <3>1
      <3>3. r[k] = qs[i] /\ u[k] = x \o f[i] /\ u[k - 1] = x \o f[i - 1] /\ i - 1 \in 0 .. n
        BY <1>3, <1>8, <3>1, <3>2
      <3>4. f[i] = f[i - 1] \o qs[i] /\ f[i - 1] \in X /\ qs[i] \in X
        BY <1>2, <1>7, <3>3
      <3>5. (x \o f[i - 1]) \o qs[i] = x \o (f[i - 1] \o qs[i])
        BY <1>6, <3>4
      <3> QED BY <3>3, <3>4, <3>5
    <2> QED BY <2>1, <2>2
  <1>11. Joins(r, u, T)
    BY <1>3, <1>8, <1>9, <1>10 DEF Joins, X
  <1>12. FlattenSeq(r) = u[n + 1]
    BY <1>3, <1>11, FlattenIs DEF X
  <1>13. n + 1 \in 1 .. n + 1 /\ (n + 1) - 1 = n
    BY <1>3
  <1> QED BY <1>1, <1>8, <1>12, <1>13 DEF r

LEMMA Sizes ==
  /\ Base \in Nat /\ Base > 1 /\ Word \in Nat /\ Word > 0 /\ Long \in Nat
  /\ Long \div 2 \in Nat /\ Base <= Long \div 2 /\ Word = Base * Base /\ Long = Word * Word
  <1>1. Base \in Nat /\ Base > 1 /\ Word = Base * Base /\ Long = Word * Word
    BY BaseAssumption DEF Word, Long
  <1>2. \A x \in Nat : x > 1 => x * x \in Nat /\ x * x >= 2 * x
    OBVIOUS
  <1>3. Word \in Nat /\ Word >= 2 * Base
    BY <1>1, <1>2
  <1>4. Word > 1
    BY <1>1, <1>3
  <1>5. Long \in Nat /\ Long >= 2 * Word
    BY <1>1, <1>2, <1>3, <1>4
  <1>6. Long >= 2 * Base
    BY <1>1, <1>3, <1>5
  <1>7. \A x, y \in Nat : x >= 2 * y => x \div 2 \in Nat /\ y <= x \div 2
    OBVIOUS
  <1>8. Long \div 2 \in Nat /\ Base <= Long \div 2
    BY <1>1, <1>5, <1>6, <1>7
  <1> QED BY <1>1, <1>3, <1>4, <1>5, <1>8

(* Two digits below b make a number below b squared.                        *)
LEMMA TwoDigits ==
  ASSUME NEW b \in Nat, NEW x \in 0 .. b - 1, NEW y \in 0 .. b - 1
  PROVE  x * b + y \in 0 .. (b * b) - 1
  <1>1. x * b <= (b - 1) * b /\ x * b \in Nat
    OBVIOUS
  <1>2. (b - 1) * b = b * b - b
    OBVIOUS
  <1>3. b * b \in Nat
    OBVIOUS
  <1> QED BY <1>1, <1>2, <1>3

LEMMA NumberOf ==
  ASSUME NEW b \in Seq(Byte), Len(b) >= 4
  PROVE  Get4(b) \in 0 .. Long - 1
  <1>1. b[1] \in 0 .. Base - 1 /\ b[2] \in 0 .. Base - 1 /\ b[3] \in 0 .. Base - 1 /\ b[4] \in 0 .. Base - 1
    <2>1. 1 \in 1 .. Len(b) /\ 2 \in 1 .. Len(b) /\ 3 \in 1 .. Len(b) /\ 4 \in 1 .. Len(b)
      OBVIOUS
    <2>2. \A i \in 1 .. Len(b) : b[i] \in Byte
      OBVIOUS
    <2> QED BY <2>1, <2>2 DEF Byte
  <1>2. b[1] * Base + b[2] \in 0 .. Word - 1
    BY <1>1, Sizes, TwoDigits
  <1>3. b[3] * Base + b[4] \in 0 .. Word - 1
    BY <1>1, Sizes, TwoDigits
  <1>4. \A x, y \in 0 .. Word - 1 : x * Word + y \in 0 .. Long - 1
    BY Sizes, TwoDigits
  <1>5. (b[1] * Base + b[2]) * Word + (b[3] * Base + b[4]) \in 0 .. Long - 1
    BY <1>2, <1>3, <1>4
  <1>6. (b[1] * Base + b[2]) * Word \in Int /\ b[3] * Base \in Int /\ b[4] \in Int
    BY <1>1, <1>2, Sizes
  <1>7. Get4(b) = (b[1] * Base + b[2]) * Word + (b[3] * Base + b[4])
    <2>1. \A x, y, z \in Int : x + y + z = x + (y + z)
      OBVIOUS
    <2> QED BY <1>6, <2>1 DEF Get4, Get2
  <1> QED BY <1>5, <1>7

LEMMA SignedOf ==
  ASSUME NEW n \in 0 .. Long - 1
  PROVE  Signed(n) \in Int /\ Signed(n) < Long \div 2
  <1>1. \A h, l, m \in Nat : m < l => m - l \in Int /\ m - l < 0
    OBVIOUS
  <1>2. n - Long \in Int /\ n - Long < 0 /\ n \in Int
    BY Sizes
  <1>3. Long \div 2 \in Nat
    BY Sizes
  <1>4. n - Long < Long \div 2
    BY <1>2, <1>3
  <1> QED BY <1>2, <1>4 DEF Signed

(* What ReadHeader says of any buffer.                                      *)
LEMMA HeaderOf ==
  ASSUME NEW b \in Seq(Byte), b # <<>>
  PROVE  /\ ReadHeader(b).verdict \in {"ok", "malformed", "undefined"}
         /\ ReadHeader(b).verdict = "ok" =>
              /\ ReadHeader(b).head \in {1, 5}
              /\ ReadHeader(b).size \in 0 .. (Long \div 2) - 1
              /\ ReadHeader(b).head + ReadHeader(b).size <= Len(b)
  <1>1. Len(b) \in Nat /\ Len(b) > 0
    OBVIOUS
  <1>2. b[1] \in 0 .. Base - 1
    <2>1. 1 \in 1 .. Len(b) /\ \A i \in 1 .. Len(b) : b[i] \in Byte
      BY <1>1
    <2> QED BY <2>1 DEF Byte
  <1>3. CASE b[1] # Marker
    <2> DEFINE h == ReadHeader(b)
    <2>1. h.head = 1 /\ h.size = b[1] /\ (h.verdict = IF 1 + b[1] <= Len(b) THEN "ok" ELSE "malformed")
      BY <1>1, <1>2, <1>3, Sizes DEF ReadHeader, Holds
    <2>2. b[1] \in 0 .. (Long \div 2) - 1
      BY <1>2, Sizes
    <2> HIDE DEF h
    <2>3. /\ h.verdict \in {"ok", "malformed", "undefined"}
          /\ h.verdict = "ok" => h.head \in {1, 5} /\ h.size \in 0 .. (Long \div 2) - 1 /\ h.head + h.size <= Len(b)
      BY <2>1, <2>2
    <2> QED BY <2>3 DEF h
  <1>4. CASE b[1] = Marker /\ ~(5 <= Len(b))
    <2>1. ReadHeader(b).verdict = "malformed"
      BY <1>4 DEF ReadHeader, Holds
    <2> QED BY <2>1
  <1>5. CASE b[1] = Marker /\ 5 <= Len(b)
    <2> DEFINE h == ReadHeader(b)
               s == Signed(Get4(Tail(b)))
    <2>1. Tail(b) \in Seq(Byte) /\ Len(Tail(b)) >= 4
      BY <1>1, <1>5
    <2>2. s \in Int /\ s < Long \div 2
      BY <2>1, NumberOf, SignedOf
    <2>3. h.head = 5 /\ h.size = s /\
          h.verdict = IF s < 0 THEN "undefined" ELSE IF 5 + s <= Len(b) THEN "ok" ELSE "malformed"
      <3> HIDE DEF s
      <3>1. /\ h.head = 5 /\ h.size = s
            /\ h.verdict = CASE s < 0 -> "undefined" [] s >= 0 /\ ~(5 + s <= Len(b)) -> "malformed"
                             [] OTHER -> "ok"
        BY <1>5 DEF ReadHeader, Holds, s
      <3> QED BY <2>2, <3>1
    <2> HIDE DEF h, s
    <2>4. h.verdict \in {"ok", "malformed", "undefined"}
      BY <2>3
    <2>5. ASSUME h.verdict = "ok"
          PROVE  h.head \in {1, 5} /\ h.size \in 0 .. (Long \div 2) - 1 /\ h.head + h.size <= Len(b)
      <3>1. s >= 0 /\ 5 + s <= Len(b)
        BY <2>2, <2>3, <2>5
      <3>2. Long \div 2 \in Nat
        BY Sizes
      <3> QED BY <2>2, <2>3, <3>1, <3>2
    <2> QED BY <2>4, <2>5 DEF h
  <1> QED BY <1>3, <1>4, <1>5

(* The bytes of a buffer from one place on.                                 *)
LEMMA PartOf ==
  ASSUME NEW T, NEW b \in Seq(T), NEW i \in 1 .. Len(b) + 1, NEW j \in 0 .. Len(b), i <= j + 1
  PROVE  /\ SubSeq(b, i, j) \in Seq(T) /\ Len(SubSeq(b, i, j)) = (j - i) + 1
         /\ \A k \in 1 .. (j - i) + 1 : SubSeq(b, i, j)[k] = b[(i + k) - 1]
  <1>1. \A k \in i .. j : b[k] \in T
    OBVIOUS
  <1> QED BY <1>1, SubSeqProperties

-----------------------------------------------------------------------------
(* What decode() finds in a buffer, as a function of the place it has read   *)
(* up to.                                                                    *)

Decoded == [verdict : {"ok", "malformed", "undefined"}, frames : Seq(Small)]

NothingFound(v) == [verdict |-> v, frames |-> <<>>]

Before(r, x) == IF r.verdict # "ok" THEN r ELSE [r EXCEPT !.frames = <<x>> \o @]

FirstFrame(t) == SubSeq(t, ReadHeader(t).head + 1, ReadHeader(t).head + ReadHeader(t).size)

FrameEnd(t) == ReadHeader(t).head + ReadHeader(t).size

DecodeStep(b, p, f) ==
  IF p = Len(b) THEN NothingFound("ok")
  ELSE IF ReadHeader(Rest(b, p)).verdict # "ok" THEN NothingFound(ReadHeader(Rest(b, p)).verdict)
  ELSE Before(f[p + FrameEnd(Rest(b, p))], FirstFrame(Rest(b, p)))

Decodes(b, f) ==
  /\ f \in [0 .. Len(b) -> Decoded]
  /\ \A p \in 0 .. Len(b) : f[p] = DecodeStep(b, p, f)

LEMMA RestOf ==
  ASSUME NEW b \in Seq(Byte), NEW p \in 0 .. Len(b)
  PROVE  /\ Rest(b, p) \in Seq(Byte) /\ Len(Rest(b, p)) = Len(b) - p
         /\ \A k \in 1 .. Len(b) - p : Rest(b, p)[k] = b[p + k]
         /\ p < Len(b) => Rest(b, p) # <<>>
  <1> DEFINE n == Len(b)  r == SubSeq(b, p + 1, n)
  <1>1. n \in Nat /\ p + 1 \in 1 .. n + 1 /\ n \in 0 .. n /\ p + 1 <= n + 1 /\ p \in 0 .. n
    OBVIOUS
  <1>2. r \in Seq(Byte) /\ Len(r) = (n - (p + 1)) + 1 /\ \A k \in 1 .. (n - (p + 1)) + 1 : r[k] = b[((p + 1) + k) - 1]
    BY <1>1, PartOf
  <1> HIDE DEF n, r
  <1>3. (n - (p + 1)) + 1 = n - p /\ \A k \in 1 .. n - p : ((p + 1) + k) - 1 = p + k
    BY <1>1
  <1>4. Len(r) = n - p /\ \A k \in 1 .. n - p : r[k] = b[p + k]
    BY <1>2, <1>3
  <1>5. p < n => Len(r) # 0
    BY <1>1, <1>4
  <1>6. p < n => r # <<>>
    BY <1>5
  <1> QED BY <1>2, <1>4, <1>6 DEF Rest, r, n

(* The frame at the head of a buffer that has one.                          *)
LEMMA FirstFrameOf ==
  ASSUME NEW t \in Seq(Byte), t # <<>>, ReadHeader(t).verdict = "ok"
  PROVE  /\ FirstFrame(t) \in Small /\ FirstFrame(t) \in Seq(Byte) /\ <<FirstFrame(t)>> \in Seq(Small)
         /\ FrameEnd(t) \in 1 .. Len(t)
  <1> DEFINE h == ReadHeader(t).head  s == ReadHeader(t).size  n == Len(t)
  <1>1. h \in {1, 5} /\ s \in 0 .. (Long \div 2) - 1 /\ h + s <= n /\ n \in Nat
    BY HeaderOf
  <1> HIDE DEF h, s
  <1>2. h + 1 \in 1 .. n + 1 /\ h + s \in 0 .. n /\ h + 1 <= (h + s) + 1 /\ h + s \in 1 .. n /\ ((h + s) - (h + 1)) + 1 = s
    BY <1>1, Sizes
  <1>3. SubSeq(t, h + 1, h + s) \in Seq(Byte) /\ Len(SubSeq(t, h + 1, h + s)) = s
    BY <1>2, PartOf
  <1>4. s < Long \div 2
    BY <1>1, Sizes
  <1>5. SubSeq(t, h + 1, h + s) \in Small
    BY <1>3, <1>4 DEF Small, Frame
  <1>6. \A x \in Small : <<x>> \in Seq(Small)
    OBVIOUS
  <1> QED BY <1>2, <1>3, <1>5, <1>6 DEF FirstFrame, FrameEnd, h, s

LEMMA BeforeOf ==
  ASSUME NEW r \in Decoded, NEW x \in Small
  PROVE  /\ Before(r, x) \in Decoded /\ Before(r, x).verdict = r.verdict
         /\ r.verdict # "ok" => Before(r, x) = r
         /\ r.verdict = "ok" => Before(r, x).frames = <<x>> \o r.frames
  <1> DEFINE y == <<x>> \o r.frames
  <1>1. r.frames \in Seq(Small) /\ r.verdict \in {"ok", "malformed", "undefined"}
    BY DEF Decoded
  <1>2. <<x>> \in Seq(Small)
    OBVIOUS
  <1>3. y \in Seq(Small)
    BY <1>1, <1>2, ConcatOf
  <1>4. Before(r, x) = IF r.verdict # "ok" THEN r ELSE [r EXCEPT !.frames = y]
    BY DEF Before
  <1> HIDE DEF y
  <1>5. [r EXCEPT !.frames = y] \in Decoded /\ [r EXCEPT !.frames = y].verdict = r.verdict /\ [r EXCEPT !.frames = y].frames = y
    BY <1>1, <1>3 DEF Decoded
  <1> QED BY <1>4, <1>5 DEF y

LEMMA NothingFoundOf ==
  ASSUME NEW v \in {"ok", "malformed", "undefined"}
  PROVE  NothingFound(v) \in Decoded /\ NothingFound(v).verdict = v /\ NothingFound(v).frames = <<>>
  <1>1. <<>> \in Seq(Small)
    OBVIOUS
  <1> QED BY <1>1 DEF NothingFound, Decoded

LEMMA DecodeStepOf ==
  ASSUME NEW b \in Seq(Byte), NEW p \in 0 .. Len(b), NEW f \in [0 .. Len(b) -> Decoded]
  PROVE  /\ DecodeStep(b, p, f) \in Decoded
         /\ \A g \in [0 .. Len(b) -> Decoded] :
              (\A q \in 0 .. Len(b) : q > p => f[q] = g[q]) => DecodeStep(b, p, f) = DecodeStep(b, p, g)
         /\ p # Len(b) /\ ReadHeader(Rest(b, p)).verdict = "ok" =>
              /\ p + FrameEnd(Rest(b, p)) \in 0 .. Len(b) /\ p + FrameEnd(Rest(b, p)) > p
              /\ FirstFrame(Rest(b, p)) \in Small
  <1> DEFINE n == Len(b)  t == Rest(b, p)  e == FrameEnd(t)  x == FirstFrame(t)  v == ReadHeader(t).verdict
  <1>1. n \in Nat /\ p \in 0 .. n
    OBVIOUS
  <1>2. t \in Seq(Byte) /\ Len(t) = n - p /\ (p < n => t # <<>>)
    BY RestOf
  <1>3. v = "ok" /\ t # <<>> => x \in Small /\ e \in 1 .. Len(t)
    BY <1>2, FirstFrameOf
  <1>4. t # <<>> => v \in {"ok", "malformed", "undefined"}
    BY <1>2, HeaderOf
  <1>5. /\ DecodeStep(b, p, f) = IF p = n THEN NothingFound("ok")
              ELSE IF v # "ok" THEN NothingFound(v) ELSE Before(f[p + e], x)
        /\ \A g : DecodeStep(b, p, g) = IF p = n THEN NothingFound("ok")
              ELSE IF v # "ok" THEN NothingFound(v) ELSE Before(g[p + e], x)
    BY DEF DecodeStep
  <1> HIDE DEF n, t, e, x, v
  <1>6. p # n => p < n
    BY <1>1
  <1>7. p # n /\ v = "ok" => p + e \in 0 .. n /\ p + e > p /\ x \in Small
    BY <1>1, <1>2, <1>3, <1>6
  <1>8. DecodeStep(b, p, f) \in Decoded
    <2>1. CASE p = n
      <3>1. NothingFound("ok") \in Decoded
        BY NothingFoundOf
      <3> QED BY <1>5, <2>1, <3>1
    <2>2. CASE p # n /\ v # "ok"
      <3>1. NothingFound(v) \in Decoded
        BY <1>2, <1>4, <1>6, <2>2, NothingFoundOf
      <3> QED BY <1>5, <2>2, <3>1
    <2>3. CASE p # n /\ v = "ok"
      <3>1. p + e \in 0 .. n /\ x \in Small
        BY <1>7, <2>3
      <3>2. f[p + e] \in Decoded
        BY <3>1 DEF n
      <3>3. Before(f[p + e], x) \in Decoded
        BY <3>1, <3>2, BeforeOf
      <3> QED BY <1>5, <2>3, <3>3
    <2> QED BY <2>1, <2>2, <2>3
  <1>9. ASSUME NEW g \in [0 .. n -> Decoded], \A q \in 0 .. n : q > p => f[q] = g[q]
        PROVE  DecodeStep(b, p, f) = DecodeStep(b, p, g)
    <2>1. p # n /\ v = "ok" => f[p + e] = g[p + e]
      BY <1>7, <1>9
    <2>2. CASE p # n /\ v = "ok"
      <3>1. DecodeStep(b, p, f) = Before(f[p + e], x) /\ DecodeStep(b, p, g) = Before(g[p + e], x)
        BY <1>5, <2>2
      <3> QED BY <2>1, <2>2, <3>1
    <2>3. CASE ~(p # n /\ v = "ok")
      BY <1>5, <2>3
    <2> QED BY <2>2, <2>3
  <1> QED BY <1>7, <1>8, <1>9 DEF n, t, e, x, v

LEMMA DecodeHasSteps == ASSUME NEW b \in Seq(Byte) PROVE \E f : Decodes(b, f)
  <1> DEFINE n == Len(b)
             D == 0 .. n
             rank == [p \in D |-> n - p]
             G == [q \in D \X [D -> Decoded] |-> DecodeStep(b, q[1], q[2])]
  <1>1. n \in Nat
    OBVIOUS
  <1>2. rank \in [D -> Nat] /\ \A p, q \in D : q > p => rank[q] < rank[p]
    BY <1>1
  <1>3. \A p \in D, f \in [D -> Decoded] : G[<<p, f>>] = DecodeStep(b, p, f)
    OBVIOUS
  <1>4. \A p \in D, f \in [D -> Decoded] : DecodeStep(b, p, f) \in Decoded
    BY DecodeStepOf
  <1>5. G \in [D \X [D -> Decoded] -> Decoded]
    BY <1>4
  <1>6. \A p \in D, f, g \in [D -> Decoded] :
          (\A q \in D : q > p => f[q] = g[q]) => DecodeStep(b, p, f) = DecodeStep(b, p, g)
    BY DecodeStepOf
  <1> HIDE DEF n, D, rank, G
  <1>7. LooksBelow(D, rank, Decoded, G)
    <2> SUFFICES ASSUME NEW p \in D, NEW f \in [D -> Decoded], NEW g \in [D -> Decoded],
                        \A q \in D : rank[q] < rank[p] => f[q] = g[q]
                 PROVE  G[<<p, f>>] = G[<<p, g>>]
      BY DEF LooksBelow
    <2>1. \A q \in D : q > p => f[q] = g[q]
      BY <1>2
    <2> QED BY <1>3, <1>6, <2>1
  <1>8. NothingFound("ok") \in Decoded
    BY NothingFoundOf
  <1>9. HasSolution(D, Decoded, G)
    BY <1>2, <1>5, <1>7, <1>8, RankedRecursion
  <1>10. PICK f \in [D -> Decoded] : \A p \in D : f[p] = G[<<p, f>>]
    BY <1>9 DEF HasSolution
  <1>11. \A p \in D : f[p] = DecodeStep(b, p, f)
    BY <1>3, <1>10
  <1> QED BY <1>10, <1>11 DEF Decodes, D, n

LEMMA DecodeOnce ==
  ASSUME NEW b \in Seq(Byte), NEW f, NEW g, Decodes(b, f),
         DOMAIN g = 0 .. Len(b), \A p \in 0 .. Len(b) : g[p] = DecodeStep(b, p, g)
  PROVE  \A p \in 0 .. Len(b) : f[p] = g[p]
  <1> DEFINE n == Len(b)
             D == 0 .. n
             rank == [p \in D |-> n - p]
             S == {p \in D : f[p] = g[p]}
  <1>1. n \in Nat
    OBVIOUS
  <1>2. rank \in [D -> Nat] /\ \A p, q \in D : q > p => rank[q] < rank[p]
    BY <1>1
  <1>3. f \in [D -> Decoded] /\ \A p \in D : f[p] = DecodeStep(b, p, f)
    BY DEF Decodes
  <1>4. ASSUME NEW p \in D, \A q \in D : rank[q] < rank[p] => q \in S PROVE p \in S
    <2>1. \A q \in D : q > p => f[q] = g[q]
      BY <1>2, <1>4
    <2>2. p # n /\ ReadHeader(Rest(b, p)).verdict = "ok" =>
            p + FrameEnd(Rest(b, p)) \in D /\ p + FrameEnd(Rest(b, p)) > p
      BY <1>3, DecodeStepOf
    <2>3. DecodeStep(b, p, f) = DecodeStep(b, p, g)
      <3>1. CASE p # n /\ ReadHeader(Rest(b, p)).verdict = "ok"
        <4>1. f[p + FrameEnd(Rest(b, p))] = g[p + FrameEnd(Rest(b, p))]
          BY <2>1, <2>2, <3>1
        <4> QED BY <3>1, <4>1 DEF DecodeStep
      <3>2. CASE ~(p # n /\ ReadHeader(Rest(b, p)).verdict = "ok")
        BY <3>2 DEF DecodeStep
      <3> QED BY <3>1, <3>2
    <2> QED BY <1>3, <2>3
  <1> HIDE DEF D, rank, S
  <1>5. D \subseteq S
    BY <1>2, <1>4, RankedInduction
  <1> QED BY <1>5 DEF S, D

(* decode() is that function at the start of the buffer.                    *)
LEMMA DecodeIs ==
  ASSUME NEW b \in Seq(Byte), NEW f, Decodes(b, f)
  PROVE  Decode(b) = f[0] /\ Decode(b) \in Decoded
  <1> DEFINE Def(g) == g = [p \in 0 .. Len(b) |-> DecodeStep(b, p, g)]
             c == CHOOSE g : Def(g)
  <1>1. Decode(b) = c[0]
    BY DEF Decode, DecodeStep, NothingFound, Before, FirstFrame, FrameEnd
  <1>2. f \in [0 .. Len(b) -> Decoded] /\ \A p \in 0 .. Len(b) : f[p] = DecodeStep(b, p, f)
    BY DEF Decodes
  <1>3. Def(f)
    BY <1>2
  <1>4. Def(c)
    BY <1>3, Zenon
  <1> HIDE DEF c
  <1>5. DOMAIN c = 0 .. Len(b) /\ \A p \in 0 .. Len(b) : c[p] = DecodeStep(b, p, c)
    BY <1>4
  <1>6. \A p \in 0 .. Len(b) : f[p] = c[p]
    BY <1>5, DecodeOnce
  <1>7. 0 \in 0 .. Len(b)
    OBVIOUS
  <1> QED BY <1>1, <1>2, <1>6, <1>7

LEMMA DecodeType == ASSUME NEW b \in Seq(Byte) PROVE Decode(b) \in Decoded
  BY DecodeHasSteps, DecodeIs

-----------------------------------------------------------------------------
(* What encode() writes is a buffer of bytes.                               *)

LEMMA HeaderBytes ==
  ASSUME NEW n \in 0 .. (Long \div 2) - 1
  PROVE  Header(n) \in Seq(Byte) /\ Len(Header(n)) \in {1, 5}
  <1>1. n \in Nat /\ n \in 0 .. Long - 1 /\ Base \in Nat /\ Base > 1
    <2>1. Long \in Nat
      BY Sizes
    <2>2. \A m \in Nat : \A k \in 0 .. (m \div 2) - 1 : k \in 0 .. m - 1
      OBVIOUS
    <2> QED BY <2>1, <2>2, Sizes
  <1>2. CASE n < Marker
    <2>1. n \in Byte
      BY <1>1, <1>2 DEF Marker, Byte
    <2>2. Header(n) = <<n>>
      BY <1>2 DEF Header
    <2> HIDE DEF Byte
    <2> QED BY <2>1, <2>2
  <1>3. CASE ~(n < Marker)
    <2>1. PICK w, x, y, z \in Byte : Put4(n) = <<w, x, y, z>>
      BY <1>1, FourBytes
    <2>2. Marker \in Byte
      BY <1>1 DEF Marker, Byte
    <2> HIDE DEF Byte
    <2>3. /\ <<Marker>> \in Seq(Byte) /\ Len(<<Marker>>) = 1
          /\ <<w, x, y, z>> \in Seq(Byte) /\ Len(<<w, x, y, z>>) = 4
      BY <2>2
    <2>4. /\ <<Marker>> \o <<w, x, y, z>> \in Seq(Byte)
          /\ Len(<<Marker>> \o <<w, x, y, z>>) = Len(<<Marker>>) + Len(<<w, x, y, z>>)
      BY <2>3, ConcatOf
    <2>5. Header(n) = <<Marker>> \o <<w, x, y, z>>
      BY <1>3, <2>1 DEF Header
    <2>6. Len(Header(n)) = 5
      BY <2>3, <2>4, <2>5
    <2> QED BY <2>4, <2>5, <2>6
  <1> QED BY <1>2, <1>3

LEMMA SmallOf ==
  ASSUME NEW f \in Small
  PROVE  f \in Frame /\ f \in Seq(Byte) /\ Len(f) \in 0 .. (Long \div 2) - 1 /\ Len(f) \in Nat
  <1>1. f \in Seq(Byte) /\ Len(f) < Long \div 2
    BY DEF Small, Frame
  <1>2. Len(f) \in Nat
    BY <1>1
  <1> QED BY <1>1, <1>2, Sizes DEF Frame

Piece(x) == Header(Len(x)) \o x

LEMMA PieceBytes == ASSUME NEW x \in Small PROVE Piece(x) \in Seq(Byte)
  <1>1. x \in Seq(Byte) /\ Header(Len(x)) \in Seq(Byte)
    BY SmallOf, HeaderBytes
  <1> QED BY <1>1, ConcatOf DEF Piece

LEMMA PiecesOf ==
  ASSUME NEW q \in Seq(Small)
  PROVE  /\ [i \in DOMAIN q |-> Piece(q[i])] \in Seq(Seq(Byte))
         /\ Encode(q) = FlattenSeq([i \in DOMAIN q |-> Piece(q[i])])
  <1>1. DOMAIN q = 1 .. Len(q) /\ Len(q) \in Nat /\ \A i \in 1 .. Len(q) : q[i] \in Small
    OBVIOUS
  <1>2. \A i \in 1 .. Len(q) : Piece(q[i]) \in Seq(Byte)
    BY <1>1, PieceBytes
  <1>3. \A T : \A m \in Nat : \A s \in [1 .. m -> T] : s \in Seq(T)
    OBVIOUS
  <1>4. [i \in 1 .. Len(q) |-> Piece(q[i])] \in [1 .. Len(q) -> Seq(Byte)]
    BY <1>2
  <1>5. [i \in 1 .. Len(q) |-> Piece(q[i])] \in Seq(Seq(Byte))
    BY <1>1, <1>3, <1>4
  <1>6. Encode(q) = FlattenSeq([i \in DOMAIN q |-> Piece(q[i])])
    BY DEF Encode, Piece
  <1> QED BY <1>1, <1>5, <1>6

LEMMA EncodeBytes == ASSUME NEW q \in Seq(Small) PROVE Encode(q) \in Seq(Byte)
  <1> DEFINE qs == [i \in DOMAIN q |-> Piece(q[i])]
  <1>1. qs \in Seq(Seq(Byte)) /\ Encode(q) = FlattenSeq(qs)
    BY PiecesOf
  <1> HIDE DEF qs
  <1>2. PICK f : Joins(qs, f, Byte)
    BY <1>1, FlattenJoins
  <1>3. FlattenSeq(qs) \in Seq(Byte)
    BY <1>1, <1>2, FlattenIs
  <1> QED BY <1>1, <1>3

-----------------------------------------------------------------------------
(* The sizes of the lists the operations make.                              *)

LEMMA Shorter == ASSUME NEW q \in Seq(Small) PROVE q \in Seq(Frame)
  <1>1. \A f \in Small : f \in Frame
    BY DEF Small
  <1> QED BY <1>1

LEMMA TotalNat == ASSUME NEW q \in Seq(Small) PROVE Total(q) \in Nat
  <1>1. q \in Seq(Frame)
    BY Shorter
  <1> QED BY <1>1, TotalConcat

LEMMA Joined ==
  ASSUME NEW p \in Seq(Small), NEW q \in Seq(Small)
  PROVE  p \o q \in Seq(Small) /\ Total(p \o q) = Total(p) + Total(q)
  <1>1. p \in Seq(Frame) /\ q \in Seq(Frame)
    BY Shorter
  <1> QED BY <1>1, TotalConcat, ConcatOf

LEMMA OneFrame ==
  ASSUME NEW f \in Small
  PROVE  <<f>> \in Seq(Small) /\ Total(<<f>>) = Len(f) /\ Len(f) \in Nat
  <1>1. f \in Frame /\ Len(f) \in Nat
    BY SmallOf
  <1>2. <<f>> \in Seq(Small)
    OBVIOUS
  <1> QED BY <1>1, <1>2, TotalOne

LEMMA Appended ==
  ASSUME NEW q \in Seq(Small), NEW f \in Small
  PROVE  Append(q, f) \in Seq(Small) /\ Total(Append(q, f)) = Total(q) + Len(f)
  <1>1. Append(q, f) = q \o <<f>>
    BY AppendIsConcat
  <1> QED BY <1>1, OneFrame, Joined

LEMMA HeadAndTail ==
  ASSUME NEW q \in Seq(Small), q # <<>>
  PROVE  /\ Head(q) \in Small /\ Tail(q) \in Seq(Small)
         /\ Total(Tail(q)) = Total(q) - Len(Head(q)) /\ Len(Head(q)) \in Nat
  <1>1. Head(q) \in Small /\ Tail(q) \in Seq(Small) /\ q = <<Head(q)>> \o Tail(q)
    BY HeadTailProperties
  <1>2. <<Head(q)>> \in Seq(Small) /\ Total(<<Head(q)>>) = Len(Head(q)) /\ Len(Head(q)) \in Nat
    BY <1>1, OneFrame
  <1>3. Total(<<Head(q)>> \o Tail(q)) = Total(<<Head(q)>>) + Total(Tail(q))
    BY <1>1, <1>2, Joined
  <1>4. Total(Tail(q)) \in Nat
    BY <1>1, TotalNat
  <1>5. Total(q) = Len(Head(q)) + Total(Tail(q))
    BY <1>1, <1>2, <1>3
  <1>6. \A x, y, z \in Nat : z = x + y => y = z - x
    OBVIOUS
  <1>7. Total(q) \in Nat
    BY TotalNat
  <1>8. Total(Tail(q)) = Total(q) - Len(Head(q))
    BY <1>2, <1>4, <1>5, <1>6, <1>7
  <1> QED BY <1>1, <1>2, <1>8

LEMMA EmptyFrame == <<>> \in Small /\ Len(<<>>) = 0
  <1>1. <<>> \in Seq(Byte) /\ Len(<<>>) = 0
    OBVIOUS
  <1>2. 0 < Long \div 2
    BY Sizes
  <1> QED BY <1>1, <1>2 DEF Small, Frame

LEMMA Removed ==
  ASSUME NEW q \in Seq(Small), NEW i \in 1 .. Len(q)
  PROVE  /\ RemoveAt(q, i) \in Seq(Small) /\ q[i] \in Small /\ Len(q[i]) \in Nat
         /\ Total(RemoveAt(q, i)) = Total(q) - Len(q[i])
  <1> DEFINE n == Len(q)  a == SubSeq(q, 1, i - 1)  b == SubSeq(q, i + 1, n)  x == q[i]
  <1>1. n \in Nat /\ x \in Small
    OBVIOUS
  <1>2. 1 \in 1 .. n + 1 /\ i - 1 \in 0 .. n /\ 1 <= (i - 1) + 1 /\ i + 1 \in 1 .. n + 1 /\ n \in 0 .. n /\ i + 1 <= n + 1
    BY <1>1
  <1>3. a \in Seq(Small) /\ b \in Seq(Small)
    BY <1>2, PartOf
  <1>4. q = a \o SubSeq(q, i, n)
    <2>1. i - 1 \in 1 - 1 .. n /\ n \in i - 1 .. n /\ (i - 1) + 1 = i
      BY <1>1
    <2>2. SubSeq(q, 1, i - 1) \o SubSeq(q, (i - 1) + 1, n) = SubSeq(q, 1, n)
      BY <1>2, <2>1, ConcatAdjacentSubSeq
    <2> QED BY <2>1, <2>2, SubSeqFull
  <1>5. SubSeq(q, i, n) = <<x>> \o b
    <2>1. n \in i .. n
      BY <1>1
    <2> QED BY <2>1, SubSeqRecursiveFirst
  <1>6. PICK w \in Seq(Small) : w = <<x>> /\ Total(w) = Len(x) /\ Len(x) \in Nat
    BY <1>1, OneFrame
  <1>7. RemoveAt(q, i) = a \o b
    BY DEF RemoveAt
  <1>10. q = a \o (w \o b)
    BY <1>4, <1>5, <1>6
  <1> HIDE DEF n, a, b, x
  <1>11. w \o b \in Seq(Small) /\ Total(w \o b) = Total(w) + Total(b)
    BY <1>3, Joined
  <1>12. Total(a \o (w \o b)) = Total(a) + Total(w \o b)
    BY <1>3, <1>11, Joined
  <1>13. a \o b \in Seq(Small) /\ Total(a \o b) = Total(a) + Total(b)
    BY <1>3, Joined
  <1>14. Total(a) \in Nat /\ Total(b) \in Nat
    BY <1>3, TotalNat
  <1>15. Total(q) = Total(a) + (Len(x) + Total(b))
    BY <1>6, <1>10, <1>11, <1>12
  <1>16. Total(a) + Total(b) = (Total(a) + (Len(x) + Total(b))) - Len(x)
    BY <1>6, <1>14
  <1>17. RemoveAt(q, i) \in Seq(Small) /\ Total(RemoveAt(q, i)) = Total(q) - Len(x)
    BY <1>7, <1>13, <1>15, <1>16
  <1> QED BY <1>1, <1>6, <1>17 DEF x

-----------------------------------------------------------------------------
(* What load() reads of what save() wrote.                                  *)

Empties(q) == {i \in DOMAIN q : Len(q[i]) = 0}

LEMMA SavedOf ==
  ASSUME NEW q \in Seq(Small)
  PROVE  /\ Len(Saved(q)) = Len(q) /\ DOMAIN Saved(q) = 1 .. Len(q) /\ Len(q) \in Nat
         /\ \A i \in 1 .. Len(q) : Saved(q)[i] = [size |-> Len(q[i]), bytes |-> q[i]]
  <1>1. DOMAIN q = 1 .. Len(q) /\ Len(q) \in Nat
    OBVIOUS
  <1>2. DOMAIN Saved(q) = 1 .. Len(q)
    BY <1>1 DEF Saved
  <1>3. Len(Saved(q)) = Len(q)
    <2>1. Saved(q) = [i \in 1 .. Len(q) |-> [size |-> Len(q[i]), bytes |-> q[i]]]
      BY <1>1 DEF Saved
    <2>2. Saved(q) \in Seq({[size |-> Len(q[i]), bytes |-> q[i]] : i \in 1 .. Len(q)})
      BY <1>1, <2>1
    <2> QED BY <1>1, <1>2, <2>2
  <1> QED BY <1>1, <1>2, <1>3 DEF Saved

(* A first part of the list, and all of it when no frame is empty.          *)
LEMMA LoadedPart ==
  ASSUME NEW q \in Seq(Small)
  PROVE  \E n \in 0 .. Len(q) :
           /\ Loaded(Saved(q)) = SubSeq(q, 1, n)
           /\ (\A i \in 1 .. Len(q) : q[i] # <<>>) => n = Len(q)
  <1> DEFINE s == Saved(q)
             I == {i \in 1 .. Len(s) : s[i].size = 0}
             full == IF I # {} THEN Min(I) ELSE 0
             read == IF full = 0 THEN s ELSE SubSeq(s, 1, full - 1)
  <1>1. Loaded(s) = [i \in DOMAIN read |-> read[i].bytes]
    BY DEF Loaded, SelectInSeq
  <1>2. /\ Len(s) = Len(q) /\ DOMAIN s = 1 .. Len(q) /\ Len(q) \in Nat
        /\ \A i \in 1 .. Len(q) : s[i].size = Len(q[i]) /\ s[i].bytes = q[i]
    <2>1. /\ Len(s) = Len(q) /\ DOMAIN s = 1 .. Len(q) /\ Len(q) \in Nat
          /\ \A i \in 1 .. Len(q) : s[i] = [size |-> Len(q[i]), bytes |-> q[i]]
      BY SavedOf
    <2> HIDE DEF s
    <2>2. \A u, v : [size |-> u, bytes |-> v].size = u /\ [size |-> u, bytes |-> v].bytes = v
      OBVIOUS
    <2> QED BY <2>1, <2>2
  <1>3. \A i \in 1 .. Len(q) : q[i] \in Seq(Byte) /\ q[i] \in Small
    <2>1. \A i \in 1 .. Len(q) : q[i] \in Small
      OBVIOUS
    <2> QED BY <2>1, SmallOf
  <1> HIDE DEF s
  <1>4. I # {} => full \in I
    <2> SUFFICES ASSUME I # {} PROVE Min(I) \in I
      OBVIOUS
    <2>1. I \in SUBSET Nat
      BY <1>2
    <2> HIDE DEF I
    <2>2. PICK x \in I : \A y \in I : x <= y
      BY <2>1, LeastOf
    <2> QED BY <2>2 DEF Min
  <1> HIDE DEF full
  <1>5. CASE I = {}
    <2>1. full = 0
      BY <1>5 DEF full
    <2>2. Loaded(s) = [i \in 1 .. Len(q) |-> q[i]]
      BY <1>1, <1>2, <2>1
    <2>3. Loaded(s) = q
      BY <2>2
    <2>4. SubSeq(q, 1, Len(q)) = q
      BY SubSeqFull
    <2>5. Len(q) \in 0 .. Len(q)
      BY <1>2
    <2> HIDE DEF read, I
    <2> QED BY <2>3, <2>4, <2>5, Zenon DEF s
  <1>6. CASE I # {}
    <2>1. full \in 1 .. Len(q) /\ s[full].size = 0 /\ full # 0
      BY <1>2, <1>4, <1>6
    <2>2. ~(\A i \in 1 .. Len(q) : q[i] # <<>>)
      <3>1. Len(q[full]) = 0 /\ q[full] \in Seq(Byte)
        BY <1>2, <1>3, <2>1
      <3>2. q[full] = <<>>
        BY <3>1
      <3> QED BY <2>1, <3>2
    <2> DEFINE n == full - 1
               p == SubSeq(q, 1, n)
    <2>3. n \in 0 .. Len(q)
      BY <1>2, <2>1
    <2>4. SubSeq(s, 1, n) = [i \in 1 .. n |-> s[i]]
      <3> HIDE DEF n
      <3> QED BY <1>2, <2>3
    <2>5. read = [i \in 1 .. n |-> s[i]]
      BY <2>1, <2>4
    <2> HIDE DEF read, n
    <2>6. Loaded(s) = [i \in 1 .. n |-> q[i]]
      BY <1>1, <1>2, <2>3, <2>5
    <2>7. p = [i \in 1 .. n |-> q[i]]
      BY <1>2, <2>3
    <2> HIDE DEF I
    <2> QED BY <2>2, <2>3, <2>6, <2>7 DEF s
  <1> QED BY <1>5, <1>6

LEMMA LoadedOf == ASSUME NEW q \in Seq(Small) PROVE Loaded(Saved(q)) \in Seq(Small)
  <1>1. PICK n \in 0 .. Len(q) : Loaded(Saved(q)) = SubSeq(q, 1, n)
    BY LoadedPart
  <1>2. 1 \in 1 .. Len(q) + 1 /\ 1 <= n + 1
    OBVIOUS
  <1> QED BY <1>1, <1>2, PartOf

-----------------------------------------------------------------------------
(* The invariant of the Messages objects: what is in a list or on its way is *)
(* a list of frames an int can size, and each object counts its own.         *)

ListsExact ==
  /\ frames \in [Slot -> Seq(Small)]
  /\ contentsize \in [Slot -> Int] /\ lost \in [Slot -> Nat]
  /\ ContentSizeExact

UnderWay == pipe \in Seq(Seq(Small)) /\ remaining \in Seq(Small)

MessagesInv == ListsExact /\ UnderWay

LEMMA MessagesInitially == Init => MessagesInv
  <1> SUFFICES ASSUME Init PROVE MessagesInv
    OBVIOUS
  <1>1. /\ frames = [m \in Slot |-> <<>>] /\ contentsize = [m \in Slot |-> 0]
        /\ lost = [m \in Slot |-> 0] /\ pipe = <<>> /\ remaining = <<>>
    BY DEF Init
  <1>2. <<>> \in Seq(Small) /\ <<>> \in Seq(Seq(Small))
    OBVIOUS
  <1>3. Total(<<>>) = 0
    BY TotalNone
  <1>4. ContentSizeExact
    BY <1>1, <1>3 DEF ContentSizeExact
  <1> QED BY <1>1, <1>2, <1>4 DEF MessagesInv, ListsExact, UnderWay

(* One object changes; its count, its list and what failed sends lost agree. *)
LEMMA OneObject ==
  ASSUME ListsExact, NEW m \in Slot, NEW q \in Seq(Small), NEW c \in Int, NEW l \in Nat,
         c = Total(q) + l,
         frames' = [frames EXCEPT ![m] = q],
         contentsize' = [contentsize EXCEPT ![m] = c],
         lost' = [lost EXCEPT ![m] = l]
  PROVE  ListsExact'
  <1>1. /\ frames' \in [Slot -> Seq(Small)] /\ contentsize' \in [Slot -> Int] /\ lost' \in [Slot -> Nat]
    BY DEF ListsExact
  <1>2. ASSUME NEW n \in Slot PROVE contentsize'[n] = Total(frames'[n]) + lost'[n]
    <2>1. CASE n = m
      <3>1. frames'[n] = q /\ contentsize'[n] = c /\ lost'[n] = l
        BY <2>1 DEF ListsExact
      <3> QED BY <3>1
    <2>2. CASE n # m
      <3>1. frames'[n] = frames[n] /\ contentsize'[n] = contentsize[n] /\ lost'[n] = lost[n]
        BY <2>2 DEF ListsExact
      <3> QED BY <3>1 DEF ListsExact, ContentSizeExact
    <2> QED BY <2>1, <2>2
  <1>3. ContentSizeExact'
    BY <1>2 DEF ContentSizeExact
  <1> QED BY <1>1, <1>3 DEF ListsExact

LEMMA ObjectOf ==
  ASSUME ListsExact, NEW m \in Slot
  PROVE  /\ frames[m] \in Seq(Small) /\ contentsize[m] \in Int /\ lost[m] \in Nat
         /\ contentsize[m] = Total(frames[m]) + lost[m] /\ Total(frames[m]) \in Nat
  <1>1. frames[m] \in Seq(Small) /\ contentsize[m] \in Int /\ lost[m] \in Nat
    BY DEF ListsExact
  <1>2. contentsize[m] = Total(frames[m]) + lost[m]
    BY DEF ListsExact, ContentSizeExact
  <1> QED BY <1>1, <1>2, TotalNat

LEMMA ChangeKeeps ==
  ASSUME ListsExact, NEW m \in Slot, NEW q \in Seq(Small), NEW d \in Int,
         Total(q) = Total(frames[m]) + d, Change(m, q, d)
  PROVE  ListsExact'
  <1>1. contentsize[m] = Total(frames[m]) + lost[m] /\ contentsize[m] \in Int /\ lost[m] \in Nat /\ Total(frames[m]) \in Nat
    BY ObjectOf
  <1>2. /\ frames' = [frames EXCEPT ![m] = q]
        /\ contentsize' = [contentsize EXCEPT ![m] = contentsize[m] + d]
        /\ lost' = lost
    BY DEF Change
  <1>3. lost' = [lost EXCEPT ![m] = lost[m]]
    BY <1>2 DEF ListsExact
  <1>4. \A a, b, x, y \in Int : a = x + y /\ b = x + d => a + d = b + y /\ a + d \in Int
    OBVIOUS
  <1>5. Total(q) \in Nat
    BY TotalNat
  <1>6. contentsize[m] + d = Total(q) + lost[m] /\ contentsize[m] + d \in Int
    BY <1>1, <1>4, <1>5
  <1> QED BY <1>1, <1>2, <1>3, <1>6, OneObject

LEMMA RefillKeeps ==
  ASSUME ListsExact, NEW m \in Slot, NEW q \in Seq(Small), Refill(m, q)
  PROVE  ListsExact'
  <1>1. /\ frames' = [frames EXCEPT ![m] = q]
        /\ contentsize' = [contentsize EXCEPT ![m] = Total(q)]
        /\ lost' = [lost EXCEPT ![m] = 0]
    BY DEF Refill
  <1>2. Total(q) \in Nat
    BY TotalNat
  <1>3. Total(q) = Total(q) + 0 /\ Total(q) \in Int /\ 0 \in Nat
    BY <1>2
  <1> QED BY <1>1, <1>3, OneObject

LEMMA EmptyList == <<>> \in Seq(Small) /\ Total(<<>>) = 0
  BY TotalNone

LEMMA AppendToOne == ASSUME NEW T, NEW x \in T, NEW y \in T PROVE Append(<<x>>, y) = <<x, y>>
  <1>1. PICK s \in Seq(T) : s = <<x>> /\ Len(s) = 1 /\ s[1] = x
    <2>1. <<x>> \in Seq(T) /\ Len(<<x>>) = 1 /\ <<x>>[1] = x
      OBVIOUS
    <2> QED BY <2>1
  <1>2. PICK t \in Seq(T) : t = <<x, y>> /\ Len(t) = 2 /\ t[1] = x /\ t[2] = y
    <2>1. <<x, y>> \in Seq(T) /\ Len(<<x, y>>) = 2 /\ <<x, y>>[1] = x /\ <<x, y>>[2] = y
      OBVIOUS
    <2> QED BY <2>1
  <1>3. Append(s, y) \in Seq(T) /\ Len(Append(s, y)) = 2 /\ Append(s, y)[1] = x /\ Append(s, y)[2] = y
    BY <1>1, AppendProperties
  <1>4. \A i \in 1 .. Len(t) : i = 1 \/ i = 2
    BY <1>2
  <1>5. Append(s, y) = t
    BY <1>2, <1>3, <1>4, SeqEqual
  <1> QED BY <1>1, <1>2, <1>5

LEMMA AddKeeps ==
  ASSUME ListsExact, NEW m \in Slot, NEW f \in Small
  PROVE  /\ AppendFrame(m, f) => ListsExact'
         /\ PrependFrame(m, f) => ListsExact'
         /\ Wrap(m, f) => ListsExact'
  <1> DEFINE q == frames[m]
  <1>1. q \in Seq(Small) /\ Total(q) \in Nat /\ Len(f) \in Nat /\ Len(f) \in Int
    BY ObjectOf, SmallOf
  <1>2. <<f>> \in Seq(Small) /\ Total(<<f>>) = Len(f)
    BY OneFrame
  <1>3. ASSUME AppendFrame(m, f) PROVE ListsExact'
    <2>1. Append(q, f) \in Seq(Small) /\ Total(Append(q, f)) = Total(q) + Len(f)
      BY <1>1, Appended
    <2>2. Change(m, Append(q, f), Len(f))
      BY <1>3 DEF AppendFrame
    <2> QED BY <1>1, <2>1, <2>2, ChangeKeeps
  <1>4. ASSUME PrependFrame(m, f) PROVE ListsExact'
    <2>1. <<f>> \o q \in Seq(Small) /\ Total(<<f>> \o q) = Total(<<f>>) + Total(q)
      BY <1>1, <1>2, Joined
    <2>2. Total(<<f>> \o q) = Total(q) + Len(f)
      BY <1>1, <1>2, <2>1
    <2>3. Change(m, <<f>> \o q, Len(f))
      BY <1>4 DEF PrependFrame
    <2> QED BY <1>1, <2>1, <2>2, <2>3, ChangeKeeps
  <1>5. ASSUME Wrap(m, f) PROVE ListsExact'
    <2>1. <<>> \in Small /\ Len(<<>>) = 0
      BY EmptyFrame
    <2>2. Append(<<f>>, <<>>) \in Seq(Small) /\ Total(Append(<<f>>, <<>>)) = Len(f) + 0
      BY <1>2, <2>1, Appended
    <2>3. Append(<<f>>, <<>>) = <<f, <<>>>>
      BY <2>1, AppendToOne
    <2>4. <<f, <<>>>> \in Seq(Small) /\ Total(<<f, <<>>>>) = Len(f)
      <3>1. Len(f) + 0 = Len(f)
        BY <1>1
      <3> QED BY <2>2, <2>3, <3>1
    <2>5. <<f, <<>>>> \o q \in Seq(Small) /\ Total(<<f, <<>>>> \o q) = Total(<<f, <<>>>>) + Total(q)
      BY <1>1, <2>4, Joined
    <2>6. Total(<<f, <<>>>> \o q) = Total(q) + Len(f)
      BY <1>1, <2>4, <2>5
    <2>7. Change(m, <<f, <<>>>> \o q, Len(f))
      BY <1>5 DEF Wrap
    <2> QED BY <1>1, <2>5, <2>6, <2>7, ChangeKeeps
  <1> QED BY <1>3, <1>4, <1>5

LEMMA Less ==
  ASSUME NEW x \in Nat, NEW y \in Nat, NEW z \in Nat, z = x - y
  PROVE  z = x + (-y) /\ -y \in Int
  OBVIOUS

LEMMA PopKeeps ==
  ASSUME ListsExact, NEW m \in Slot, Pop(m)
  PROVE  ListsExact'
  <1> DEFINE q == frames[m]
  <1>1. q \in Seq(Small) /\ Total(q) \in Nat /\ q # <<>> /\ Change(m, Tail(q), -Len(Head(q)))
    BY ObjectOf DEF Pop
  <1>2. Tail(q) \in Seq(Small) /\ Total(Tail(q)) = Total(q) - Len(Head(q)) /\ Len(Head(q)) \in Nat
    BY <1>1, HeadAndTail
  <1>3. Total(Tail(q)) \in Nat
    BY <1>2, TotalNat
  <1>4. Total(Tail(q)) = Total(q) + (-Len(Head(q))) /\ -Len(Head(q)) \in Int
    BY <1>1, <1>2, <1>3, Less
  <1> QED BY <1>1, <1>2, <1>4, ChangeKeeps

LEMMA UnwrapKeeps ==
  ASSUME ListsExact, NEW m \in Slot, Unwrap(m)
  PROVE  ListsExact'
  <1> DEFINE q == frames[m]
             rest == Tail(q)
             new == IF rest # <<>> /\ Head(rest) = <<>> THEN Tail(rest) ELSE rest
  <1>1. q \in Seq(Small) /\ Total(q) \in Nat /\ q # <<>> /\ Change(m, new, -Len(Head(q)))
    BY ObjectOf DEF Unwrap
  <1>2. rest \in Seq(Small) /\ Total(rest) = Total(q) - Len(Head(q)) /\ Len(Head(q)) \in Nat
    BY <1>1, HeadAndTail
  <1>3. Total(rest) \in Nat
    BY <1>2, TotalNat
  <1> HIDE DEF rest
  <1>4. new \in Seq(Small) /\ Total(new) = Total(rest)
    <2>1. CASE rest # <<>> /\ Head(rest) = <<>>
      <3>1. Tail(rest) \in Seq(Small) /\ Total(Tail(rest)) = Total(rest) - Len(Head(rest))
        BY <1>2, <2>1, HeadAndTail
      <3>2. Len(Head(rest)) = 0
        BY <2>1, EmptyFrame
      <3> QED BY <1>3, <2>1, <3>1, <3>2
    <2>2. CASE ~(rest # <<>> /\ Head(rest) = <<>>)
      BY <1>2, <2>2
    <2> QED BY <2>1, <2>2
  <1>5. Total(rest) = Total(q) + (-Len(Head(q))) /\ -Len(Head(q)) \in Int
    BY <1>1, <1>2, <1>3, Less
  <1> HIDE DEF new, q
  <1>6. Total(new) = Total(q) + (-Len(Head(q)))
    BY <1>4, <1>5
  <1> QED BY <1>1, <1>4, <1>5, <1>6, ChangeKeeps DEF q

LEMMA TakeAtKeeps ==
  ASSUME ListsExact, NEW m \in Slot, NEW i \in DOMAIN frames[m], TakeAt(m, i)
  PROVE  ListsExact'
  <1> DEFINE q == frames[m]
  <1>1. q \in Seq(Small) /\ Total(q) \in Nat /\ Change(m, RemoveAt(q, i), -Len(q[i]))
    BY ObjectOf DEF TakeAt
  <1>2. i \in 1 .. Len(q)
    BY <1>1
  <1>3. RemoveAt(q, i) \in Seq(Small) /\ Len(q[i]) \in Nat /\ Total(RemoveAt(q, i)) = Total(q) - Len(q[i])
    BY <1>1, <1>2, Removed
  <1>4. Total(RemoveAt(q, i)) \in Nat
    BY <1>3, TotalNat
  <1>5. Total(RemoveAt(q, i)) = Total(q) + (-Len(q[i])) /\ -Len(q[i]) \in Int
    BY <1>1, <1>3, <1>4, Less
  <1> QED BY <1>1, <1>3, <1>5, ChangeKeeps

LEMMA AssignKeeps ==
  ASSUME ListsExact, NEW m \in Slot, NEW n \in Slot
  PROVE  Assign(m, n) \/ Clear(m) => ListsExact'
  <1>1. (IF m = n THEN <<>> ELSE frames[n]) \in Seq(Small)
    BY EmptyList, ObjectOf
  <1> QED BY <1>1, EmptyList, RefillKeeps DEF Assign, Clear

LEMMA ClearKeeps ==
  ASSUME ListsExact, NEW m \in Slot, Clear(m)
  PROVE  ListsExact'
  BY AssignKeeps

LEMMA AppendMessagesKeeps ==
  ASSUME MessageConstants, ListsExact, NEW m \in Slot, NEW n \in Slot, AppendMessages(m, n)
  PROVE  ListsExact'
  <1> DEFINE data == Encode(frames[n])
  <1>1. frames[n] \in Seq(Small) /\ Len(data) <= MaxBytes /\ Change(m, Append(frames[m], data), Len(data))
    BY ObjectOf DEF AppendMessages
  <1>2. data \in Seq(Byte)
    BY <1>1, EncodeBytes
  <1> HIDE DEF data
  <1>3. Len(data) < Long \div 2
    <2>1. Len(data) \in Nat
      BY <1>2
    <2>2. MaxBytes \in Nat /\ MaxBytes < Long \div 2 /\ Long \div 2 \in Nat
      BY Sizes DEF MessageConstants
    <2> QED BY <1>1, <2>1, <2>2
  <1>4. data \in Small
    BY <1>2, <1>3 DEF Small, Frame
  <1>5. AppendFrame(m, data)
    BY <1>1 DEF AppendFrame
  <1> QED BY <1>4, <1>5, AddKeeps

LEMMA DecodeIntoKeeps ==
  ASSUME ListsExact, NEW m \in Slot, NEW b \in Seq(Byte), DecodeInto(m, b)
  PROVE  ListsExact'
  <1> DEFINE d == Decode(b)
  <1>1. d.frames \in Seq(Small)
    BY DecodeType DEF Decoded
  <1>2. \/ Change(m, frames[m] \o d.frames, Total(d.frames)) \/ Clear(m)
    BY DEF DecodeInto
  <1> HIDE DEF d
  <1>3. ASSUME Change(m, frames[m] \o d.frames, Total(d.frames)) PROVE ListsExact'
    <2>1. frames[m] \in Seq(Small)
      BY ObjectOf
    <2>2. /\ frames[m] \o d.frames \in Seq(Small)
          /\ Total(frames[m] \o d.frames) = Total(frames[m]) + Total(d.frames)
      BY <1>1, <2>1, Joined
    <2>3. Total(d.frames) \in Int
      BY <1>1, TotalNat
    <2> QED BY <1>3, <2>2, <2>3, ChangeKeeps
  <1> QED BY <1>2, <1>3, ClearKeeps

(* Two objects change.                                                      *)
LEMMA TwoObjects ==
  ASSUME ListsExact, NEW m \in Slot, NEW n \in Slot, m # n,
         NEW q \in Seq(Small), NEW c \in Int, c = Total(q) + lost[m],
         NEW r \in Seq(Small),
         frames' = [frames EXCEPT ![m] = q, ![n] = r],
         contentsize' = [contentsize EXCEPT ![m] = c, ![n] = Total(r)],
         lost' = [lost EXCEPT ![n] = 0]
  PROVE  ListsExact'
  <1>1. Total(r) \in Nat
    BY TotalNat
  <1>2. /\ frames' \in [Slot -> Seq(Small)] /\ contentsize' \in [Slot -> Int] /\ lost' \in [Slot -> Nat]
    <2>1. frames \in [Slot -> Seq(Small)] /\ contentsize \in [Slot -> Int] /\ lost \in [Slot -> Nat]
      BY DEF ListsExact
    <2>2. Total(r) \in Int /\ 0 \in Nat
      BY <1>1
    <2>3. \A S, T : \A f \in [S -> T], x, y \in S, u, v \in T : [f EXCEPT ![x] = u, ![y] = v] \in [S -> T]
      OBVIOUS
    <2>4. \A S, T : \A f \in [S -> T], x \in S, u \in T : [f EXCEPT ![x] = u] \in [S -> T]
      OBVIOUS
    <2>5. frames' \in [Slot -> Seq(Small)]
      BY <2>1, <2>3, Zenon
    <2>6. contentsize' \in [Slot -> Int]
      BY <2>1, <2>2, <2>3, Zenon
    <2>7. lost' \in [Slot -> Nat]
      BY <2>1, <2>2, <2>4, Zenon
    <2> QED BY <2>5, <2>6, <2>7
  <1>3. ASSUME NEW k \in Slot PROVE contentsize'[k] = Total(frames'[k]) + lost'[k]
    <2>1. CASE k = n
      <3>1. frames'[k] = r /\ contentsize'[k] = Total(r) /\ lost'[k] = 0
        BY <1>1, <2>1 DEF ListsExact
      <3> QED BY <1>1, <3>1
    <2>2. CASE k = m
      <3>1. frames'[k] = q /\ contentsize'[k] = c /\ lost'[k] = lost[m]
        BY <2>2 DEF ListsExact
      <3> QED BY <3>1
    <2>3. CASE k # m /\ k # n
      <3>1. frames'[k] = frames[k] /\ contentsize'[k] = contentsize[k] /\ lost'[k] = lost[k]
        BY <2>3 DEF ListsExact
      <3> QED BY <3>1 DEF ListsExact, ContentSizeExact
    <2> QED BY <2>1, <2>2, <2>3
  <1>4. ContentSizeExact'
    BY <1>3 DEF ContentSizeExact
  <1> QED BY <1>2, <1>4 DEF ListsExact

LEMMA PopMessagesKeeps ==
  ASSUME ListsExact, NEW m \in Slot, NEW n \in Slot, PopMessages(m, n)
  PROVE  ListsExact'
  <1> DEFINE q == frames[m]
             r == Decode(Head(q)).frames
             c == contentsize[m] - Len(Head(q))
  <1>1. /\ m # n /\ q # <<>>
        /\ frames' = [frames EXCEPT ![m] = Tail(q), ![n] = r]
        /\ contentsize' = [contentsize EXCEPT ![m] = c, ![n] = Total(r)]
        /\ lost' = [lost EXCEPT ![n] = 0]
    BY DEF PopMessages
  <1>2. /\ q \in Seq(Small) /\ contentsize[m] \in Int /\ lost[m] \in Nat
        /\ contentsize[m] = Total(q) + lost[m] /\ Total(q) \in Nat
    BY ObjectOf
  <1>3. Tail(q) \in Seq(Small) /\ Head(q) \in Small /\ Total(Tail(q)) = Total(q) - Len(Head(q)) /\ Len(Head(q)) \in Nat
    BY <1>1, <1>2, HeadAndTail
  <1>4. r \in Seq(Small)
    <2>1. Head(q) \in Seq(Byte)
      BY <1>3, SmallOf
    <2> QED BY <2>1, DecodeType DEF Decoded
  <1>5. \A s, x, y, z \in Int : s = x + y => s - z = (x - z) + y /\ s - z \in Int
    OBVIOUS
  <1>6. c \in Int /\ c = Total(Tail(q)) + lost[m]
    BY <1>2, <1>3, <1>5
  <1> HIDE DEF q, r, c
  <1> QED BY <1>1, <1>3, <1>4, <1>6, TwoObjects

LEMMA SaveAndLoadKeeps ==
  ASSUME ListsExact, NEW m \in Slot, NEW n \in Slot, SaveAndLoad(n, m)
  PROVE  ListsExact'
  <1> DEFINE q == frames[n]
  <1>1. q \in Seq(Small) /\ Refill(m, Loaded(Saved(q)))
    BY ObjectOf DEF SaveAndLoad
  <1> QED BY <1>1, LoadedOf, RefillKeeps

-----------------------------------------------------------------------------
(* Sockets.                                                                 *)

(* What comes in and what is left of it.                                    *)
LEMMA IncomingOf ==
  ASSUME UnderWay
  PROVE  /\ Incoming \in Seq(Small)
         /\ \A k \in Nat : k <= Len(Incoming) /\ Took(k) => UnderWay'
  <1>1. pipe \in Seq(Seq(Small)) /\ remaining \in Seq(Small)
    BY DEF UnderWay
  <1>2. pipe # <<>> => Head(pipe) \in Seq(Small) /\ Tail(pipe) \in Seq(Seq(Small))
    <2> DEFINE X == Seq(Small)
    <2> HIDE DEF X
    <2>1. pipe \in Seq(X)
      BY <1>1 DEF X
    <2>2. pipe # <<>> => Head(pipe) \in X /\ Tail(pipe) \in Seq(X)
      BY <2>1, HeadTailProperties
    <2> QED BY <2>2 DEF X
  <1>3. <<>> \in Seq(Small)
    OBVIOUS
  <1>4. Incoming \in Seq(Small)
    BY <1>1, <1>2, <1>3 DEF Incoming
  <1>5. ASSUME NEW k \in Nat, k <= Len(Incoming), Took(k) PROVE UnderWay'
    <2>1. /\ Incoming # <<>> /\ remaining' = SubSeq(Incoming, k + 1, Len(Incoming))
          /\ pipe' = IF remaining # <<>> THEN pipe ELSE Tail(pipe)
      BY <1>5 DEF Took
    <2>2. remaining = <<>> => pipe # <<>>
      BY <2>1 DEF Incoming
    <2>3. pipe' \in Seq(Seq(Small))
      BY <1>1, <1>2, <2>1, <2>2
    <2>4. k + 1 \in 1 .. Len(Incoming) + 1 /\ Len(Incoming) \in 0 .. Len(Incoming) /\ k + 1 <= Len(Incoming) + 1
      BY <1>4, <1>5
    <2>5. remaining' \in Seq(Small)
      BY <1>4, <2>1, <2>4, PartOf
    <2> QED BY <2>3, <2>5 DEF UnderWay
  <1> QED BY <1>4, <1>5

LEMMA SendKeeps ==
  ASSUME MessagesInv, NEW m \in Slot, Send(m)
  PROVE  MessagesInv'
  <1> DEFINE q == frames[m]
  <1>1. ListsExact /\ UnderWay
    BY DEF MessagesInv
  <1>2. /\ Change(m, <<>>, -Total(q)) /\ pipe' = Append(pipe, q) /\ remaining' = remaining
    BY DEF Send
  <1>3. q \in Seq(Small) /\ Total(q) \in Nat
    BY <1>1, ObjectOf
  <1>4. \A x \in Nat : 0 = x + (-x) /\ -x \in Int
    OBVIOUS
  <1>5. Total(<<>>) = Total(q) + (-Total(q)) /\ -Total(q) \in Int /\ <<>> \in Seq(Small)
    BY <1>3, <1>4, EmptyList
  <1>6. ListsExact'
    BY <1>1, <1>2, <1>5, ChangeKeeps
  <1> DEFINE X == Seq(Small)
  <1> HIDE DEF X, q
  <1>7. pipe \in Seq(X) /\ remaining \in X /\ q \in X
    BY <1>1, <1>3 DEF UnderWay, X
  <1>8. Append(pipe, q) \in Seq(X)
    BY <1>7, AppendProperties
  <1>9. UnderWay'
    BY <1>2, <1>7, <1>8 DEF UnderWay, X
  <1> QED BY <1>6, <1>9 DEF MessagesInv

LEMMA Moved ==
  ASSUME NEW s \in Int, NEW x \in Nat, NEW y \in Nat, NEW z \in Nat, s = x + y
  PROVE  s = (x - z) + (y + z) /\ y + z \in Nat
  OBVIOUS

LEMMA SendFailsKeeps ==
  ASSUME MessagesInv, NEW m \in Slot, SendFails(m)
  PROVE  MessagesInv'
  <1> DEFINE q == frames[m]  l == lost[m] + Len(Head(q))
  <1>1. ListsExact /\ UnderWay
    BY DEF MessagesInv
  <1>2. /\ q # <<>>
        /\ frames' = [frames EXCEPT ![m] = Tail(q)] /\ lost' = [lost EXCEPT ![m] = l]
        /\ contentsize' = contentsize /\ UNCHANGED <<pipe, remaining>>
    BY DEF SendFails
  <1>3. /\ q \in Seq(Small) /\ contentsize[m] \in Int /\ lost[m] \in Nat
        /\ contentsize[m] = Total(q) + lost[m] /\ Total(q) \in Nat
    BY <1>1, ObjectOf
  <1>4. Tail(q) \in Seq(Small) /\ Total(Tail(q)) = Total(q) - Len(Head(q)) /\ Len(Head(q)) \in Nat
    BY <1>2, <1>3, HeadAndTail
  <1>5. contentsize' = [contentsize EXCEPT ![m] = contentsize[m]]
    BY <1>1, <1>2 DEF ListsExact
  <1> HIDE DEF q
  <1>6. contentsize[m] = (Total(q) - Len(Head(q))) + l /\ l \in Nat
    BY <1>3, <1>4, Moved
  <1> HIDE DEF l
  <1>7. l \in Nat /\ contentsize[m] = Total(Tail(q)) + l
    BY <1>4, <1>6
  <1>8. ListsExact'
    BY <1>1, <1>2, <1>3, <1>4, <1>5, <1>7, OneObject
  <1>9. UnderWay'
    BY <1>1, <1>2 DEF UnderWay
  <1> QED BY <1>8, <1>9 DEF MessagesInv

LEMMA RecvKeeps ==
  ASSUME MessagesInv, NEW m \in Slot
  PROVE  /\ Recv(m) => MessagesInv'
         /\ RecvInterrupted(m) => MessagesInv'
         /\ RecvNowait(m) => MessagesInv'
  <1>1. ListsExact /\ UnderWay /\ Incoming \in Seq(Small) /\ Len(Incoming) \in Nat
    BY IncomingOf DEF MessagesInv
  <1>2. Elsewhere => UnderWay'
    BY <1>1 DEF Elsewhere, UnderWay
  <1>3. ASSUME Recv(m) PROVE MessagesInv'
    <2>1. Refill(m, Incoming) /\ Took(Len(Incoming))
      BY <1>3 DEF Recv
    <2>2. ListsExact'
      BY <1>1, <2>1, RefillKeeps
    <2>3. Len(Incoming) <= Len(Incoming)
      BY <1>1
    <2>4. UnderWay'
      BY <1>1, <2>1, <2>3, IncomingOf
    <2> QED BY <2>2, <2>4 DEF MessagesInv
  <1>4. ASSUME Clear(m), Elsewhere PROVE MessagesInv'
    <2>1. ListsExact'
      BY <1>1, <1>4, ClearKeeps
    <2> QED BY <1>2, <1>4, <2>1 DEF MessagesInv
  <1>5. ASSUME RecvNowait(m) PROVE MessagesInv'
    <2> DEFINE q == IF Len(Incoming) > 1 THEN SubSeq(Incoming, 1, 1) ELSE <<>>
    <2>1. CASE Took(1) /\ Refill(m, q)
      <3>1. q \in Seq(Small)
        <4>1. Len(Incoming) > 1 => 1 \in 1 .. Len(Incoming) + 1 /\ 1 \in 0 .. Len(Incoming) /\ 1 <= 1 + 1
          BY <1>1
        <4>2. Len(Incoming) > 1 => SubSeq(Incoming, 1, 1) \in Seq(Small)
          BY <1>1, <4>1, PartOf
        <4> QED BY <4>2, EmptyList
      <3>2. ListsExact'
        BY <1>1, <2>1, <3>1, RefillKeeps
      <3>3. Incoming # <<>> /\ 1 \in Nat
        BY <2>1 DEF Took
      <3>4. 1 <= Len(Incoming)
        BY <1>1, <3>3
      <3>5. UnderWay'
        BY <1>1, <2>1, <3>3, <3>4, IncomingOf
      <3> QED BY <3>2, <3>5 DEF MessagesInv
    <2>2. CASE Clear(m) /\ Elsewhere
      BY <1>4, <2>2
    <2> QED BY <1>5, <2>1, <2>2 DEF RecvNowait
  <1> QED BY <1>3, <1>4, <1>5 DEF RecvInterrupted

LEMMA MessagesStutter == MessagesInv /\ UNCHANGED vars => MessagesInv'
  BY DEF vars, MessagesInv, ListsExact, UnderWay, ContentSizeExact

LEMMA MessagesStep ==
  ASSUME MessageConstants, MessagesInv, Next
  PROVE  MessagesInv'
  <1>1. ListsExact /\ UnderWay
    BY DEF MessagesInv
  <1>2. Elsewhere => UnderWay'
    BY <1>1 DEF Elsewhere, UnderWay
  <1>3. ASSUME ListsExact', Elsewhere PROVE MessagesInv'
    BY <1>2, <1>3 DEF MessagesInv
  <1>4. PICK m \in Slot :
          \/ /\ Elsewhere
             /\ \/ Clear(m) \/ Pop(m) \/ Unwrap(m)
                \/ \E f \in Content : AppendFrame(m, f) \/ PrependFrame(m, f) \/ Wrap(m, f)
                \/ \E i \in DOMAIN frames[m] : TakeAt(m, i)
                \/ \E n \in Slot :
                     \/ Assign(m, n) \/ AppendMessages(m, n)
                     \/ PopMessages(m, n) \/ SaveAndLoad(n, m)
                \/ \E n \in Slot : \E cut \in {0, 1} :
                     DecodeInto(m, SubSeq(Encode(frames[n]), 1, Len(Encode(frames[n])) - cut))
          \/ Send(m) \/ SendFails(m)
          \/ Recv(m) \/ RecvInterrupted(m) \/ RecvNowait(m)
    BY DEF Next
  <1>5. ASSUME Clear(m) PROVE ListsExact'
    BY <1>1, <1>5, ClearKeeps
  <1>6. ASSUME Pop(m) PROVE ListsExact'
    BY <1>1, <1>6, PopKeeps
  <1>7. ASSUME Unwrap(m) PROVE ListsExact'
    BY <1>1, <1>7, UnwrapKeeps
  <1>8. ASSUME NEW f \in Content, AppendFrame(m, f) \/ PrependFrame(m, f) \/ Wrap(m, f)
        PROVE  ListsExact'
    <2>1. f \in Small
      BY DEF MessageConstants
    <2> QED BY <1>1, <1>8, <2>1, AddKeeps
  <1>9. ASSUME NEW i \in DOMAIN frames[m], TakeAt(m, i) PROVE ListsExact'
    BY <1>1, <1>9, TakeAtKeeps
  <1>10. ASSUME NEW n \in Slot,
                Assign(m, n) \/ AppendMessages(m, n) \/ PopMessages(m, n) \/ SaveAndLoad(n, m)
         PROVE  ListsExact'
    BY <1>1, <1>10, AssignKeeps, AppendMessagesKeeps, PopMessagesKeeps, SaveAndLoadKeeps
  <1>11. ASSUME NEW n \in Slot, NEW cut \in {0, 1},
                DecodeInto(m, SubSeq(Encode(frames[n]), 1, Len(Encode(frames[n])) - cut))
         PROVE  ListsExact'
    <2> DEFINE e == Encode(frames[n])  b == SubSeq(e, 1, Len(e) - cut)
    <2>1. e \in Seq(Byte)
      BY <1>1, ObjectOf, EncodeBytes
    <2> HIDE DEF e
    <2>2. b \in Seq(Byte)
      <3>1. \A i \in 1 .. Len(e) - cut : e[i] \in Byte
        <4>1. Len(e) \in Nat
          BY <2>1
        <4>2. \A i \in 1 .. Len(e) - cut : i \in 1 .. Len(e)
          BY <4>1
        <4> QED BY <2>1, <4>2, ElementOfSeq
      <3>2. 1 \in Int /\ Len(e) - cut \in Int
        BY <2>1
      <3> QED BY <3>1, <3>2, SubSeqProperties
    <2> HIDE DEF b
    <2>3. DecodeInto(m, b)
      BY <1>11 DEF b, e
    <2> QED BY <1>1, <2>2, <2>3, DecodeIntoKeeps
  <1>12. CASE Send(m)
    BY <1>12, SendKeeps
  <1>13. CASE SendFails(m)
    BY <1>13, SendFailsKeeps
  <1>14. CASE Recv(m) \/ RecvInterrupted(m) \/ RecvNowait(m)
    BY <1>14, RecvKeeps
  <1> QED BY <1>3, <1>4, <1>5, <1>6, <1>7, <1>8, <1>9, <1>10, <1>11, <1>12, <1>13, <1>14

LEMMA MessagesTypes == MessagesInv => TypeOK
  <1> SUFFICES ASSUME MessagesInv PROVE TypeOK
    OBVIOUS
  <1>1. \A f \in Small : f \in Frame
    BY DEF Small
  <1>2. \A q \in Seq(Small) : q \in Seq(Frame)
    BY Shorter
  <1>3. /\ frames \in [Slot -> Seq(Small)] /\ contentsize \in [Slot -> Int] /\ lost \in [Slot -> Nat]
        /\ pipe \in Seq(Seq(Small)) /\ remaining \in Seq(Small)
    BY DEF MessagesInv, ListsExact, UnderWay
  <1>4. frames \in [Slot -> Seq(Frame)] /\ remaining \in Seq(Frame)
    BY <1>2, <1>3
  <1>5. pipe \in Seq(Seq(Frame))
    <2>1. Seq(Small) \subseteq Seq(Frame)
      BY <1>2
    <2> QED BY <1>3, <2>1, SeqMonotonic
  <1> QED BY <1>3, <1>4, <1>5 DEF TypeOK

-----------------------------------------------------------------------------
(* Cuts of joined buffers.                                                  *)

LEMMA FrontOf ==
  ASSUME NEW T, NEW b \in Seq(T), NEW k \in 0 .. Len(b)
  PROVE  /\ SubSeq(b, 1, k) \in Seq(T) /\ Len(SubSeq(b, 1, k)) = k
         /\ \A i \in 1 .. k : SubSeq(b, 1, k)[i] = b[i]
  <1>1. 1 \in 1 .. Len(b) + 1 /\ 1 <= k + 1 /\ (k - 1) + 1 = k /\ \A i \in 1 .. k : (1 + i) - 1 = i
    OBVIOUS
  <1>2. /\ SubSeq(b, 1, k) \in Seq(T) /\ Len(SubSeq(b, 1, k)) = (k - 1) + 1
        /\ \A i \in 1 .. (k - 1) + 1 : SubSeq(b, 1, k)[i] = b[(1 + i) - 1]
    BY <1>1, PartOf
  <1> QED BY <1>1, <1>2

LEMMA CutBefore ==
  ASSUME NEW T, NEW a \in Seq(T), NEW e \in Seq(T), NEW k \in 0 .. Len(a)
  PROVE  SubSeq(a \o e, 1, k) = SubSeq(a, 1, k)
  <1> DEFINE b == a \o e  x == SubSeq(b, 1, k)  y == SubSeq(a, 1, k)
  <1>1. b \in Seq(T) /\ Len(b) = Len(a) + Len(e) /\ \A i \in 1 .. Len(a) : b[i] = a[i]
    BY ConcatOf
  <1>2. Len(a) \in Nat /\ Len(e) \in Nat
    OBVIOUS
  <1> HIDE DEF b
  <1>3. k \in 0 .. Len(b)
    BY <1>1, <1>2
  <1>4. x \in Seq(T) /\ Len(x) = k /\ \A i \in 1 .. k : x[i] = b[i]
    BY <1>1, <1>3, FrontOf
  <1>5. y \in Seq(T) /\ Len(y) = k /\ \A i \in 1 .. k : y[i] = a[i]
    BY FrontOf
  <1> HIDE DEF x, y
  <1>6. \A i \in 1 .. k : i \in 1 .. Len(a)
    BY <1>2
  <1>7. \A i \in 1 .. Len(x) : x[i] = y[i]
    BY <1>1, <1>4, <1>5, <1>6
  <1>8. x = y
    BY <1>4, <1>5, <1>7, SeqEqual
  <1> QED BY <1>8 DEF x, y, b

LEMMA CutBehind ==
  ASSUME NEW T, NEW a \in Seq(T), NEW e \in Seq(T), NEW j \in 0 .. Len(e)
  PROVE  SubSeq(a \o e, 1, Len(a) + j) = a \o SubSeq(e, 1, j)
  <1> DEFINE m == Len(a)  b == a \o e  x == SubSeq(b, 1, m + j)
  <1>1. /\ b \in Seq(T) /\ Len(b) = m + Len(e) /\ \A i \in 1 .. m : b[i] = a[i]
        /\ \A i \in 1 .. Len(e) : b[m + i] = e[i]
    BY ConcatOf
  <1>2. m \in Nat /\ Len(e) \in Nat
    OBVIOUS
  <1> HIDE DEF b
  <1>3. m + j \in 0 .. Len(b)
    BY <1>1, <1>2
  <1>4. x \in Seq(T) /\ Len(x) = m + j /\ \A i \in 1 .. m + j : x[i] = b[i]
    BY <1>1, <1>3, FrontOf
  <1>5. PICK c \in Seq(T) : c = SubSeq(e, 1, j) /\ Len(c) = j /\ \A i \in 1 .. j : c[i] = e[i]
    <2>1. /\ SubSeq(e, 1, j) \in Seq(T) /\ Len(SubSeq(e, 1, j)) = j
          /\ \A i \in 1 .. j : SubSeq(e, 1, j)[i] = e[i]
      BY FrontOf
    <2> QED BY <2>1
  <1> DEFINE y == a \o c
  <1>6. /\ y \in Seq(T) /\ Len(y) = m + Len(c) /\ \A i \in 1 .. m : y[i] = a[i]
        /\ \A i \in 1 .. Len(c) : y[m + i] = c[i]
    BY <1>5, ConcatOf
  <1> HIDE DEF x, y, m
  <1>7. ASSUME NEW i \in 1 .. Len(x) PROVE x[i] = y[i]
    <2>1. i \in 1 .. m + j
      BY <1>4
    <2>2. CASE i <= m
      <3>1. i \in 1 .. m
        BY <1>2, <2>1, <2>2
      <3> QED BY <1>1, <1>4, <1>6, <2>1, <3>1
    <2>3. CASE ~(i <= m)
      <3>1. PICK n \in 1 .. j : i = m + n
        <4>1. i - m \in 1 .. j /\ i = m + (i - m)
          BY <1>2, <2>1, <2>3
        <4> QED BY <4>1
      <3>2. n \in 1 .. Len(e)
        BY <1>2
      <3> QED BY <1>1, <1>4, <1>5, <1>6, <2>1, <3>1, <3>2
    <2> QED BY <2>2, <2>3
  <1>8. x = y
    BY <1>4, <1>5, <1>6, <1>7, SeqEqual
  <1> QED BY <1>5, <1>8 DEF x, y, b, m

LEMMA BehindOf ==
  ASSUME NEW T, NEW a \in Seq(T), NEW e \in Seq(T)
  PROVE  SubSeq(a \o e, Len(a) + 1, Len(a \o e)) = e
  <1> DEFINE m == Len(a)  b == a \o e  n == Len(b)  x == SubSeq(b, m + 1, n)
  <1>1. /\ b \in Seq(T) /\ n = m + Len(e) /\ \A i \in 1 .. Len(e) : b[m + i] = e[i]
    BY ConcatOf
  <1>2. m \in Nat /\ Len(e) \in Nat
    OBVIOUS
  <1> HIDE DEF b
  <1>3. m + 1 \in 1 .. n + 1 /\ n \in 0 .. n /\ m + 1 <= n + 1 /\ (n - (m + 1)) + 1 = Len(e)
        /\ \A i \in 1 .. Len(e) : ((m + 1) + i) - 1 = m + i
    BY <1>1, <1>2
  <1>4. /\ x \in Seq(T) /\ Len(x) = (n - (m + 1)) + 1
        /\ \A i \in 1 .. (n - (m + 1)) + 1 : x[i] = b[((m + 1) + i) - 1]
    BY <1>1, <1>3, PartOf
  <1> HIDE DEF x, n, m
  <1>5. Len(x) = Len(e) /\ \A i \in 1 .. Len(x) : x[i] = e[i]
    BY <1>1, <1>3, <1>4
  <1>6. x = e
    BY <1>4, <1>5, SeqEqual
  <1> QED BY <1>6 DEF x, n, m, b

LEMMA MiddleOf ==
  ASSUME NEW T, NEW h \in Seq(T), NEW x \in Seq(T), NEW c \in Seq(T)
  PROVE  /\ SubSeq(h \o (x \o c), Len(h) + 1, Len(h) + Len(x)) = x
         /\ SubSeq(h \o (x \o c), (Len(h) + Len(x)) + 1, Len(h \o (x \o c))) = c
  <1>1. (h \o x) \o c = h \o (x \o c)
    BY Associative
  <1>2. PICK g \in Seq(T) : g = h \o x /\ Len(g) = Len(h) + Len(x)
    BY ConcatOf
  <1>3. PICK e \in Seq(T) : e = x \o c /\ Len(e) = Len(x) + Len(c) /\ \A i \in 1 .. Len(x) : e[i] = x[i]
    <2>1. x \o c \in Seq(T) /\ Len(x \o c) = Len(x) + Len(c) /\ \A i \in 1 .. Len(x) : (x \o c)[i] = x[i]
      BY ConcatOf
    <2> QED BY <2>1
  <1>4. PICK b \in Seq(T) : b = h \o e /\ Len(b) = Len(h) + Len(e) /\ \A i \in 1 .. Len(e) : b[Len(h) + i] = e[i]
    <2>1. h \o e \in Seq(T) /\ Len(h \o e) = Len(h) + Len(e) /\ \A i \in 1 .. Len(e) : (h \o e)[Len(h) + i] = e[i]
      BY ConcatOf
    <2> QED BY <2>1
  <1>5. SubSeq(b, (Len(h) + Len(x)) + 1, Len(b)) = c
    <2>1. SubSeq(g \o c, Len(g) + 1, Len(g \o c)) = c
      BY BehindOf
    <2> QED BY <1>1, <1>2, <1>3, <1>4, <2>1
  <1>6. PICK m, n, k \in Nat : m = Len(h) /\ n = Len(x) /\ k = Len(c)
    OBVIOUS
  <1>7. \A i \in 1 .. n : b[m + i] = x[i]
    <2>1. \A i \in 1 .. n : i \in 1 .. n + k
      OBVIOUS
    <2> QED BY <1>3, <1>4, <1>6, <2>1
  <1>8. Len(b) = m + (n + k)
    BY <1>3, <1>4, <1>6
  <1>9. m + 1 \in 1 .. (m + (n + k)) + 1 /\ m + n \in 0 .. m + (n + k) /\ m + 1 <= (m + n) + 1
    OBVIOUS
  <1>10. ((m + n) - (m + 1)) + 1 = n /\ \A i \in 1 .. n : ((m + 1) + i) - 1 = m + i
    OBVIOUS
  <1>11. /\ SubSeq(b, m + 1, m + n) \in Seq(T) /\ Len(SubSeq(b, m + 1, m + n)) = ((m + n) - (m + 1)) + 1
         /\ \A i \in 1 .. ((m + n) - (m + 1)) + 1 : SubSeq(b, m + 1, m + n)[i] = b[((m + 1) + i) - 1]
    BY <1>8, <1>9, PartOf
  <1>12. PICK y \in Seq(T) : y = SubSeq(b, m + 1, m + n) /\ Len(y) = n /\ \A i \in 1 .. n : y[i] = b[m + i]
    <2>1. PICK y : /\ y = SubSeq(b, m + 1, m + n) /\ y \in Seq(T) /\ Len(y) = ((m + n) - (m + 1)) + 1
                   /\ \A i \in 1 .. ((m + n) - (m + 1)) + 1 : y[i] = b[((m + 1) + i) - 1]
      BY <1>11
    <2>2. Len(y) = n /\ \A i \in 1 .. n : y[i] = b[m + i]
      BY <1>10, <2>1
    <2> QED BY <2>1, <2>2
  <1>13. y = x
    <2>1. Len(y) = Len(x) /\ \A i \in 1 .. Len(y) : y[i] = x[i]
      BY <1>6, <1>7, <1>12
    <2> QED BY <2>1, SeqEqual
  <1> QED BY <1>3, <1>4, <1>5, <1>6, <1>12, <1>13

(* Prefixes.                                                                *)
LEMMA PrefixIs ==
  ASSUME NEW T, NEW s \in Seq(T), NEW t \in Seq(T)
  PROVE  IsPrefix(s, t) <=> Len(s) <= Len(t) /\ \A i \in 1 .. Len(s) : s[i] = t[i]
  <1>1. Len(s) \in Nat /\ Len(t) \in Nat /\ SubSeq(s, 1, Len(s)) = s
    BY SubSeqFull
  <1>2. CASE Len(s) <= Len(t)
    <2> DEFINE c == SubSeq(t, 1, Len(s))
    <2>1. Len(s) \in 0 .. Len(t)
      BY <1>1, <1>2
    <2>2. c \in Seq(T) /\ Len(c) = Len(s) /\ \A i \in 1 .. Len(s) : c[i] = t[i]
      BY <2>1, FrontOf
    <2>3. IsPrefix(s, t) <=> s = c
      BY <1>1, <1>2 DEF IsPrefix
    <2> HIDE DEF c
    <2>4. (\A i \in 1 .. Len(s) : s[i] = c[i]) => s = c
      BY <2>2, SeqEqual
    <2> QED BY <1>2, <2>2, <2>3, <2>4
  <1>3. CASE ~(Len(s) <= Len(t))
    BY <1>3 DEF IsPrefix
  <1> QED BY <1>2, <1>3

LEMMA PrefixInFront ==
  ASSUME NEW T, NEW s \in Seq(T), NEW t \in Seq(T), NEW x \in T, IsPrefix(s, t)
  PROVE  IsPrefix(<<x>> \o s, <<x>> \o t)
  <1> DEFINE p == <<x>> \o s  q == <<x>> \o t
  <1>1. Len(s) <= Len(t) /\ \A i \in 1 .. Len(s) : s[i] = t[i]
    BY PrefixIs
  <1>2. /\ p \in Seq(T) /\ Len(p) = Len(s) + 1 /\ Len(s) \in Nat /\ p[1] = x
        /\ \A k \in 2 .. Len(s) + 1 : k - 1 \in 1 .. Len(s) /\ p[k] = s[k - 1]
    BY OneInFront
  <1>3. /\ q \in Seq(T) /\ Len(q) = Len(t) + 1 /\ Len(t) \in Nat /\ q[1] = x
        /\ \A k \in 2 .. Len(t) + 1 : k - 1 \in 1 .. Len(t) /\ q[k] = t[k - 1]
    BY OneInFront
  <1> HIDE DEF p, q
  <1>4. ASSUME NEW k \in 1 .. Len(p) PROVE p[k] = q[k]
    <2>1. CASE k = 1
      BY <1>2, <1>3, <2>1
    <2>2. CASE k # 1
      <3>1. k \in 2 .. Len(s) + 1 /\ k \in 2 .. Len(t) + 1
        BY <1>1, <1>2, <1>3, <2>2
      <3> QED BY <1>1, <1>2, <1>3, <3>1
    <2> QED BY <2>1, <2>2
  <1>5. Len(p) <= Len(q)
    BY <1>1, <1>2, <1>3
  <1>6. IsPrefix(p, q)
    BY <1>2, <1>3, <1>4, <1>5, PrefixIs
  <1> QED BY <1>6 DEF p, q

LEMMA NothingIsPrefix == ASSUME NEW T, NEW t \in Seq(T) PROVE IsPrefix(<<>>, t)
  <1>1. <<>> \in Seq(T) /\ Len(<<>>) = 0 /\ Len(t) \in Nat
    OBVIOUS
  <1>2. PICK e \in Seq(T) : e = <<>> /\ Len(e) = 0
    BY <1>1
  <1>3. Len(e) <= Len(t) /\ \A i \in 1 .. Len(e) : e[i] = t[i]
    BY <1>1, <1>2
  <1>4. IsPrefix(e, t)
    BY <1>3, PrefixIs
  <1> QED BY <1>2, <1>4

LEMMA FrontIsPrefix ==
  ASSUME NEW T, NEW t \in Seq(T), NEW n \in 0 .. Len(t)
  PROVE  IsPrefix(SubSeq(t, 1, n), t)
  <1>1. /\ SubSeq(t, 1, n) \in Seq(T) /\ Len(SubSeq(t, 1, n)) = n
        /\ \A i \in 1 .. n : SubSeq(t, 1, n)[i] = t[i]
    BY FrontOf
  <1>2. n <= Len(t)
    OBVIOUS
  <1> QED BY <1>1, <1>2, PrefixIs

-----------------------------------------------------------------------------
(* decode() takes the first frame off a buffer and goes on with the rest.   *)

LEMMA RestOfRest ==
  ASSUME NEW b \in Seq(Byte), NEW k \in 0 .. Len(b), NEW p \in 0 .. Len(b) - k
  PROVE  /\ Rest(Rest(b, k), p) = Rest(b, p + k) /\ p + k \in 0 .. Len(b)
         /\ p = Len(Rest(b, k)) <=> p + k = Len(b)
  <1>1. PICK c \in Seq(Byte) : /\ c = Rest(b, k) /\ Len(c) = Len(b) - k
                               /\ \A i \in 1 .. Len(b) - k : c[i] = b[k + i]
    BY RestOf
  <1>2. Len(b) \in Nat /\ p \in 0 .. Len(c) /\ p + k \in 0 .. Len(b)
    BY <1>1
  <1>3. PICK x \in Seq(Byte) : /\ x = Rest(c, p) /\ Len(x) = Len(c) - p
                               /\ \A i \in 1 .. Len(c) - p : x[i] = c[p + i]
    BY <1>2, RestOf
  <1>4. PICK y \in Seq(Byte) : /\ y = Rest(b, p + k) /\ Len(y) = Len(b) - (p + k)
                               /\ \A i \in 1 .. Len(b) - (p + k) : y[i] = b[(p + k) + i]
    BY <1>2, RestOf
  <1>5. PICK n \in Nat : n = (Len(b) - k) - p /\ Len(x) = n /\ Len(y) = n
    <2>1. \A l, u, v \in Int : (l - u) - v = l - (v + u)
      OBVIOUS
    <2>2. (Len(b) - k) - p \in Nat
      BY <1>2
    <2>3. Len(x) = (Len(b) - k) - p
      BY <1>1, <1>3
    <2>4. (Len(b) - k) - p = Len(b) - (p + k)
      <3>1. Len(b) \in Int /\ k \in Int /\ p \in Int
        BY <1>2
      <3> QED BY <2>1, <3>1
    <2>5. Len(y) = (Len(b) - k) - p
      BY <1>4, <2>4
    <2> QED BY <2>2, <2>3, <2>5
  <1>6. ASSUME NEW i \in 1 .. n PROVE x[i] = y[i]
    <2>1. \A l \in Nat : n = (l - k) - p => p + i \in 1 .. l - k
      OBVIOUS
    <2>2. k + (p + i) = (p + k) + i
      OBVIOUS
    <2>3. p + i \in 1 .. Len(b) - k
      BY <1>2, <1>5, <2>1
    <2>4. b[k + (p + i)] = c[p + i]
      BY <1>1, <2>3
    <2>5. x[i] = c[p + i]
      BY <1>1, <1>3, <1>5
    <2>6. y[i] = b[(p + k) + i]
      <3>1. Len(b) - (p + k) = n
        BY <1>4, <1>5
      <3> QED BY <1>4, <3>1
    <2> QED BY <2>2, <2>4, <2>5, <2>6
  <1>7. x = y
    BY <1>5, <1>6, SeqEqual
  <1>8. p = Len(c) <=> p + k = Len(b)
    BY <1>1, <1>2
  <1> QED BY <1>1, <1>2, <1>3, <1>4, <1>7, <1>8

LEMMA DecodeRest ==
  ASSUME NEW b \in Seq(Byte), NEW f, Decodes(b, f), NEW k \in 0 .. Len(b)
  PROVE  Decode(Rest(b, k)) = f[k]
  <1>1. PICK c \in Seq(Byte) : c = Rest(b, k) /\ Len(c) = Len(b) - k
    BY RestOf
  <1>2. Len(b) \in Nat /\ Len(c) \in Nat
    BY <1>1
  <1> DEFINE n == Len(c)
             g == [p \in 0 .. n |-> f[p + k]]
  <1>3. \A p \in 0 .. n : Rest(c, p) = Rest(b, p + k) /\ p + k \in 0 .. Len(b) /\ (p = n <=> p + k = Len(b))
    BY <1>1, RestOfRest
  <1>4. f \in [0 .. Len(b) -> Decoded] /\ \A p \in 0 .. Len(b) : f[p] = DecodeStep(b, p, f)
    BY DEF Decodes
  <1>5. g \in [0 .. n -> Decoded] /\ \A p \in 0 .. n : g[p] = f[p + k]
    BY <1>3, <1>4
  <1> HIDE DEF g
  <1>6. ASSUME NEW p \in 0 .. n PROVE g[p] = DecodeStep(c, p, g)
    <2>1. g[p] = DecodeStep(b, p + k, f) /\ Rest(c, p) = Rest(b, p + k) /\ (p = n <=> p + k = Len(b))
      BY <1>3, <1>4, <1>5
    <2>2. ASSUME p # n, ReadHeader(Rest(c, p)).verdict = "ok"
          PROVE  g[p + FrameEnd(Rest(c, p))] = f[(p + k) + FrameEnd(Rest(c, p))]
      <3>1. p + FrameEnd(Rest(c, p)) \in 0 .. n
        BY <1>5, <2>2, DecodeStepOf
      <3>2. FrameEnd(Rest(c, p)) \in Int
        <4>1. Rest(c, p) \in Seq(Byte) /\ Rest(c, p) # <<>> /\ Len(Rest(c, p)) \in Nat
          <5>1. Rest(c, p) \in Seq(Byte) /\ (p < n => Rest(c, p) # <<>>)
            BY RestOf
          <5>2. p < n
            BY <1>2, <2>2
          <5> QED BY <5>1, <5>2
        <4> QED BY <2>2, <4>1, FirstFrameOf
      <3>3. (p + FrameEnd(Rest(c, p))) + k = (p + k) + FrameEnd(Rest(c, p))
        BY <3>2
      <3> QED BY <1>5, <3>1, <3>3
    <2>3. CASE p # n /\ ReadHeader(Rest(c, p)).verdict = "ok"
      <3>1. DecodeStep(b, p + k, f) = Before(f[(p + k) + FrameEnd(Rest(c, p))], FirstFrame(Rest(c, p)))
        BY <2>1, <2>3 DEF DecodeStep
      <3>2. DecodeStep(c, p, g) = Before(g[p + FrameEnd(Rest(c, p))], FirstFrame(Rest(c, p)))
        BY <2>3 DEF DecodeStep
      <3> QED BY <2>1, <2>2, <2>3, <3>1, <3>2
    <2>4. CASE ~(p # n /\ ReadHeader(Rest(c, p)).verdict = "ok")
      BY <2>1, <2>4 DEF DecodeStep
    <2> QED BY <2>3, <2>4
  <1>7. Decodes(c, g)
    BY <1>5, <1>6 DEF Decodes
  <1>8. Decode(c) = g[0]
    BY <1>7, DecodeIs
  <1>9. g[0] = f[k]
    <2>1. 0 \in 0 .. n /\ 0 + k = k
      BY <1>2
    <2> QED BY <1>5, <2>1
  <1> QED BY <1>1, <1>8, <1>9

LEMMA DecodeFrom ==
  ASSUME NEW b \in Seq(Byte)
  PROVE  /\ b = <<>> => Decode(b) = NothingFound("ok")
         /\ b # <<>> /\ ReadHeader(b).verdict # "ok" => Decode(b) = NothingFound(ReadHeader(b).verdict)
         /\ b # <<>> /\ ReadHeader(b).verdict = "ok" =>
              Decode(b) = Before(Decode(Rest(b, FrameEnd(b))), FirstFrame(b))
  <1>1. PICK f : Decodes(b, f)
    BY DecodeHasSteps
  <1>2. Len(b) \in Nat /\ 0 \in 0 .. Len(b) /\ (b = <<>> <=> 0 = Len(b))
    OBVIOUS
  <1>3. Decode(b) = DecodeStep(b, 0, f)
    BY <1>1, <1>2, DecodeIs DEF Decodes
  <1>4. Rest(b, 0) = b
    <2>1. 0 + 1 = 1
      OBVIOUS
    <2> QED BY <2>1, SubSeqFull DEF Rest
  <1>5. DecodeStep(b, 0, f) = IF 0 = Len(b) THEN NothingFound("ok")
                              ELSE IF ReadHeader(b).verdict # "ok" THEN NothingFound(ReadHeader(b).verdict)
                              ELSE Before(f[0 + FrameEnd(b)], FirstFrame(b))
    BY <1>4 DEF DecodeStep
  <1>6. ASSUME b # <<>>, ReadHeader(b).verdict = "ok" PROVE f[0 + FrameEnd(b)] = Decode(Rest(b, FrameEnd(b)))
    <2>1. FrameEnd(b) \in 1 .. Len(b)
      BY <1>6, FirstFrameOf
    <2>2. FrameEnd(b) \in 0 .. Len(b) /\ 0 + FrameEnd(b) = FrameEnd(b)
      BY <1>2, <2>1
    <2> QED BY <1>1, <2>2, DecodeRest
  <1> QED BY <1>2, <1>3, <1>5, <1>6

-----------------------------------------------------------------------------
(* The encoding of a list is that of its first frame and that of the rest.  *)

LEMMA EncodeFront ==
  ASSUME NEW x \in Small, NEW q \in Seq(Small)
  PROVE  Encode(<<x>> \o q) = Piece(x) \o Encode(q)
  <1>1. PICK r \in Seq(Small) :
          /\ r = <<x>> \o q /\ Len(r) = Len(q) + 1 /\ Len(q) \in Nat /\ r[1] = x
          /\ \A k \in 2 .. Len(q) + 1 : k - 1 \in 1 .. Len(q) /\ r[k] = q[k - 1]
    <2>1. /\ <<x>> \o q \in Seq(Small) /\ Len(<<x>> \o q) = Len(q) + 1 /\ Len(q) \in Nat /\ (<<x>> \o q)[1] = x
          /\ \A k \in 2 .. Len(q) + 1 : k - 1 \in 1 .. Len(q) /\ (<<x>> \o q)[k] = q[k - 1]
      BY OneInFront
    <2> QED BY <2>1
  <1> DEFINE X == Seq(Byte)
  <1>2. PICK qs : qs \in Seq(X) /\ qs = [i \in DOMAIN q |-> Piece(q[i])] /\ Encode(q) = FlattenSeq(qs)
    BY PiecesOf
  <1>3. PICK rs : rs \in Seq(X) /\ rs = [i \in DOMAIN r |-> Piece(r[i])] /\ Encode(r) = FlattenSeq(rs)
    BY PiecesOf
  <1>4. DOMAIN q = 1 .. Len(q) /\ DOMAIN r = 1 .. Len(r) /\ Piece(x) \in X
    BY PieceBytes
  <1> HIDE DEF X
  <1>5. /\ Len(qs) = Len(q) /\ \A i \in 1 .. Len(q) : qs[i] = Piece(q[i])
        /\ Len(rs) = Len(r) /\ \A i \in 1 .. Len(r) : rs[i] = Piece(r[i])
    <2>1. DOMAIN qs = 1 .. Len(q) /\ DOMAIN rs = 1 .. Len(r)
      BY <1>2, <1>3, <1>4
    <2>2. DOMAIN qs = 1 .. Len(qs) /\ DOMAIN rs = 1 .. Len(rs) /\ Len(qs) \in Nat /\ Len(rs) \in Nat
      BY <1>2, <1>3
    <2>3. \A m, n \in Nat : 1 .. m = 1 .. n => m = n
      <3> SUFFICES ASSUME NEW m \in Nat, NEW n \in Nat, 1 .. m = 1 .. n PROVE m = n
        OBVIOUS
      <3>1. m # 0 => m \in 1 .. n
        OBVIOUS
      <3>2. n # 0 => n \in 1 .. m
        OBVIOUS
      <3> QED BY <3>1, <3>2
    <2>4. Len(qs) = Len(q) /\ Len(rs) = Len(r)
      BY <1>1, <2>1, <2>2, <2>3
    <2> QED BY <1>2, <1>3, <1>4, <2>4
  <1>6. PICK s : /\ s = <<Piece(x)>> \o qs /\ s \in Seq(X) /\ Len(s) = Len(qs) + 1 /\ s[1] = Piece(x)
                 /\ \A k \in 2 .. Len(qs) + 1 : k - 1 \in 1 .. Len(qs) /\ s[k] = qs[k - 1]
    <2>1. /\ <<Piece(x)>> \o qs \in Seq(X) /\ Len(<<Piece(x)>> \o qs) = Len(qs) + 1
          /\ (<<Piece(x)>> \o qs)[1] = Piece(x)
          /\ \A k \in 2 .. Len(qs) + 1 : k - 1 \in 1 .. Len(qs) /\ (<<Piece(x)>> \o qs)[k] = qs[k - 1]
      BY <1>2, <1>4, OneInFront
    <2> QED BY <2>1
  <1>7. ASSUME NEW k \in 1 .. Len(s) PROVE s[k] = rs[k]
    <2>1. CASE k = 1
      BY <1>1, <1>5, <1>6, <2>1
    <2>2. CASE k # 1
      <3>1. k \in 2 .. Len(q) + 1 /\ k \in 1 .. Len(r)
        BY <1>1, <1>5, <1>6, <2>2
      <3>2. k - 1 \in 1 .. Len(q) /\ r[k] = q[k - 1] /\ s[k] = qs[k - 1]
        BY <1>1, <1>5, <1>6, <3>1
      <3> QED BY <1>5, <3>1, <3>2
    <2> QED BY <2>1, <2>2
  <1>8. s = rs
    <2>1. Len(s) = Len(rs)
      BY <1>1, <1>5, <1>6
    <2> QED BY <1>3, <1>6, <1>7, <2>1, SeqEqual
  <1>9. FlattenSeq(<<Piece(x)>> \o qs) = Piece(x) \o FlattenSeq(qs)
    BY <1>2, <1>4, FlattenFront DEF X
  <1> QED BY <1>1, <1>2, <1>3, <1>6, <1>8, <1>9

LEMMA EncodeNone == Encode(<<>>) = <<>>
  <1>1. <<>> \in Seq(Small) /\ DOMAIN <<>> = {}
    OBVIOUS
  <1>2. [i \in DOMAIN <<>> |-> Piece(<<>>[i])] = <<>>
    OBVIOUS
  <1>3. Encode(<<>>) = FlattenSeq([i \in DOMAIN <<>> |-> Piece(<<>>[i])])
    BY <1>1, PiecesOf
  <1> QED BY <1>2, <1>3, FlattenNone

(* A header that is cut is found out.                                       *)
LEMMA HeaderCut ==
  ASSUME NEW n \in 0 .. (Long \div 2) - 1, NEW k \in 1 .. Len(Header(n)) - 1
  PROVE  ReadHeader(SubSeq(Header(n), 1, k)).verdict = "malformed"
  <1>1. Header(n) \in Seq(Byte) /\ Len(Header(n)) \in {1, 5}
    BY HeaderBytes
  <1>2. Len(Header(n)) = 5 /\ k \in 1 .. 4
    <2>1. \A l \in {1, 5} : \A j \in 1 .. l - 1 : l = 5 /\ j \in 1 .. 4
      OBVIOUS
    <2> QED BY <1>1, <2>1
  <1>3. Header(n)[1] = Marker
    <2>1. CASE n < Marker
      <3>1. Header(n) = <<n>>
        BY <2>1 DEF Header
      <3>2. Len(Header(n)) = 1
        BY <3>1
      <3> QED BY <1>2, <3>2
    <2>2. CASE ~(n < Marker)
      <3>1. Header(n) = <<Marker>> \o Put4(n)
        BY <2>2 DEF Header
      <3>2. PICK w, x, y, z \in Byte : Put4(n) = <<w, x, y, z>>
        <4>1. Long \in Nat
          BY Sizes
        <4>2. \A m \in Nat : \A j \in 0 .. (m \div 2) - 1 : j \in 0 .. m - 1
          OBVIOUS
        <4>3. n \in 0 .. Long - 1
          BY <4>1, <4>2
        <4> QED BY <4>3, FourBytes
      <3>3. <<w, x, y, z>> \in Seq(Byte)
        <4> HIDE DEF Byte
        <4> QED OBVIOUS
      <3>4. Put4(n) \in Seq(Byte) /\ Marker \in Byte
        BY <3>2, <3>3, Sizes DEF Marker, Byte
      <3>5. (<<Marker>> \o Put4(n))[1] = Marker
        BY <3>4, OneInFront
      <3> QED BY <3>1, <3>5
    <2> QED BY <2>1, <2>2
  <1>4. PICK b \in Seq(Byte) : b = SubSeq(Header(n), 1, k) /\ Len(b) = k /\ \A i \in 1 .. k : b[i] = Header(n)[i]
    <2>1. k \in 0 .. Len(Header(n))
      BY <1>2
    <2>2. /\ SubSeq(Header(n), 1, k) \in Seq(Byte) /\ Len(SubSeq(Header(n), 1, k)) = k
          /\ \A i \in 1 .. k : SubSeq(Header(n), 1, k)[i] = Header(n)[i]
      BY <1>1, <2>1, FrontOf
    <2> QED BY <2>2
  <1>5. b[1] = Marker /\ ~(5 <= Len(b))
    <2>1. 1 \in 1 .. k
      BY <1>2
    <2> QED BY <1>2, <1>3, <1>4, <2>1
  <1>6. ReadHeader(b).verdict = "malformed"
    BY <1>5 DEF ReadHeader, Holds
  <1> QED BY <1>4, <1>6

-----------------------------------------------------------------------------
(* decode() of an encoding that may be cut.                                 *)

FoundOf(d, q) ==
  \/ d.verdict = "ok" /\ IsPrefix(d.frames, q)
  \/ d.verdict = "malformed"

CodecOf(q) ==
  \A k \in 0 .. Len(Encode(q)) :
    /\ FoundOf(Decode(SubSeq(Encode(q), 1, k)), q)
    /\ k = Len(Encode(q)) => Decode(Encode(q)).verdict = "ok" /\ Decode(Encode(q)).frames = q

LEMMA CodecNone == CodecOf(<<>>)
  <1>1. PICK e \in Seq(Byte) : e = <<>> /\ Len(e) = 0
    <2>1. <<>> \in Seq(Byte) /\ Len(<<>>) = 0
      OBVIOUS
    <2> QED BY <2>1
  <1>2. Encode(<<>>) = e
    BY <1>1, EncodeNone
  <1>3. SubSeq(e, 1, 0) = e
    BY <1>1, SubSeqFull
  <1>4. Decode(e) = NothingFound("ok")
    BY <1>1, DecodeFrom
  <1>5. Decode(e).verdict = "ok" /\ Decode(e).frames = <<>>
    BY <1>4, NothingFoundOf
  <1>6. IsPrefix(<<>>, <<>>)
    <2>1. <<>> \in Seq(Byte)
      OBVIOUS
    <2> QED BY <2>1, NothingIsPrefix
  <1>7. \A k \in 0 .. 0 : k = 0
    OBVIOUS
  <1> QED BY <1>1, <1>2, <1>3, <1>5, <1>6, <1>7 DEF CodecOf, FoundOf

LEMMA HeaderLonger == \A l \in {1, 5} : l \in Nat /\ l > 0 /\ \A k \in Nat : l + k # 0
  OBVIOUS

(* A buffer that starts with a whole frame.                                 *)
LEMMA DecodePiece ==
  ASSUME NEW x \in Small, NEW c \in Seq(Byte)
  PROVE  /\ Header(Len(x)) \o (x \o c) \in Seq(Byte)
         /\ Decode(Header(Len(x)) \o (x \o c)) = Before(Decode(c), x)
  <1>1. Len(x) \in 0 .. (Long \div 2) - 1 /\ x \in Seq(Byte) /\ Len(x) \in Nat
    BY SmallOf
  <1>2. PICK h \in Seq(Byte) : h = Header(Len(x)) /\ Len(h) \in {1, 5}
    BY <1>1, HeaderBytes
  <1>3. PICK r \in Seq(Byte) : r = x \o c /\ Len(r) = Len(x) + Len(c)
    <2>1. x \o c \in Seq(Byte) /\ Len(x \o c) = Len(x) + Len(c)
      BY <1>1, ConcatOf
    <2> QED BY <2>1
  <1>4. PICK b \in Seq(Byte) : b = h \o r /\ Len(b) = Len(h) + Len(r)
    <2>1. h \o r \in Seq(Byte) /\ Len(h \o r) = Len(h) + Len(r)
      BY ConcatOf
    <2> QED BY <2>1
  <1>5. Len(c) \in Nat /\ Len(r) \in Nat /\ Len(r) >= Len(x)
    BY <1>1, <1>3
  <1>6. ReadHeader(b).size = Len(x) /\ ReadHeader(b).head = Len(h) /\ ReadHeader(b).verdict = "ok"
    <2>1. /\ ReadHeader(Header(Len(x)) \o r).size = Len(x)
          /\ ReadHeader(Header(Len(x)) \o r).head = Len(Header(Len(x)))
          /\ ReadHeader(Header(Len(x)) \o r).verdict = IF Len(r) >= Len(x) THEN "ok" ELSE "malformed"
      BY <1>1, HeaderRoundTrip
    <2> QED BY <1>2, <1>4, <1>5, <2>1
  <1>7. b # <<>>
    <2>1. Len(b) # 0
      BY <1>2, <1>4, <1>5, HeaderLonger
    <2> QED BY <2>1
  <1>8. FirstFrame(b) = x /\ Rest(b, FrameEnd(b)) = c
    <2>1. /\ SubSeq(h \o (x \o c), Len(h) + 1, Len(h) + Len(x)) = x
          /\ SubSeq(h \o (x \o c), (Len(h) + Len(x)) + 1, Len(h \o (x \o c))) = c
      <3>1. PICK y \in Seq(Byte) : y = x
        BY <1>1
      <3>2. /\ SubSeq(h \o (y \o c), Len(h) + 1, Len(h) + Len(y)) = y
            /\ SubSeq(h \o (y \o c), (Len(h) + Len(y)) + 1, Len(h \o (y \o c))) = c
        BY MiddleOf, SMTT(30)
      <3> QED BY <3>1, <3>2
    <2> QED BY <1>3, <1>4, <1>6, <2>1 DEF FirstFrame, FrameEnd, Rest
  <1>9. Decode(b) = Before(Decode(c), x)
    BY <1>6, <1>7, <1>8, DecodeFrom
  <1> QED BY <1>2, <1>3, <1>4, <1>9

(* One that starts with a part of a frame.                                  *)
LEMMA DecodeCutPiece ==
  ASSUME NEW x \in Small, NEW r \in Seq(Byte), Len(r) < Len(x)
  PROVE  Decode(Header(Len(x)) \o r) = NothingFound("malformed")
  <1>1. Len(x) \in 0 .. (Long \div 2) - 1 /\ x \in Seq(Byte) /\ Len(x) \in Nat
    BY SmallOf
  <1>2. PICK h \in Seq(Byte) : h = Header(Len(x)) /\ Len(h) \in {1, 5}
    BY <1>1, HeaderBytes
  <1>3. PICK b \in Seq(Byte) : b = h \o r /\ Len(b) = Len(h) + Len(r)
    <2>1. h \o r \in Seq(Byte) /\ Len(h \o r) = Len(h) + Len(r)
      BY ConcatOf
    <2> QED BY <2>1
  <1>4. ReadHeader(b).verdict = "malformed"
    <2>1. ReadHeader(Header(Len(x)) \o r).verdict = IF Len(r) >= Len(x) THEN "ok" ELSE "malformed"
      BY <1>1, HeaderRoundTrip
    <2>2. ~(Len(r) >= Len(x))
      BY <1>1
    <2> QED BY <1>2, <1>3, <2>1, <2>2
  <1>5. b # <<>>
    <2>1. Len(r) \in Nat
      OBVIOUS
    <2>2. Len(b) # 0
      BY <1>2, <1>3, <2>1, HeaderLonger
    <2> QED BY <2>2
  <1>6. Decode(b) = NothingFound("malformed")
    BY <1>4, <1>5, DecodeFrom
  <1> QED BY <1>2, <1>3, <1>6

LEMMA PieceThen ==
  ASSUME NEW x \in Small, NEW e \in Seq(Byte)
  PROVE  Piece(x) \o e = Header(Len(x)) \o (x \o e)
  <1>1. PICK y \in Seq(Byte) : y = x
    BY SmallOf
  <1>2. PICK h \in Seq(Byte) : h = Header(Len(x))
    BY SmallOf, HeaderBytes
  <1>3. \A u, v, w \in Seq(Byte) : (u \o v) \o w = u \o (v \o w)
    BY Associative, SMTT(30)
  <1>4. (h \o y) \o e = h \o (y \o e)
    BY <1>3, Zenon
  <1> QED BY <1>1, <1>2, <1>4 DEF Piece

LEMMA CodecFront ==
  ASSUME NEW x \in Small, NEW q \in Seq(Small), CodecOf(q)
  PROVE  CodecOf(<<x>> \o q)
  <1>1. Len(x) \in 0 .. (Long \div 2) - 1 /\ x \in Seq(Byte) /\ Len(x) \in Nat
    BY SmallOf
  <1>2. PICK h \in Seq(Byte) : h = Header(Len(x)) /\ Len(h) \in {1, 5}
    BY <1>1, HeaderBytes
  <1>3. PICK e \in Seq(Byte) : e = Encode(q)
    BY EncodeBytes
  <1>4. PICK t \in Seq(Byte) : t = x \o e /\ Len(t) = Len(x) + Len(e)
    <2>1. x \o e \in Seq(Byte) /\ Len(x \o e) = Len(x) + Len(e)
      BY <1>1, ConcatOf
    <2> QED BY <2>1
  <1>5. PICK a \in Seq(Byte) : a = h \o t /\ Len(a) = Len(h) + Len(t)
    <2>1. h \o t \in Seq(Byte) /\ Len(h \o t) = Len(h) + Len(t)
      BY ConcatOf
    <2> QED BY <2>1
  <1>6. PICK r \in Seq(Small) : r = <<x>> \o q
    <2>1. <<x>> \o q \in Seq(Small)
      BY OneInFront
    <2> QED BY <2>1
  <1>7. Encode(r) = a
    <2>1. Encode(r) = Piece(x) \o e
      BY <1>3, <1>6, EncodeFront
    <2>2. Piece(x) \o e = h \o (x \o e)
      BY <1>2, PieceThen
    <2> QED BY <1>4, <1>5, <2>1, <2>2
  <1>8. Len(e) \in Nat /\ Len(a) = Len(h) + (Len(x) + Len(e)) /\ Len(h) \in Nat /\ Len(h) > 0
    <2>1. Len(h) \in Nat /\ Len(h) > 0
      BY <1>2, HeaderLonger
    <2>2. Len(e) \in Nat
      OBVIOUS
    <2> QED BY <1>4, <1>5, <2>1, <2>2
  (* As it stands after j bytes of the rest.                                *)
  <1>9. ASSUME NEW j \in 0 .. Len(e)
        PROVE  /\ FoundOf(Before(Decode(SubSeq(e, 1, j)), x), r)
               /\ j = Len(e) => /\ Before(Decode(e), x).verdict = "ok"
                                /\ Before(Decode(e), x).frames = r
    <2>1. PICK d \in Decoded : d = Decode(SubSeq(e, 1, j))
      <3>1. SubSeq(e, 1, j) \in Seq(Byte)
        BY FrontOf
      <3> QED BY <3>1, DecodeType
    <2>2. FoundOf(d, q)
      BY <1>3, <2>1 DEF CodecOf
    <2>3. FoundOf(Before(d, x), r)
      <3>1. CASE d.verdict = "malformed"
        <4>1. Before(d, x).verdict = "malformed"
          BY <3>1, BeforeOf
        <4> QED BY <4>1 DEF FoundOf
      <3>2. CASE d.verdict = "ok" /\ IsPrefix(d.frames, q)
        <4>1. Before(d, x).verdict = "ok" /\ Before(d, x).frames = <<x>> \o d.frames
          BY <3>2, BeforeOf
        <4>2. d.frames \in Seq(Small)
          BY DEF Decoded
        <4>3. IsPrefix(<<x>> \o d.frames, <<x>> \o q)
          BY <3>2, <4>2, PrefixInFront
        <4> QED BY <1>6, <4>1, <4>3 DEF FoundOf
      <3> QED BY <2>2, <3>1, <3>2 DEF FoundOf
    <2>4. ASSUME j = Len(e) PROVE Before(Decode(e), x).verdict = "ok" /\ Before(Decode(e), x).frames = r
      <3>1. PICK g \in Decoded : g = Decode(e) /\ g.verdict = "ok" /\ g.frames = q
        <4>1. Decode(e) \in Decoded
          BY DecodeType
        <4>2. Decode(e).verdict = "ok" /\ Decode(e).frames = q
          BY <1>3, <2>4 DEF CodecOf
        <4> QED BY <4>1, <4>2
      <3>2. Before(g, x).verdict = "ok" /\ Before(g, x).frames = <<x>> \o q
        BY <3>1, BeforeOf
      <3> QED BY <1>6, <3>1, <3>2
    <2> QED BY <2>1, <2>3, <2>4
  <1>10. ASSUME NEW k \in 0 .. Len(a)
         PROVE  /\ FoundOf(Decode(SubSeq(a, 1, k)), r)
                /\ k = Len(a) => Decode(a).verdict = "ok" /\ Decode(a).frames = r
    <2>1. CASE k = 0
      <3>1. SubSeq(a, 1, 0) = <<>>
        BY SubSeqEmpty
      <3>2. <<>> \in Seq(Byte)
        OBVIOUS
      <3>3. Decode(<<>>) = NothingFound("ok")
        BY <3>2, DecodeFrom
      <3>4. Decode(<<>>).verdict = "ok" /\ Decode(<<>>).frames = <<>>
        BY <3>3, NothingFoundOf
      <3>5. IsPrefix(<<>>, r)
        BY NothingIsPrefix
      <3>6. k # Len(a)
        BY <1>1, <1>8, <2>1
      <3> QED BY <2>1, <3>1, <3>4, <3>5, <3>6 DEF FoundOf
    <2>2. CASE k # 0 /\ k < Len(h)
      <3>1. k \in 0 .. Len(h) /\ k \in 1 .. Len(h) - 1 /\ k # Len(a)
        BY <1>1, <1>8, <2>2
      <3>2. SubSeq(a, 1, k) = SubSeq(h, 1, k)
        BY <1>5, <3>1, CutBefore
      <3>3. ReadHeader(SubSeq(h, 1, k)).verdict = "malformed"
        BY <1>1, <1>2, <3>1, HeaderCut
      <3>4. PICK b \in Seq(Byte) : b = SubSeq(h, 1, k) /\ Len(b) = k
        <4>1. SubSeq(h, 1, k) \in Seq(Byte) /\ Len(SubSeq(h, 1, k)) = k
          BY <3>1, FrontOf
        <4> QED BY <4>1
      <3>5. b # <<>>
        BY <2>2, <3>4
      <3>6. Decode(b) = NothingFound("malformed")
        BY <3>3, <3>4, <3>5, DecodeFrom
      <3>7. Decode(b).verdict = "malformed"
        BY <3>6, NothingFoundOf
      <3> QED BY <3>1, <3>2, <3>4, <3>7 DEF FoundOf
    <2>3. CASE k >= Len(h) /\ k < Len(h) + Len(x)
      <3>1. PICK i \in Nat : i = k - Len(h) /\ i < Len(x) /\ k = Len(h) + i /\ i \in 0 .. Len(t) /\ k # Len(a)
        <4>1. k - Len(h) \in Nat /\ k - Len(h) < Len(x) /\ k = Len(h) + (k - Len(h)) /\ k # Len(a)
          BY <1>1, <1>8, <2>3
        <4>2. k - Len(h) \in 0 .. Len(t)
          BY <1>1, <1>4, <1>8, <4>1
        <4> QED BY <4>1, <4>2
      <3>2. SubSeq(a, 1, k) = h \o SubSeq(t, 1, i)
        BY <1>5, <3>1, CutBehind
      <3>3. SubSeq(t, 1, i) \in Seq(Byte) /\ Len(SubSeq(t, 1, i)) < Len(x)
        BY <3>1, FrontOf
      <3>4. Decode(h \o SubSeq(t, 1, i)) = NothingFound("malformed")
        BY <1>2, <3>3, DecodeCutPiece
      <3>5. NothingFound("malformed").verdict = "malformed"
        BY NothingFoundOf
      <3> QED BY <3>1, <3>2, <3>4, <3>5 DEF FoundOf
    <2>4. CASE k >= Len(h) + Len(x)
      <3>1. PICK j \in 0 .. Len(e) : k = Len(h) + (Len(x) + j) /\ Len(x) + j \in 0 .. Len(t) /\ (k = Len(a) => j = Len(e))
        <4> DEFINE j == k - (Len(h) + Len(x))
        <4>1. j \in 0 .. Len(e) /\ k = Len(h) + (Len(x) + j) /\ (k = Len(a) => j = Len(e))
          BY <1>1, <1>8, <2>4
        <4>2. Len(x) + j \in 0 .. Len(t)
          BY <1>1, <1>4, <1>8, <4>1
        <4> QED BY <4>1, <4>2
      <3>2. SubSeq(a, 1, k) = h \o SubSeq(t, 1, Len(x) + j)
        <4>1. PICK i \in 0 .. Len(t) : i = Len(x) + j
          BY <3>1
        <4>2. SubSeq(h \o t, 1, Len(h) + i) = h \o SubSeq(t, 1, i)
          BY <1>5, CutBehind, SMTT(30)
        <4> QED BY <1>5, <3>1, <4>1, <4>2
      <3>3. SubSeq(t, 1, Len(x) + j) = x \o SubSeq(e, 1, j)
        BY <1>1, <1>4, CutBehind
      <3>4. PICK c \in Seq(Byte) : c = SubSeq(e, 1, j)
        <4>1. SubSeq(e, 1, j) \in Seq(Byte)
          BY FrontOf
        <4> QED BY <4>1
      <3>5. Decode(h \o (x \o c)) = Before(Decode(c), x)
        BY <1>2, DecodePiece
      <3>6. Decode(h \o (x \o e)) = Before(Decode(e), x)
        BY <1>2, DecodePiece
      <3>7. Decode(SubSeq(a, 1, k)) = Before(Decode(SubSeq(e, 1, j)), x)
        BY <3>2, <3>3, <3>4, <3>5
      <3>8. Decode(a) = Before(Decode(e), x)
        BY <1>4, <1>5, <3>6
      <3> QED BY <1>9, <3>1, <3>7, <3>8
    <2>5. k < Len(h) \/ (k >= Len(h) /\ k < Len(h) + Len(x)) \/ k >= Len(h) + Len(x)
      BY <1>1, <1>8
    <2> QED BY <2>1, <2>2, <2>3, <2>4, <2>5
  <1> QED BY <1>6, <1>7, <1>10 DEF CodecOf

LEMMA CodecAll == ASSUME NEW q \in Seq(Small) PROVE CodecOf(q)
  <1> DEFINE n == Len(q)
             S == {k \in 0 .. n : \A r \in Seq(Small) : Len(r) = k => CodecOf(r)}
  <1>1. n \in Nat
    OBVIOUS
  <1>2. 0 \in S
    <2>1. \A r \in Seq(Small) : Len(r) = 0 => r = <<>>
      OBVIOUS
    <2> QED BY <1>1, <2>1, CodecNone
  <1>3. ASSUME NEW k \in 1 .. n, k - 1 \in S PROVE k \in S
    <2> SUFFICES ASSUME NEW r \in Seq(Small), Len(r) = k PROVE CodecOf(r)
      BY <1>1
    <2>1. r # <<>>
      BY <1>1
    <2>2. Head(r) \in Small /\ Tail(r) \in Seq(Small) /\ Len(Tail(r)) = k - 1
      BY <2>1, HeadTailProperties
    <2>3. CodecOf(Tail(r))
      BY <1>3, <2>2
    <2>4. r = <<Head(r)>> \o Tail(r)
      BY <2>1
    <2> QED BY <2>2, <2>3, <2>4, CodecFront
  <1> HIDE DEF S
  <1>4. 0 .. n \subseteq S
    BY <1>1, <1>2, <1>3, StepByStep
  <1>5. n \in 0 .. n
    BY <1>1
  <1> QED BY <1>4, <1>5 DEF S

LEMMA CodecHolds == MessagesInv => CodecTotal
  <1> SUFFICES ASSUME MessagesInv, NEW m \in Slot
      PROVE LET list == frames[m]
                data == Encode(list)
            IN /\ Decode(data) = [verdict |-> "ok", frames |-> list]
               /\ \A k \in 0 .. Len(data) :
                    LET d == Decode(SubSeq(data, 1, k))
                    IN \/ d.verdict = "ok" /\ IsPrefix(d.frames, list)
                       \/ d.verdict = "malformed"
               /\ IsPrefix(Loaded(Saved(list)), list)
               /\ <<>> \notin ToSet(list) => Loaded(Saved(list)) = list
    BY DEF CodecTotal
  <1>1. PICK q \in Seq(Small) : q = frames[m]
    BY ObjectOf DEF MessagesInv
  <1>2. CodecOf(q) /\ Encode(q) \in Seq(Byte)
    BY CodecAll, EncodeBytes
  <1>3. Decode(Encode(q)) = [verdict |-> "ok", frames |-> q]
    <2>1. Len(Encode(q)) \in 0 .. Len(Encode(q))
      BY <1>2
    <2>2. Decode(Encode(q)).verdict = "ok" /\ Decode(Encode(q)).frames = q
      BY <1>2, <2>1 DEF CodecOf
    <2>3. PICK d \in Decoded : d = Decode(Encode(q))
      BY <1>2, DecodeType
    <2>4. d = [verdict |-> d.verdict, frames |-> d.frames]
      BY DEF Decoded
    <2> QED BY <2>2, <2>3, <2>4
  <1>4. PICK n \in 0 .. Len(q) : /\ Loaded(Saved(q)) = SubSeq(q, 1, n)
                                 /\ (\A i \in 1 .. Len(q) : q[i] # <<>>) => n = Len(q)
    BY LoadedPart
  <1>5. IsPrefix(Loaded(Saved(q)), q)
    BY <1>4, FrontIsPrefix
  <1>6. ASSUME <<>> \notin ToSet(q) PROVE Loaded(Saved(q)) = q
    <2>1. DOMAIN q = 1 .. Len(q)
      OBVIOUS
    <2>2. \A i \in 1 .. Len(q) : q[i] # <<>>
      BY <1>6, <2>1 DEF ToSet
    <2> QED BY <1>4, <2>2, SubSeqFull
  <1>7. \A k \in 0 .. Len(Encode(q)) : FoundOf(Decode(SubSeq(Encode(q), 1, k)), q)
    BY <1>2 DEF CodecOf
  <1> QED BY <1>1, <1>3, <1>5, <1>6, <1>7 DEF FoundOf

-----------------------------------------------------------------------------
(* Bind and attach: the inductive invariant.                                *)

(* Where a call stands in its list.                                         *)
Progress ==
  /\ Len(p_done) <= Len(p_asked)
  /\ p_stage = "scan" => Len(p_done) < Len(p_asked) /\ P!Current.how \in {"*", "!"}
  /\ p_stage = "idle" => (p_result = 0 <=> Len(p_done) = Len(p_asked))

(* Each endpoint that is done has what it asked for, and has it alone.      *)
Granted ==
  \A i \in DOMAIN p_done :
    LET e == p_asked[i]
    IN /\ e.how = "port" => p_done[i] = e.first
       /\ e.how \in {"*", "!"} /\ P!InOrder(e) => p_done[i] \in e.first .. e.last
       /\ e.how \in {"port", "*", "!"} => p_done[i] \in Ports /\ p_holder[p_done[i]] = "socket"
       /\ e.how \notin {"port", "*", "!"} => p_done[i] = 0
       /\ e.how \in {"port", "*", "!"} => \A j \in 1 .. i - 1 : p_done[j] # p_done[i]

(* d->endpoint is that of the last bind.                                    *)
Named ==
  \A i \in DOMAIN p_done :
    p_asked[i].how # "connect" /\ (\A j \in i + 1 .. Len(p_done) : p_asked[j].how = "connect")
      => p_endpoint = p_done[i]

(* How many steps of the scan it is from the port it tries next to p.       *)
Ahead(p) == IF p >= p_port THEN p - p_port ELSE p - p_port + P!Attempts(P!Current)

(* A port that was free all the time is still free and still ahead of the   *)
(* scan: what it has passed was taken when it came by.                      *)
Scanning ==
  p_stage = "scan" /\ P!InOrder(P!Current) =>
    /\ p_port \in P!Current.first .. P!Current.last
    /\ p_attempts \in 0 .. P!Attempts(P!Current)
    /\ \A p \in p_steady : P!Free(p)
    /\ \A p \in p_steady \cap (P!Current.first .. P!Current.last) : Ahead(p) < p_attempts

(* A scan that failed has met every port of its range taken.                *)
Refused ==
  p_stage = "idle" /\ p_result = -1 /\ P!Current.how \in {"*", "!"} /\ P!InOrder(P!Current) =>
    p_steady \cap (P!Current.first .. P!Current.last) = {}

PortsInv == P!TypeOK /\ Progress /\ Granted /\ Named /\ Scanning /\ Refused

-----------------------------------------------------------------------------
LEMMA PortsGiven ==
  /\ Ports \subseteq Nat \ {0} /\ Endpoints \subseteq P!EndpointType /\ MaxEndpoints \in Nat
  BY WireAssumption DEF P!EndpointConstants

LEMMA PortsInitially == P!Init => PortsInv
  BY PortsGiven DEF P!Init, PortsInv, P!TypeOK, Progress, Granted, Named, Scanning, Refused

(* What an endpoint that is under way is.                                   *)
LEMMA CurrentType ==
  ASSUME P!TypeOK, Len(p_done) < Len(p_asked)
  PROVE  /\ Len(p_done) + 1 \in DOMAIN p_asked
         /\ P!Current \in P!EndpointType
         /\ P!Current.first \in Nat \ {0} /\ P!Current.last \in Nat \ {0}
         /\ P!Current.first \in Ports
  <1>1. Len(p_done) \in Nat /\ Len(p_asked) \in Nat /\ Len(p_done) + 1 \in 1 .. Len(p_asked)
    BY DEF P!TypeOK
  <1>2. p_asked[Len(p_done) + 1] \in Endpoints
    BY <1>1 DEF P!TypeOK
  <1>3. p_asked[Len(p_done) + 1] \in P!EndpointType
    BY <1>2, PortsGiven
  <1>4. p_asked[Len(p_done) + 1].first \in Ports /\ p_asked[Len(p_done) + 1].last \in Ports
    BY <1>3 DEF P!EndpointType
  <1>5. DOMAIN p_asked = 1 .. Len(p_asked)
    BY DEF P!TypeOK
  <1> QED BY <1>1, <1>3, <1>4, <1>5, PortsGiven DEF P!Current

(* An endpoint that succeeds is added to those that are done.               *)
LEMMA OneMore ==
  ASSUME PortsInv, Len(p_done) < Len(p_asked),
         NEW rc \in Ports \cup {0}, P!Succeeds(rc), UNCHANGED p_asked,
         p_holder' \in [Ports -> {"nobody", "socket", "others"}],
         \A p \in Ports : p_holder[p] = "socket" => p_holder'[p] = "socket",
         P!Current.how \in {"port", "*", "!"} =>
           rc \in Ports /\ p_holder[rc] = "nobody" /\ p_holder'[rc] = "socket",
         P!Current.how \notin {"port", "*", "!"} => rc = 0,
         P!Current.how = "port" => rc = P!Current.first,
         P!Current.how \in {"*", "!"} /\ P!InOrder(P!Current) => rc \in P!Current.first .. P!Current.last
  PROVE  /\ p_done' \in Seq(Ports \cup {0}) /\ p_endpoint' \in Ports \cup {0, -1}
         /\ Len(p_done') <= Len(p_asked') /\ Granted' /\ Named'
  <1> DEFINE n == Len(p_done)
  <1>1. /\ p_done \in Seq(Ports \cup {0}) /\ n \in Nat
        /\ p_done' = Append(p_done, rc) /\ Len(p_done') = n + 1 /\ DOMAIN p_done' = 1 .. n + 1
        /\ p_done'[n + 1] = rc /\ \A i \in 1 .. n : p_done'[i] = p_done[i]
        /\ p_done' \in Seq(Ports \cup {0}) /\ DOMAIN p_done = 1 .. n
    BY DEF PortsInv, P!TypeOK, P!Succeeds
  <1>2. p_asked[n + 1] = P!Current /\ Len(p_asked) \in Nat
    BY DEF P!Current, PortsInv, P!TypeOK
  <1>3. Granted'
    <2> SUFFICES ASSUME NEW i \in 1 .. n + 1
        PROVE /\ p_asked[i].how = "port" => p_done'[i] = p_asked[i].first
              /\ p_asked[i].how \in {"*", "!"} /\ P!InOrder(p_asked[i]) =>
                   p_done'[i] \in p_asked[i].first .. p_asked[i].last
              /\ p_asked[i].how \in {"port", "*", "!"} =>
                   p_done'[i] \in Ports /\ p_holder'[p_done'[i]] = "socket"
              /\ p_asked[i].how \notin {"port", "*", "!"} => p_done'[i] = 0
              /\ p_asked[i].how \in {"port", "*", "!"} =>
                   \A j \in 1 .. i - 1 : p_done'[j] # p_done'[i]
      BY <1>1 DEF Granted, P!InOrder
    <2>1. CASE i \in 1 .. n
      BY <1>1, <2>1 DEF PortsInv, Granted
    <2>2. CASE i = n + 1
      <3>1. SUFFICES ASSUME P!Current.how \in {"port", "*", "!"}, NEW j \in 1 .. n
            PROVE p_done[j] # rc
        BY <1>1, <1>2, <2>2
      <3>2. p_asked[j].how \in {"port", "*", "!"} => p_holder[p_done[j]] = "socket"
        BY <1>1 DEF PortsInv, Granted
      <3>3. p_asked[j].how \notin {"port", "*", "!"} => p_done[j] = 0
        BY <1>1 DEF PortsInv, Granted
      <3>4. rc \in Ports /\ p_holder[rc] = "nobody" /\ rc # 0
        BY <3>1, PortsGiven
      <3> QED BY <3>2, <3>3, <3>4
    <2> QED BY <1>1, <2>1, <2>2
  <1>4. Named'
    <2>1. CASE P!Current.how = "connect"
      <3>1. p_endpoint' = p_endpoint
        BY <2>1 DEF P!Succeeds
      <3> SUFFICES ASSUME NEW i \in 1 .. n + 1, p_asked[i].how # "connect",
                          \A j \in i + 1 .. n + 1 : p_asked[j].how = "connect"
          PROVE p_endpoint' = p_done'[i]
        BY <1>1 DEF Named
      <3>2. i \in 1 .. n
        BY <1>1, <1>2, <2>1
      <3>3. \A j \in i + 1 .. n : p_asked[j].how = "connect"
        BY <1>1
      <3> QED BY <1>1, <3>1, <3>2, <3>3 DEF PortsInv, Named
    <2>2. CASE P!Current.how # "connect"
      <3>1. p_endpoint' = rc
        BY <2>2 DEF P!Succeeds
      <3> SUFFICES ASSUME NEW i \in 1 .. n + 1, p_asked[i].how # "connect",
                          \A j \in i + 1 .. n + 1 : p_asked[j].how = "connect"
          PROVE p_endpoint' = p_done'[i]
        BY <1>1 DEF Named
      <3>2. i = n + 1
        BY <1>1, <1>2, <2>2
      <3> QED BY <1>1, <3>1, <3>2
    <2> QED BY <2>1, <2>2
  <1>5. p_endpoint' \in Ports \cup {0, -1}
    BY DEF P!Succeeds, PortsInv, P!TypeOK
  <1>6. Len(p_done') <= Len(p_asked')
    BY <1>1, <1>2
  <1> QED BY <1>1, <1>3, <1>4, <1>5, <1>6

(* A call that does not touch what is done and bound leaves this as it is.  *)
LEMMA SameDone ==
  ASSUME PortsInv, UNCHANGED <<p_asked, p_done, p_endpoint>>,
         \A p \in Ports : p_holder[p] = "socket" => p_holder'[p] = "socket"
  PROVE  Granted' /\ Named'
  BY DEF PortsInv, Granted, Named, P!InOrder

LEMMA AttachKeeps ==
  ASSUME PortsInv, NEW n \in Nat, NEW endpoints \in [1 .. n -> Endpoints], P!Attach(endpoints)
  PROVE  PortsInv'
  <1>1. endpoints \in Seq(Endpoints) /\ Len(endpoints) \in Nat
    OBVIOUS
  <1>2. P!TypeOK'
    BY <1>1 DEF PortsInv, P!TypeOK, P!Attach
  <1>3. p_done' = <<>> /\ p_stage' = "next" /\ Len(p_done') = 0 /\ DOMAIN p_done' = {} /\ p_asked' = endpoints
    BY DEF P!Attach
  <1>4. Progress'
    BY <1>1, <1>3 DEF Progress
  <1>5. Granted' /\ Named'
    BY <1>3 DEF Granted, Named
  <1>6. Scanning' /\ Refused'
    BY <1>3 DEF Scanning, Refused
  <1> QED BY <1>2, <1>4, <1>5, <1>6 DEF PortsInv

LEMMA AttachReturnsKeeps ==
  ASSUME PortsInv, P!AttachReturns
  PROVE  PortsInv'
  <1>1. Granted' /\ Named'
    BY SameDone DEF P!AttachReturns
  <1>2. P!TypeOK' /\ Progress' /\ Scanning' /\ Refused'
    BY DEF PortsInv, P!TypeOK, Progress, Scanning, Refused, P!AttachReturns, P!Current
  <1> QED BY <1>1, <1>2 DEF PortsInv

(* zmq_bind() of a port an endpoint asked for.                              *)
LEMMA Bound ==
  ASSUME PortsInv, Len(p_done) < Len(p_asked), NEW p \in Nat, P!Free(p), P!Succeeds(p), UNCHANGED p_asked,
         p_holder' = [p_holder EXCEPT ![p] = "socket"],
         P!Current.how \in {"port", "*", "!"},
         P!Current.how = "port" => p = P!Current.first,
         P!Current.how \in {"*", "!"} /\ P!InOrder(P!Current) => p \in P!Current.first .. P!Current.last,
         p_port' \in Int, p_attempts' \in Int, UNCHANGED p_steady
  PROVE  PortsInv'
  <1>1. /\ p \in Ports /\ p_holder[p] = "nobody" /\ p_holder'[p] = "socket"
        /\ p_holder' \in [Ports -> {"nobody", "socket", "others"}]
        /\ \A q \in Ports : p_holder[q] = "socket" => p_holder'[q] = "socket"
    BY DEF P!Free, PortsInv, P!TypeOK
  <1>2. /\ p_done' \in Seq(Ports \cup {0}) /\ p_endpoint' \in Ports \cup {0, -1}
        /\ Len(p_done') <= Len(p_asked') /\ Granted' /\ Named'
    BY <1>1, OneMore
  <1>3. p_stage' = "next" /\ p_result' = p_result
    BY DEF P!Succeeds
  <1>4. P!TypeOK'
    BY <1>1, <1>2, <1>3 DEF PortsInv, P!TypeOK
  <1>5. Progress' /\ Scanning' /\ Refused'
    BY <1>2, <1>3 DEF Progress, Scanning, Refused
  <1> QED BY <1>2, <1>4, <1>5 DEF PortsInv

(* A call that fails, but for the end of a scan.                            *)
LEMMA Failed ==
  ASSUME PortsInv, P!Fails, UNCHANGED <<p_holder, p_asked, p_port, p_attempts, p_steady>>, Len(p_done) < Len(p_asked),
         P!Current.how \in {"*", "!"} /\ P!InOrder(P!Current) =>
           p_steady \cap (P!Current.first .. P!Current.last) = {}
  PROVE  PortsInv'
  <1>1. /\ p_stage' = "idle" /\ p_result' = -1 /\ P!Current' = P!Current
        /\ UNCHANGED <<p_done, p_endpoint>>
    BY DEF P!Fails, P!Current
  <1>2. Granted' /\ Named'
    BY <1>1, SameDone
  <1>3. P!TypeOK' /\ Progress'
    BY <1>1 DEF PortsInv, P!TypeOK, Progress
  <1>4. Scanning' /\ Refused'
    BY <1>1 DEF Scanning, Refused, P!InOrder
  <1> QED BY <1>2, <1>3, <1>4 DEF PortsInv

LEMMA BindPortKeeps ==
  ASSUME PortsInv, P!BindPort
  PROVE  PortsInv'
  <1>1. Len(p_done) < Len(p_asked) /\ P!Current.how = "port"
    BY DEF P!BindPort
  <1>2. P!Current.first \in Nat
    BY <1>1, CurrentType DEF PortsInv
  <1>3. p_port' \in Int /\ p_attempts' \in Int /\ UNCHANGED <<p_asked, p_port, p_attempts, p_steady>>
    BY DEF P!BindPort, PortsInv, P!TypeOK
  <1>4. CASE P!Free(P!Current.first)
    <2>1. p_holder' = [p_holder EXCEPT ![P!Current.first] = "socket"] /\ P!Succeeds(P!Current.first)
      BY <1>4 DEF P!BindPort, P!ZmqBind
    <2> QED BY <1>1, <1>2, <1>3, <1>4, <2>1, Bound
  <1>5. CASE ~P!Free(P!Current.first)
    <2>1. P!Fails /\ UNCHANGED p_holder
      BY <1>5 DEF P!BindPort, P!ZmqBind
    <2> QED BY <1>1, <1>3, <2>1, Failed
  <1> QED BY <1>4, <1>5

LEMMA BindOtherKeeps ==
  ASSUME PortsInv, P!BindOther
  PROVE  PortsInv'
  <1>1. Len(p_done) < Len(p_asked) /\ P!Current.how \in {"other", "connect"}
        /\ UNCHANGED <<p_holder, p_asked, p_port, p_attempts, p_steady>>
    BY DEF P!BindOther
  <1>2. CASE P!Fails
    BY <1>1, <1>2, Failed
  <1>3. CASE P!Succeeds(0)
    <2>1. /\ p_done' \in Seq(Ports \cup {0}) /\ p_endpoint' \in Ports \cup {0, -1}
          /\ Len(p_done') <= Len(p_asked') /\ Granted' /\ Named'
      BY <1>1, <1>3, OneMore DEF PortsInv, P!TypeOK
    <2>2. p_stage' = "next" /\ p_result' = p_result
      BY <1>3 DEF P!Succeeds
    <2>3. P!TypeOK' /\ Progress' /\ Scanning' /\ Refused'
      BY <1>1, <2>1, <2>2 DEF PortsInv, P!TypeOK, Progress, Scanning, Refused
    <2> QED BY <2>1, <2>3 DEF PortsInv
  <1> QED BY <1>2, <1>3 DEF P!BindOther

(* A scan begins with all of its range ahead.                               *)
LEMMA BeginScanKeeps ==
  ASSUME PortsInv, P!BeginScan
  PROVE  PortsInv'
  <1>1. /\ Len(p_done) < Len(p_asked) /\ P!Current.how \in {"*", "!"}
        /\ p_stage' = "scan" /\ p_attempts' = P!Attempts(P!Current)
        /\ UNCHANGED <<p_holder, p_asked, p_done, p_result, p_endpoint>> /\ P!Current' = P!Current
        /\ p_steady' = {p \in Ports : P!Free(p)}
    BY DEF P!BeginScan, P!Current
  <1>2. P!Current.first \in Nat \ {0} /\ P!Current.last \in Nat \ {0}
    BY <1>1, CurrentType DEF PortsInv
  <1>3. PICK leap \in P!Leap(P!Current) : p_port' = P!Current.first + leap
    BY DEF P!BeginScan
  <1>4. leap \in Int /\ (P!InOrder(P!Current) => leap \in 0 .. P!Current.last - P!Current.first)
    BY <1>2 DEF P!Leap, P!Attempts, P!InOrder
  <1>5. Granted' /\ Named'
    BY <1>1, SameDone
  <1>6. P!TypeOK' /\ Progress' /\ Refused'
    BY <1>1, <1>2, <1>3, <1>4 DEF PortsInv, P!TypeOK, Progress, Refused, P!Attempts
  <1>7. Scanning'
    <2> SUFFICES ASSUME P!InOrder(P!Current)
        PROVE /\ p_port' \in P!Current.first .. P!Current.last
              /\ p_attempts' \in 0 .. P!Attempts(P!Current)
              /\ \A p \in p_steady' : P!Free(p)'
              /\ \A p \in p_steady' \cap (P!Current.first .. P!Current.last) :
                   (IF p >= p_port' THEN p - p_port' ELSE p - p_port' + P!Attempts(P!Current)) < p_attempts'
      BY <1>1 DEF Scanning, Ahead, P!InOrder, P!Attempts
    <2>1. /\ p_port' \in P!Current.first .. P!Current.last
          /\ P!Attempts(P!Current) = P!Current.last - P!Current.first + 1
      BY <1>2, <1>3, <1>4 DEF P!InOrder, P!Attempts
    <2>2. \A p \in p_steady' : P!Free(p)'
      BY <1>1 DEF P!Free
    <2> QED BY <1>1, <1>2, <2>1, <2>2 DEF P!InOrder
  <1> QED BY <1>5, <1>6, <1>7 DEF PortsInv

(* A step of the scan brings every other port of the range nearer.          *)
LEMMA Nearer ==
  ASSUME NEW f \in Int, NEW l \in Int, NEW q \in f .. l, NEW p \in f .. l, p # q,
         NEW next \in Int, next = IF q + 1 > l THEN f ELSE q + 1
  PROVE  (IF p >= next THEN p - next ELSE p - next + (l - f + 1))
           = (IF p >= q THEN p - q ELSE p - q + (l - f + 1)) - 1
  OBVIOUS

LEMMA TryKeeps ==
  ASSUME PortsInv, P!Try
  PROVE  PortsInv'
  <1>1. /\ Len(p_done) < Len(p_asked) /\ P!Current.how \in {"*", "!"} /\ p_stage = "scan" /\ p_attempts # 0
        /\ p_port' = IF p_port + 1 > P!Current.last THEN P!Current.first ELSE p_port + 1
        /\ p_attempts' = IF p_attempts < 0 THEN p_attempts ELSE p_attempts - 1
        /\ UNCHANGED <<p_asked, p_steady>>
    BY DEF P!Try, PortsInv, Progress
  <1>2. /\ P!Current.first \in Nat \ {0} /\ P!Current.last \in Nat \ {0}
        /\ p_port \in Int /\ p_attempts \in Int /\ p_port' \in Int /\ p_attempts' \in Int
    BY <1>1, CurrentType DEF PortsInv, P!TypeOK
  <1>3. P!InOrder(P!Current) =>
          /\ p_port \in P!Current.first .. P!Current.last
          /\ p_attempts \in 0 .. P!Attempts(P!Current)
          /\ \A p \in p_steady : P!Free(p)
          /\ \A p \in p_steady \cap (P!Current.first .. P!Current.last) : Ahead(p) < p_attempts
    BY <1>1 DEF PortsInv, Scanning
  <1>4. CASE P!Free(p_port)
    <2>1. p_port \in Nat /\ p_holder' = [p_holder EXCEPT ![p_port] = "socket"] /\ P!Succeeds(p_port)
      BY <1>4, PortsGiven DEF P!Try, P!Free
    <2> QED BY <1>1, <1>2, <1>3, <1>4, <2>1, Bound
  <1>5. CASE ~P!Free(p_port)
    <2>1. UNCHANGED <<p_stage, p_holder, p_done, p_result, p_endpoint>> /\ P!Current' = P!Current
      BY <1>1, <1>5 DEF P!Try, P!Current
    <2>2. Granted' /\ Named'
      BY <1>1, <2>1, SameDone
    <2>3. P!TypeOK' /\ Progress' /\ Refused'
      BY <1>1, <1>2, <2>1 DEF PortsInv, P!TypeOK, Progress, Refused
    <2>4. Scanning'
      <3> SUFFICES ASSUME P!InOrder(P!Current)
          PROVE /\ p_port' \in P!Current.first .. P!Current.last
                /\ p_attempts' \in 0 .. P!Attempts(P!Current)
                /\ \A p \in p_steady : P!Free(p)'
                /\ \A p \in p_steady \cap (P!Current.first .. P!Current.last) :
                     (IF p >= p_port' THEN p - p_port' ELSE p - p_port' + P!Attempts(P!Current)) < p_attempts'
        BY <1>1, <2>1 DEF Scanning, Ahead, P!InOrder, P!Attempts
      <3>1. P!Attempts(P!Current) = P!Current.last - P!Current.first + 1 /\ P!Current.first <= P!Current.last
        BY DEF P!Attempts, P!InOrder
      <3>2. p_port' \in P!Current.first .. P!Current.last /\ p_attempts' \in 0 .. P!Attempts(P!Current)
        BY <1>1, <1>2, <1>3, <3>1
      <3>3. \A p \in p_steady : P!Free(p)'
        BY <1>3, <2>1 DEF P!Free
      <3>4. ASSUME NEW p \in p_steady \cap (P!Current.first .. P!Current.last)
            PROVE (IF p >= p_port' THEN p - p_port' ELSE p - p_port' + P!Attempts(P!Current)) < p_attempts'
        <4>1. p # p_port /\ p \in Int
          BY <1>3, <1>5
        <4>2. (IF p >= p_port THEN p - p_port ELSE p - p_port + P!Attempts(P!Current)) < p_attempts
          BY <1>3 DEF Ahead
        <4>3. p_attempts' = p_attempts - 1 /\ p_port \in P!Current.first .. P!Current.last
          BY <1>1, <1>3
        <4>4. (IF p >= p_port' THEN p - p_port' ELSE p - p_port' + P!Attempts(P!Current))
                = (IF p >= p_port THEN p - p_port ELSE p - p_port + P!Attempts(P!Current)) - 1
          <5> DEFINE f == P!Current.first
                     l == P!Current.last
                     next == p_port'
          <5>1. /\ f \in Int /\ l \in Int /\ p_port \in f .. l /\ p \in f .. l /\ p # p_port
                /\ next \in Int /\ next = IF p_port + 1 > l THEN f ELSE p_port + 1
                /\ P!Attempts(P!Current) = l - f + 1
            BY <1>1, <1>2, <3>1, <4>1, <4>3
          <5> HIDE DEF f, l, next
          <5>2. (IF p >= next THEN p - next ELSE p - next + (l - f + 1))
                  = (IF p >= p_port THEN p - p_port ELSE p - p_port + (l - f + 1)) - 1
            BY <5>1, Nearer
          <5> QED BY <5>1, <5>2 DEF next
        <4> DEFINE ahead == IF p >= p_port THEN p - p_port ELSE p - p_port + P!Attempts(P!Current)
        <4>5. ahead \in Int
          BY <1>2, <3>1, <4>1
        <4> HIDE DEF ahead
        <4>6. ahead < p_attempts
          BY <4>2 DEF ahead
        <4>7. ahead - 1 < p_attempts'
          BY <1>2, <4>3, <4>5, <4>6
        <4> QED BY <4>4, <4>7 DEF ahead
      <3> QED BY <3>2, <3>3, <3>4
    <2> QED BY <2>2, <2>3, <2>4 DEF PortsInv
  <1> QED BY <1>4, <1>5

LEMMA GiveUpKeeps ==
  ASSUME PortsInv, P!GiveUp
  PROVE  PortsInv'
  <1>1. /\ Len(p_done) < Len(p_asked) /\ p_stage = "scan" /\ p_attempts = 0 /\ P!Fails
        /\ UNCHANGED <<p_holder, p_asked, p_port, p_attempts, p_steady>>
    BY DEF P!GiveUp, PortsInv, Progress
  <1>2. /\ P!Current.first \in Nat /\ P!Current.last \in Nat
    BY <1>1, CurrentType DEF PortsInv
  <1>3. ASSUME P!InOrder(P!Current), NEW p \in p_steady \cap (P!Current.first .. P!Current.last) PROVE FALSE
    <2>1. Ahead(p) < 0 /\ p_port \in P!Current.first .. P!Current.last
      BY <1>1, <1>3 DEF PortsInv, Scanning
    <2> QED BY <1>2, <1>3, <2>1 DEF Ahead, P!Attempts
  <1> QED BY <1>1, <1>3, Failed

LEMMA UnbindKeeps ==
  ASSUME PortsInv, NEW p \in Ports, P!Unbind(p)
  PROVE  PortsInv'
  <1>1. /\ p_done' = <<>> /\ p_asked' = <<>> /\ p_stage' = "idle" /\ p_result' = 0
        /\ DOMAIN p_done' = {} /\ Len(p_done') = 0 /\ Len(p_asked') = 0
    BY DEF P!Unbind
  <1>2. P!TypeOK'
    BY DEF PortsInv, P!TypeOK, P!Unbind
  <1>3. Progress' /\ Scanning' /\ Refused'
    BY <1>1 DEF Progress, Scanning, Refused
  <1>4. Granted' /\ Named'
    BY <1>1 DEF Granted, Named
  <1> QED BY <1>2, <1>3, <1>4 DEF PortsInv

(* What other programs do to a port.                                        *)
LEMMA OthersKeep ==
  ASSUME PortsInv, NEW p \in Ports, P!OthersTake(p) \/ P!OthersLeave(p)
  PROVE  PortsInv'
  <1>1. /\ UNCHANGED <<p_stage, p_asked, p_done, p_port, p_attempts, p_result, p_endpoint>>
        /\ P!Current' = P!Current /\ p_steady' \subseteq p_steady
        /\ p_holder' \in [Ports -> {"nobody", "socket", "others"}]
        /\ \A q \in Ports : p_holder[q] = "socket" => p_holder'[q] = "socket"
        /\ \A q \in p_steady' : P!Free(q) => P!Free(q)'
    BY DEF PortsInv, P!TypeOK, P!OthersTake, P!OthersLeave, P!Free, P!Current
  <1>2. Granted' /\ Named'
    BY <1>1, SameDone
  <1>3. P!TypeOK' /\ Progress'
    BY <1>1 DEF PortsInv, P!TypeOK, Progress
  <1>4. Refused'
    BY <1>1 DEF PortsInv, Refused, P!InOrder
  <1>5. \A q \in Int : Ahead(q)' = Ahead(q)
    BY <1>1 DEF Ahead, P!Attempts
  <1>6. Scanning'
    BY <1>1 DEF PortsInv, Scanning, P!InOrder, P!Attempts, Ahead
  <1> QED BY <1>2, <1>3, <1>4, <1>6 DEF PortsInv

LEMMA PortsStutter ==
  ASSUME PortsInv, UNCHANGED P!vars
  PROVE  PortsInv'
  BY DEF PortsInv, P!vars, P!TypeOK, Progress, Granted, Named, Scanning, Refused, P!Current, Ahead, P!Free,
         P!Attempts, P!InOrder

LEMMA PortsStep ==
  ASSUME PortsInv, P!Next
  PROVE  PortsInv'
  <1>1. ASSUME NEW n \in 0 .. MaxEndpoints, NEW endpoints \in [1 .. n -> Endpoints], P!Attach(endpoints)
        PROVE PortsInv'
    <2>1. n \in Nat
      BY PortsGiven
    <2> QED BY <1>1, <2>1, AttachKeeps
  <1>2. CASE P!AttachReturns
    BY <1>2, AttachReturnsKeeps
  <1>3. CASE P!BindPort
    BY <1>3, BindPortKeeps
  <1>4. CASE P!BindOther
    BY <1>4, BindOtherKeeps
  <1>5. CASE P!BeginScan
    BY <1>5, BeginScanKeeps
  <1>6. CASE P!Try
    BY <1>6, TryKeeps
  <1>7. CASE P!GiveUp
    BY <1>7, GiveUpKeeps
  <1>8. ASSUME NEW p \in Ports, P!Unbind(p) PROVE PortsInv'
    BY <1>8, UnbindKeeps
  <1>9. ASSUME NEW p \in Ports, P!OthersTake(p) \/ P!OthersLeave(p) PROVE PortsInv'
    BY <1>9, OthersKeep
  <1> QED BY <1>1, <1>2, <1>3, <1>4, <1>5, <1>6, <1>7, <1>8, <1>9 DEF P!Next

LEMMA PortsAsAsked == PortsInv => AttachedAsAsked
  BY DEF PortsInv, P!TypeOK, Progress, Granted, Named, Refused, P!AttachedAsAsked, AttachedAsAsked
-----------------------------------------------------------------------------
(* The wire: constants, and the bytes that numbers become.                   *)

LEMMA WireGiven ==
  /\ W!MessageId \subseteq Byte /\ Signature \in 0 .. Word - 1 /\ Identity \in Seq(Byte)
  /\ PointerSize \in Nat /\ MAX_ALLOC_SIZE \in 0 .. Long - 1
  /\ CacheSize \in Nat /\ MaxSent \in Nat
  /\ Args \subseteq Seq(W!Sendable) /\ BArgs \subseteq Seq(W!Bsendable)
  /\ Gossips \subseteq [id : Byte, routing : Seq(Byte), key : Seq(Byte),
                       value : {v \in Seq(Byte) : Len(v) < Long}, ttl : 0 .. Long - 1]
  /\ Strings \subseteq Seq(Byte) /\ Statuses \subseteq Nat /\ Leftovers \subseteq Byte
  BY WireAssumption DEF W!WireConstants, W!Word, W!Long, W!Byte, Word, Long, Byte

(* Bytes, as the wire and as the Messages objects instantiate it.            *)
LEMMA SameBytes ==
  /\ W!Byte = Byte /\ W!Word = Word /\ W!Long = Long
  /\ \A n : W!Put1(n) = Put1(n) /\ W!Put2(n) = Put2(n) /\ W!Put4(n) = Put4(n) /\ W!Put8(n) = Put8(n)
  /\ \A b : W!Get1(b) = Get1(b) /\ W!Get2(b) = Get2(b) /\ W!Get4(b) = Get4(b) /\ W!Get8(b) = Get8(b)
  /\ \A b, k : W!Rest(b, k) = Rest(b, k) /\ W!Holds(b, k) = Holds(b, k)
  BY DEF W!Byte, W!Word, W!Long, Byte, Word, Long, W!Put1, W!Put2, W!Put4, W!Put8, Put1, Put2, Put4, Put8,
         W!Get1, W!Get2, W!Get4, W!Get8, Get1, Get2, Get4, Get8, W!Rest, Rest, W!Holds, Holds

LEMMA SameFlatten == \A qs : W!FlattenSeq(qs) = FlattenSeq(qs)
  BY DEF W!FlattenSeq, FlattenSeq

LEMMA ByteIs == Byte = 0 .. Base - 1 /\ Byte \subseteq Nat /\ Base \in Nat /\ Base > 1
  BY BaseAssumption DEF Byte

(* A remainder is a byte.                                                    *)
LEMMA Bits ==
  /\ \A n \in Nat, b \in Nat : b > 0 => n % b \in 0 .. b - 1 /\ n \div b \in Nat
  /\ Word \in Nat /\ Word > 0 /\ Long \in Nat /\ Long > 0
  <1>1. \A n \in Nat, b \in Nat : b > 0 => n % b \in 0 .. b - 1 /\ n \div b \in Nat
    OBVIOUS
  <1>2. \A x \in Nat : x > 0 => x * x \in Nat /\ x * x > 0
    OBVIOUS
  <1>3. Word \in Nat /\ Word > 0
    BY <1>2, BaseAssumption DEF Word
  <1>4. Long \in Nat /\ Long > 0
    BY <1>2, <1>3 DEF Long
  <1> QED BY <1>1, <1>3, <1>4

LEMMA PutBytes ==
  ASSUME NEW n \in Nat
  PROVE  /\ Put1(n) \in Seq(Byte) /\ Len(Put1(n)) = 1
         /\ Put2(n) \in Seq(Byte) /\ Len(Put2(n)) = 2
         /\ Put4(n) \in Seq(Byte) /\ Len(Put4(n)) = 4
         /\ Put8(n) \in Seq(Byte) /\ Len(Put8(n)) = 8
  <1>1. \A x \in Nat : x % Base \in Byte /\ x \div Base \in Nat
    BY Bits, ByteIs
  <1>2. ASSUME NEW x \in Nat PROVE Put4(x) \in Seq(Byte) /\ Len(Put4(x)) = 4
    <2> DEFINE h == (x \div Word) % Word  l == x % Word
    <2>1. h \in Nat /\ l \in Nat
      BY Bits
    <2>2. (h \div Base) % Base \in Byte /\ h % Base \in Byte /\ (l \div Base) % Base \in Byte /\ l % Base \in Byte
      BY <1>1, <2>1
    <2>3. Put4(x) = <<(h \div Base) % Base, h % Base, (l \div Base) % Base, l % Base>>
      BY DEF Put4
    <2> HIDE DEF h, l
    <2> QED BY <2>2, <2>3
  <1>3. n % Base \in Byte /\ (n \div Base) % Base \in Byte
    BY <1>1
  <1>4. (n \div Long) % Long \in Nat /\ n % Long \in Nat
    BY Bits
  <1>5. PICK p, q \in Seq(Byte) : p = Put4((n \div Long) % Long) /\ q = Put4(n % Long) /\ Len(p) = 4 /\ Len(q) = 4
    BY <1>2, <1>4
  <1>6. p \o q \in Seq(Byte) /\ Len(p \o q) = Len(p) + Len(q)
    BY ConcatOf
  <1>7. Put8(n) \in Seq(Byte) /\ Len(Put8(n)) = 8
    <2>1. Put8(n) = p \o q
      BY <1>5 DEF Put8
    <2>2. Len(p) = 4 /\ Len(q) = 4
      BY <1>5
    <2>3. Len(p \o q) = 8
      BY <1>6, <2>2
    <2> QED BY <1>6, <2>1, <2>3
  <1>8. Put1(n) \in Seq(Byte) /\ Len(Put1(n)) = 1 /\ Put2(n) \in Seq(Byte) /\ Len(Put2(n)) = 2
    BY <1>3 DEF Put1, Put2
  <1> QED BY <1>2, <1>7, <1>8

(* What is read where bytes are there.                                       *)
LEMMA GetNumbers ==
  ASSUME NEW b \in Seq(Nat)
  PROVE  /\ Holds(b, 1) => Get1(b) \in Nat
         /\ Holds(b, 2) => Get2(b) \in Nat
         /\ Holds(b, 4) => Get4(b) \in Nat
         /\ Holds(b, 8) => Get8(b) \in Nat
  <1>1. \A x, y \in Nat : x * y \in Nat /\ x + y \in Nat
    OBVIOUS
  <1>2. Base \in Nat /\ Word \in Nat /\ Long \in Nat
    BY Bits, ByteIs
  <1>3. \A i \in 1 .. Len(b) : b[i] \in Nat
    OBVIOUS
  <1>4. ASSUME NEW c \in Seq(Nat), Len(c) >= 4 PROVE Get4(c) \in Nat
    <2>1. c[1] \in Nat /\ c[2] \in Nat /\ c[3] \in Nat /\ c[4] \in Nat
      BY <1>4
    <2>2. c[1] * Base \in Nat /\ c[3] * Base \in Nat
      BY <1>1, <1>2, <2>1
    <2>3. c[1] * Base + c[2] \in Nat
      BY <1>1, <2>1, <2>2
    <2>4. (c[1] * Base + c[2]) * Word \in Nat
      BY <1>1, <1>2, <2>3, Zenon
    <2>5. (c[1] * Base + c[2]) * Word + c[3] * Base \in Nat
      BY <1>1, <2>2, <2>4, Zenon
    <2>6. (c[1] * Base + c[2]) * Word + c[3] * Base + c[4] \in Nat
      BY <1>1, <2>1, <2>5, Zenon
    <2> QED BY <2>6 DEF Get4, Get2
  <1>5. Holds(b, 1) => Get1(b) \in Nat
    BY <1>3 DEF Holds, Get1
  <1>6. Holds(b, 2) => Get2(b) \in Nat
    <2> SUFFICES ASSUME Holds(b, 2) PROVE Get2(b) \in Nat
      OBVIOUS
    <2>1. b[1] \in Nat /\ b[2] \in Nat
      BY DEF Holds
    <2>2. b[1] * Base \in Nat
      BY <1>1, <1>2, <2>1
    <2> QED BY <1>1, <2>1, <2>2 DEF Get2
  <1>7. Holds(b, 4) => Get4(b) \in Nat
    BY <1>4 DEF Holds
  <1>8. Holds(b, 8) => Get8(b) \in Nat
    <2> SUFFICES ASSUME Holds(b, 8) PROVE Get8(b) \in Nat
      OBVIOUS
    <2>1. 5 \in 1 .. Len(b) + 1 /\ 8 \in 0 .. Len(b) /\ 5 <= 8 + 1 /\ (8 - 5) + 1 >= 4
      BY DEF Holds
    <2>2. SubSeq(b, 5, 8) \in Seq(Nat) /\ Len(SubSeq(b, 5, 8)) >= 4
      BY <2>1, PartOf
    <2>3. Len(b) >= 4
      BY DEF Holds
    <2>5. Get4(b) \in Nat
      BY <1>4, <2>3
    <2>6. Get4(SubSeq(b, 5, 8)) \in Nat
      BY <1>4, <2>2
    <2>4. Get4(b) * Long \in Nat
      BY <1>1, <1>2, <2>5
    <2> QED BY <1>1, <2>4, <2>6 DEF Get8
  <1> QED BY <1>5, <1>6, <1>7, <1>8

LEMMA RestAlways ==
  ASSUME NEW T, NEW b \in Seq(T), NEW k \in Nat
  PROVE  Rest(b, k) \in Seq(T)
  <1>1. CASE k <= Len(b)
    <2>1. k + 1 \in 1 .. Len(b) + 1 /\ Len(b) \in 0 .. Len(b) /\ k + 1 <= Len(b) + 1
      BY <1>1
    <2> QED BY <2>1, PartOf DEF Rest
  <1>2. CASE k > Len(b)
    <2>1. k + 1 > Len(b) /\ k + 1 \in Int /\ Len(b) \in Int
      BY <1>2
    <2>2. SubSeq(b, k + 1, Len(b)) = <<>>
      BY <2>1, SubSeqEmpty
    <2> QED BY <2>2 DEF Rest
  <1> QED BY <1>1, <1>2

LEMMA FourOf ==
  ASSUME NEW T, NEW w \in T, NEW x \in T, NEW y \in T, NEW z \in T
  PROVE  \A s : s = <<w, x, y, z>> =>
           s \in Seq(T) /\ Len(s) = 4 /\ s[1] = w /\ s[2] = x /\ s[3] = y /\ s[4] = z
  OBVIOUS

(* A number is read back from what was written for it, whatever follows.      *)
LEMMA NumberBack ==
  ASSUME NEW n \in Nat, NEW more \in Seq(Byte)
  PROVE  /\ n < Base => Get1(Put1(n) \o more) = n
         /\ n < Word => Get2(Put2(n) \o more) = n
         /\ n < Long => Get4(Put4(n) \o more) = n
         /\ n < Long * Long => Get8(Put8(n) \o more) = n
  <1>0. more \in Seq(Byte) /\ Word \in Nat /\ Long \in Nat /\ Long > 0 /\ Base \in Nat /\ Base > 1
    BY Bits, ByteIs
  <1>1. n < Base => Get1(Put1(n) \o more) = n
    <2>1. n < Base => n % Base = n
      BY <1>0
    <2>2. Put1(n) \in Seq(Byte) /\ Len(Put1(n)) = 1 /\ Put1(n)[1] = n % Base
      BY PutBytes DEF Put1
    <2>3. PICK p \in Seq(Byte) : p = Put1(n) /\ Len(p) = 1
      BY <2>2
    <2>4. \A i \in 1 .. Len(p) : (p \o more)[i] = p[i]
      BY ConcatOf
    <2>5. 1 \in 1 .. Len(p)
      BY <2>3
    <2>6. (p \o more)[1] = n % Base
      BY <2>2, <2>3, <2>4, <2>5, Zenon
    <2> QED BY <2>1, <2>3, <2>6, Zenon DEF Get1
  <1>2. n < Word => Get2(Put2(n) \o more) = n
    <2> SUFFICES ASSUME n < Word PROVE Get2(Put2(n) \o more) = n
      OBVIOUS
    <2>1. n \in 0 .. Word - 1
      BY <1>0
    <2>2. Put2(n) \in Seq(Byte) /\ Len(Put2(n)) = 2
      BY PutBytes
    <2>3. PICK p \in Seq(Byte) : p = Put2(n) /\ Len(p) = 2
      BY <2>2
    <2>4. \A i \in 1 .. Len(p) : (p \o more)[i] = p[i]
      BY ConcatOf
    <2>5. p[1] = (n \div Base) % Base /\ p[2] = n % Base
      BY <2>3 DEF Put2
    <2>7. 1 \in 1 .. Len(p) /\ 2 \in 1 .. Len(p)
      BY <2>3
    <2>6. (p \o more)[1] = p[1] /\ (p \o more)[2] = p[2]
      BY <2>4, <2>7, Zenon
    <2> QED BY <2>1, <2>3, <2>5, <2>6, TwoBytes DEF Get2
  <1>3. ASSUME NEW k \in 0 .. Long - 1, NEW q \in Seq(Byte) PROVE Get4(Put4(k) \o q) = k
    <2>1. PICK w, x, y, z \in Byte : Put4(k) = <<w, x, y, z>> /\ (w * Base + x) * Word + y * Base + z = k
      BY <1>3, FourBytes
    <2>2. PICK p \in Seq(Byte) : p = Put4(k) /\ Len(p) = 4 /\ p[1] = w /\ p[2] = x /\ p[3] = y /\ p[4] = z
      <3>1. \A s : s = <<w, x, y, z>> =>
              s \in Seq(Byte) /\ Len(s) = 4 /\ s[1] = w /\ s[2] = x /\ s[3] = y /\ s[4] = z
        BY FourOf
      <3> QED BY <2>1, <3>1, Zenon
    <2>3. \A i \in 1 .. Len(p) : (p \o q)[i] = p[i]
      BY ConcatOf
    <2>6. 1 \in 1 .. Len(p) /\ 2 \in 1 .. Len(p) /\ 3 \in 1 .. Len(p) /\ 4 \in 1 .. Len(p)
      BY <2>2
    <2>4. (p \o q)[1] = w /\ (p \o q)[2] = x /\ (p \o q)[3] = y /\ (p \o q)[4] = z
      BY <2>2, <2>3, <2>6, Zenon
    <2> HIDE DEF Byte
    <2>5. Get4(p \o q) = (w * Base + x) * Word + y * Base + z
      BY <2>4, Zenon DEF Get4, Get2
    <2> QED BY <2>1, <2>2, <2>5
  <1>4. n < Long => Get4(Put4(n) \o more) = n
    BY <1>0, <1>3
  <1>5. n < Long * Long => Get8(Put8(n) \o more) = n
    <2> SUFFICES ASSUME n < Long * Long PROVE Get8(Put8(n) \o more) = n
      OBVIOUS
    <2> DEFINE h == n \div Long  l == n % Long
    <2>1. h \in 0 .. Long - 1 /\ l \in 0 .. Long - 1 /\ n = Long * h + l
      BY <1>0, DivBelow, DivMod
    <2>2. h % Long = h
      BY <1>0, <2>1
    <2>3. Put8(n) = Put4(h) \o Put4(l)
      BY <2>2 DEF Put8
    <2> HIDE DEF h, l
    <2>4. PICK p, q \in Seq(Byte) : p = Put4(h) /\ q = Put4(l) /\ Len(p) = 4 /\ Len(q) = 4
      BY <2>1, PutBytes
    <2>5. q \o more \in Seq(Byte) /\ (p \o q) \o more = p \o (q \o more)
      BY ConcatOf, Associative
    <2>6. Get4(p \o (q \o more)) = h
      BY <1>3, <2>1, <2>4, <2>5
    <2>7. SubSeq(p \o (q \o more), Len(p) + 1, Len(p) + Len(q)) = q
      BY MiddleOf
    <2>8. Get4(q \o <<>>) = l /\ q \o <<>> = q
      <3>1. <<>> \in Seq(Byte) /\ q \o <<>> = q
        BY NothingBefore
      <3> QED BY <1>3, <2>1, <2>4, <3>1
    <2>12. Len(p) + 1 = 5 /\ Len(p) + Len(q) = 8
      BY <2>4
    <2>9. SubSeq(p \o (q \o more), 5, 8) = q
      BY <2>7, <2>12, Zenon
    <2>10. Get8(p \o (q \o more)) = h * Long + l
      BY <2>6, <2>8, <2>9 DEF Get8
    <2>11. h * Long = Long * h
      BY <1>0, <2>1
    <2> QED BY <2>1, <2>3, <2>4, <2>5, <2>10, <2>11
  <1> QED BY <1>1, <1>2, <1>4, <1>5

-----------------------------------------------------------------------------
(* The elements of a picture for bsend: what each writes, and that brecv      *)
(* reads it back.                                                            *)

BinaryTypes == {"1", "2", "4", "8", "s", "S", "c", "p"}

LEMMA BsendElement ==
  ASSUME NEW e \in W!Bsendable
  PROVE  /\ e.type \in BinaryTypes \cup {"f", "m"} /\ e.null \in BOOLEAN
         /\ e.type \in {"1", "2", "4", "8"} => e.value \in Nat
         /\ e.type = "4" => e.value < Long
         /\ e.type = "8" => e.value < Long * Long
         /\ e.type \in {"s", "S", "c", "p", "f"} => e.value \in Seq(Byte)
         /\ e.type = "p" => Len(e.value) = PointerSize
         /\ e.type = "m" => e.value \in Seq(Seq(Byte))
         /\ e.null => e.value = <<>>
  <1>1. Long \in Nat /\ Long * Long \in Nat
    <2>1. \A x \in Nat : x * x \in Nat
      OBVIOUS
    <2> QED BY <2>1, Bits
  <1>2. \/ e \in W!Element({"1", "2", "4"}, 0 .. Long - 1)
        \/ e \in W!Element({"8"}, 0 .. Long * Long - 1)
        \/ e \in W!Element({"s", "S", "c", "f"}, Seq(Byte))
        \/ e \in W!Element({"p"}, W!Pointers)
        \/ e \in W!Element({"m"}, Seq(Seq(Byte)))
        \/ e \in W!Nulls({"s", "S", "c", "m"})
    BY SameBytes DEF W!Bsendable
  <1>3. CASE e \in W!Element({"1", "2", "4"}, 0 .. Long - 1)
    <2>1. e.type \in {"1", "2", "4"} /\ e.value \in 0 .. Long - 1 /\ e.null = FALSE
      BY <1>3 DEF W!Element
    <2>2. e.value \in Nat /\ e.value < Long
      BY <1>1, <2>1
    <2> QED BY <2>1, <2>2 DEF BinaryTypes
  <1>4. CASE e \in W!Element({"8"}, 0 .. Long * Long - 1)
    <2>1. e.type = "8" /\ e.value \in 0 .. Long * Long - 1 /\ e.null = FALSE
      BY <1>4 DEF W!Element
    <2>2. \A x \in Nat : \A v \in 0 .. x - 1 : v \in Nat /\ v < x
      OBVIOUS
    <2>3. e.value \in Nat /\ e.value < Long * Long
      BY <1>1, <2>1, <2>2
    <2> QED BY <2>1, <2>3 DEF BinaryTypes
  <1>5. CASE e \in W!Element({"s", "S", "c", "f"}, Seq(Byte))
    BY <1>5 DEF W!Element, BinaryTypes
  <1>6. CASE e \in W!Element({"p"}, W!Pointers)
    BY <1>6, SameBytes DEF W!Element, W!Pointers, BinaryTypes
  <1>7. CASE e \in W!Element({"m"}, Seq(Seq(Byte)))
    BY <1>7 DEF W!Element, BinaryTypes
  <1>8. CASE e \in W!Nulls({"s", "S", "c", "m"})
    <2>1. e.type \in {"s", "S", "c", "m"} /\ e.value = <<>> /\ e.null = TRUE
      BY <1>8 DEF W!Nulls
    <2>2. <<>> \in Seq(Byte) /\ <<>> \in Seq(Seq(Byte))
      OBVIOUS
    <2> QED BY <2>1, <2>2 DEF BinaryTypes
  <1> QED BY <1>2, <1>3, <1>4, <1>5, <1>6, <1>7, <1>8

LEMMA LengthNat == ASSUME NEW T, NEW q \in Seq(T) PROVE Len(q) \in Nat
  OBVIOUS

LEMMA WrittenBytes ==
  ASSUME NEW e \in W!Bsendable
  PROVE  /\ W!Written(e) \in Seq(Byte)
         /\ e.type = "1" => W!Written(e) = Put1(e.value)
         /\ e.type = "2" => W!Written(e) = Put2(e.value)
         /\ e.type = "4" => W!Written(e) = Put4(e.value)
         /\ e.type = "8" => W!Written(e) = Put8(e.value)
         /\ e.type = "p" => W!Written(e) = e.value
         /\ e.type = "s" => W!Written(e) = Put1(Len(e.value)) \o e.value
         /\ e.type = "S" => W!Written(e) = Put4(Len(e.value)) \o e.value
         /\ e.type = "c" /\ ~e.null => W!Written(e) = Put4(Len(e.value)) \o e.value
         /\ e.type = "c" /\ e.null => W!Written(e) = <<>>
         /\ e.type \in {"f", "m"} => W!Written(e) = <<>>
  <1>1. /\ e.type \in BinaryTypes \cup {"f", "m"} /\ e.null \in BOOLEAN
        /\ e.type \in {"1", "2", "4", "8"} => e.value \in Nat
        /\ e.type \in {"s", "S", "c", "p", "f"} => e.value \in Seq(Byte)
    BY BsendElement
  <1>2. /\ e.type = "1" => W!Written(e) = Put1(e.value)
        /\ e.type = "2" => W!Written(e) = Put2(e.value)
        /\ e.type = "4" => W!Written(e) = Put4(e.value)
        /\ e.type = "8" => W!Written(e) = Put8(e.value)
        /\ e.type = "p" => W!Written(e) = e.value
        /\ e.type = "s" => W!Written(e) = Put1(Len(e.value)) \o e.value
        /\ e.type = "S" => W!Written(e) = Put4(Len(e.value)) \o e.value
        /\ e.type = "c" /\ ~e.null => W!Written(e) = Put4(Len(e.value)) \o e.value
        /\ e.type = "c" /\ e.null => W!Written(e) = <<>>
        /\ e.type \in {"f", "m"} => W!Written(e) = <<>>
    BY SameBytes DEF W!Written
  <1>3. ASSUME NEW v \in Seq(Byte) PROVE Put1(Len(v)) \o v \in Seq(Byte) /\ Put4(Len(v)) \o v \in Seq(Byte)
    <2>1. Put1(Len(v)) \in Seq(Byte) /\ Put4(Len(v)) \in Seq(Byte)
      BY LengthNat, PutBytes
    <2> QED BY <2>1, ConcatOf
  <1>4. e.value \in Nat => /\ Put1(e.value) \in Seq(Byte) /\ Put2(e.value) \in Seq(Byte)
                           /\ Put4(e.value) \in Seq(Byte) /\ Put8(e.value) \in Seq(Byte)
    BY PutBytes
  <1>5. <<>> \in Seq(Byte)
    OBVIOUS
  <1>6. W!Written(e) \in Seq(Byte)
    <2>1. CASE e.type \in {"1", "2", "4", "8"}
      BY <1>1, <1>2, <1>4, <2>1
    <2>2. CASE e.type \in {"s", "S", "p"}
      BY <1>1, <1>2, <1>3, <2>2
    <2>3. CASE e.type \in {"c", "f", "m"}
      BY <1>1, <1>2, <1>3, <1>5, <2>3
    <2> QED BY <1>1, <2>1, <2>2, <2>3 DEF BinaryTypes
  <1> QED BY <1>2, <1>6

(* What brecv() carries of one element.                                      *)
Carriable(e) ==
  /\ e.type = "1" => e.value < Base
  /\ e.type = "2" => e.value < Word
  /\ e.type = "s" => Len(e.value) < Base
  /\ e.type \in {"S", "c"} => Len(e.value) <= MAX_ALLOC_SIZE
  /\ e.type = "c" => ~e.null
  /\ e.type = "m" => e.null \/ e.value # <<>>

(* A string or chunk behind its size.                                        *)
LEMMA SizedBack ==
  ASSUME NEW h \in Seq(Byte), NEW v \in Seq(Byte), NEW more \in Seq(Byte)
  PROVE  /\ Len((h \o v) \o more) >= Len(h) + Len(v)
         /\ (h \o v) \o more = h \o (v \o more) /\ v \o more \in Seq(Byte)
         /\ SubSeq((h \o v) \o more, Len(h) + 1, Len(h) + Len(v)) = v
         /\ Len(h \o v) = Len(h) + Len(v) /\ Len(h) \in Nat /\ Len(v) \in Nat
  <1>1. (h \o v) \o more = h \o (v \o more)
    BY Associative
  <1>2. h \o v \in Seq(Byte) /\ Len(h \o v) = Len(h) + Len(v) /\ v \o more \in Seq(Byte)
    BY ConcatOf
  <1>3. Len((h \o v) \o more) = Len(h \o v) + Len(more)
    BY <1>2, ConcatOf
  <1>4. Len(more) \in Nat /\ Len(h) \in Nat /\ Len(v) \in Nat
    OBVIOUS
  <1>5. SubSeq(h \o (v \o more), Len(h) + 1, Len(h) + Len(v)) = v
    BY MiddleOf
  <1>6. \A x, y, z \in Nat : (x + y) + z >= x + y
    OBVIOUS
  <1> QED BY <1>1, <1>2, <1>3, <1>4, <1>5, <1>6

(* Each element is read back, with the size it was written with.             *)
ReadsBack(e, b) ==
  /\ W!Size(e.type, b) = Len(W!Written(e))
  /\ ~W!Malformed(e.type, b)
  /\ <<W!Read(e.type, b)>> = W!Expected(e)

LEMMA ReadBack ==
  ASSUME NEW e \in W!Bsendable, Carriable(e), e.type \in BinaryTypes, NEW more \in Seq(Byte)
  PROVE  ReadsBack(e, W!Written(e) \o more)
  <1> DEFINE w == W!Written(e)  b == w \o more
  <1>1. /\ e.type \in {"1", "2", "4", "8"} => e.value \in Nat
        /\ e.type = "4" => e.value < Long
        /\ e.type = "8" => e.value < Long * Long
        /\ e.type \in {"s", "S", "c", "p", "f"} => e.value \in Seq(Byte)
        /\ e.type = "p" => Len(e.value) = PointerSize
    BY BsendElement
  <1>2. w \in Seq(Byte) /\ b \in Seq(Byte) /\ Len(b) = Len(w) + Len(more) /\ Len(more) \in Nat /\ Len(w) \in Nat
    <2>1. w \in Seq(Byte)
      BY WrittenBytes
    <2> HIDE DEF w
    <2>2. w \o more \in Seq(Byte) /\ Len(w \o more) = Len(w) + Len(more)
      BY <2>1, ConcatOf
    <2> QED BY <2>1, <2>2, LengthNat
  <1>3. Len(w) <= Len(b)
    BY <1>2
  <1>4. MAX_ALLOC_SIZE \in Nat /\ MAX_ALLOC_SIZE < Long /\ PointerSize \in Nat
    BY WireGiven, Bits
  <1>5. CASE e.type = "1"
    <2>1. w = Put1(e.value) /\ Len(w) = 1 /\ Get1(b) = e.value
      BY <1>1, <1>5, WrittenBytes, PutBytes, NumberBack DEF Carriable
    <2> HIDE DEF w, b
    <2>2. W!Size(e.type, b) = 1
      BY <1>5 DEF W!Size
    <2>3. ~W!Malformed(e.type, b)
      BY <1>3, <1>5, <2>1, <2>2, SameBytes DEF W!Malformed, Holds
    <2>4. W!Read(e.type, b) = W!Decimal(e.value)
      BY <1>5, <2>1, SameBytes DEF W!Read
    <2>5. W!Expected(e) = <<W!Decimal(e.value)>>
      BY <1>5 DEF W!Expected
    <2> QED BY <2>1, <2>2, <2>3, <2>4, <2>5 DEF ReadsBack, w, b
  <1>6. CASE e.type = "2"
    <2>1. w = Put2(e.value) /\ Len(w) = 2 /\ Get2(b) = e.value
      BY <1>1, <1>6, WrittenBytes, PutBytes, NumberBack DEF Carriable
    <2> HIDE DEF w, b
    <2>2. W!Size(e.type, b) = 2
      BY <1>6 DEF W!Size
    <2>3. ~W!Malformed(e.type, b)
      BY <1>3, <1>6, <2>1, <2>2, SameBytes DEF W!Malformed, Holds
    <2>4. W!Read(e.type, b) = W!Decimal(e.value)
      BY <1>6, <2>1, SameBytes DEF W!Read
    <2>5. W!Expected(e) = <<W!Decimal(e.value)>>
      BY <1>6 DEF W!Expected
    <2> QED BY <2>1, <2>2, <2>3, <2>4, <2>5 DEF ReadsBack, w, b
  <1>7. CASE e.type = "4"
    <2>1. w = Put4(e.value) /\ Len(w) = 4 /\ Get4(b) = e.value
      BY <1>1, <1>7, WrittenBytes, PutBytes, NumberBack
    <2> HIDE DEF w, b
    <2>2. W!Size(e.type, b) = 4
      BY <1>7 DEF W!Size
    <2>3. ~W!Malformed(e.type, b)
      BY <1>3, <1>7, <2>1, <2>2, SameBytes DEF W!Malformed, Holds
    <2>4. W!Read(e.type, b) = W!Decimal(e.value)
      BY <1>7, <2>1, SameBytes DEF W!Read
    <2>5. W!Expected(e) = <<W!Decimal(e.value)>>
      BY <1>7 DEF W!Expected
    <2> QED BY <2>1, <2>2, <2>3, <2>4, <2>5 DEF ReadsBack, w, b
  <1>8. CASE e.type = "8"
    <2>1. w = Put8(e.value) /\ Len(w) = 8 /\ Get8(b) = e.value
      BY <1>1, <1>8, WrittenBytes, PutBytes, NumberBack
    <2> HIDE DEF w, b
    <2>2. W!Size(e.type, b) = 8
      BY <1>8 DEF W!Size
    <2>3. ~W!Malformed(e.type, b)
      BY <1>3, <1>8, <2>1, <2>2, SameBytes DEF W!Malformed, Holds
    <2>4. W!Read(e.type, b) = W!Decimal(e.value)
      BY <1>8, <2>1, SameBytes DEF W!Read
    <2>5. W!Expected(e) = <<W!Decimal(e.value)>>
      BY <1>8 DEF W!Expected
    <2> QED BY <2>1, <2>2, <2>3, <2>4, <2>5 DEF ReadsBack, w, b
  <1>9. CASE e.type = "p"
    <2>1. w = e.value /\ Len(w) = PointerSize
      BY <1>1, <1>9, WrittenBytes
    <2>2. SubSeq(b, 1, Len(w)) = w
      <3>1. Len(w) \in 0 .. Len(w)
        BY <1>2
      <3>2. SubSeq(b, 1, Len(w)) = SubSeq(w, 1, Len(w))
        BY <1>2, <3>1, CutBefore
      <3>3. SubSeq(w, 1, Len(w)) = w
        BY <1>2, SubSeqFull
      <3> QED BY <3>2, <3>3
    <2> HIDE DEF w, b
    <2>3. W!Size(e.type, b) = PointerSize
      BY <1>9 DEF W!Size
    <2>4. ~W!Malformed(e.type, b)
      BY <1>9 DEF W!Malformed
    <2>5. W!Holds(b, PointerSize)
      BY <1>3, <2>1 DEF W!Holds
    <2>6. W!Read(e.type, b) = W!Bytes(w)
      BY <1>9, <2>1, <2>2, <2>5 DEF W!Read
    <2>7. W!Expected(e) = <<W!Bytes(e.value)>>
      BY <1>9 DEF W!Expected
    <2> QED BY <2>1, <2>3, <2>4, <2>6, <2>7 DEF ReadsBack, w, b
  <1>10. CASE e.type = "s"
    <2>1. PICK h, v \in Seq(Byte) : /\ v = e.value /\ h = Put1(Len(v)) /\ Len(h) = 1
                                   /\ Len(v) \in Nat /\ Len(v) < Base /\ w = h \o v
      <3>1. e.value \in Seq(Byte) /\ Len(e.value) \in Nat /\ Len(e.value) < Base
        BY <1>1, <1>10, LengthNat DEF Carriable
      <3>2. Put1(Len(e.value)) \in Seq(Byte) /\ Len(Put1(Len(e.value))) = 1
        BY <3>1, PutBytes
      <3>3. w = Put1(Len(e.value)) \o e.value
        BY <1>10, WrittenBytes
      <3> QED BY <3>1, <3>2, <3>3
    <2> HIDE DEF w
    <2>2. /\ b = h \o (v \o more) /\ v \o more \in Seq(Byte) /\ Len(w) = Len(h) + Len(v)
          /\ SubSeq(b, Len(h) + 1, Len(h) + Len(v)) = v
      <3>1. /\ (h \o v) \o more = h \o (v \o more) /\ v \o more \in Seq(Byte)
            /\ SubSeq((h \o v) \o more, Len(h) + 1, Len(h) + Len(v)) = v
            /\ Len(h \o v) = Len(h) + Len(v)
        BY SizedBack
      <3> QED BY <2>1, <3>1
    <2>3. Get1(b) = Len(v)
      <3>1. Get1(Put1(Len(v)) \o (v \o more)) = Len(v)
        BY <2>1, <2>2, NumberBack
      <3> QED BY <2>1, <2>2, <3>1
    <2> HIDE DEF b
    <2>4. Len(h) + 1 = 2 /\ Len(h) + Len(v) = 1 + Len(v) /\ Len(w) = 1 + Len(v) /\ 1 <= Len(w)
      BY <2>1, <2>2
    <2>5. 1 <= Len(b)
      BY <1>2, <1>3, <2>4
    <2>6. W!Size(e.type, b) = 1 + Len(v)
      BY <1>10, <2>3, <2>5, SameBytes DEF W!Size, Holds
    <2>7. ~W!Malformed(e.type, b)
      BY <1>3, <1>10, <2>4, <2>6, SameBytes DEF W!Malformed, Holds
    <2>8. W!Read(e.type, b) = W!Bytes(v)
      BY <1>10, <2>2, <2>4, <2>6 DEF W!Read
    <2>9. W!Expected(e) = <<W!Bytes(v)>>
      BY <1>10, <2>1 DEF W!Expected
    <2> QED BY <2>4, <2>6, <2>7, <2>8, <2>9 DEF ReadsBack, w, b
  <1>11. CASE e.type \in {"S", "c"}
    <2>1. PICK h, v \in Seq(Byte) : /\ v = e.value /\ h = Put4(Len(v)) /\ Len(h) = 4
                                   /\ Len(v) \in Nat /\ Len(v) <= MAX_ALLOC_SIZE /\ w = h \o v
      <3>1. e.value \in Seq(Byte) /\ Len(e.value) \in Nat /\ Len(e.value) <= MAX_ALLOC_SIZE
        BY <1>1, <1>11, LengthNat DEF Carriable
      <3>2. Put4(Len(e.value)) \in Seq(Byte) /\ Len(Put4(Len(e.value))) = 4
        BY <3>1, PutBytes
      <3>3. w = Put4(Len(e.value)) \o e.value
        BY <1>11, WrittenBytes, BsendElement DEF Carriable
      <3> QED BY <3>1, <3>2, <3>3
    <2> HIDE DEF w
    <2>2. /\ b = h \o (v \o more) /\ v \o more \in Seq(Byte) /\ Len(w) = Len(h) + Len(v)
          /\ SubSeq(b, Len(h) + 1, Len(h) + Len(v)) = v
      <3>1. /\ (h \o v) \o more = h \o (v \o more) /\ v \o more \in Seq(Byte)
            /\ SubSeq((h \o v) \o more, Len(h) + 1, Len(h) + Len(v)) = v
            /\ Len(h \o v) = Len(h) + Len(v)
        BY SizedBack
      <3> QED BY <2>1, <3>1
    <2>11. Len(v) < Long
      BY <1>4, <2>1, Bits
    <2>3. Get4(b) = Len(v)
      <3>1. Get4(Put4(Len(v)) \o (v \o more)) = Len(v)
        BY <2>1, <2>2, <2>11, NumberBack
      <3> QED BY <2>1, <2>2, <3>1
    <2> HIDE DEF b
    <2>4. Len(h) + 1 = 5 /\ Len(h) + Len(v) = 4 + Len(v) /\ Len(w) = 4 + Len(v) /\ 4 <= Len(w)
      BY <2>1, <2>2
    <2>5. 4 <= Len(b)
      BY <1>2, <1>3, <2>4
    <2>6. W!Size(e.type, b) = 4 + Len(v)
      BY <1>11, <2>3, <2>5, SameBytes DEF W!Size, Holds
    <2>12. ~(4 + Len(v) > 4 + MAX_ALLOC_SIZE)
      BY <1>4, <2>1
    <2>7. ~W!Malformed(e.type, b)
      BY <1>3, <1>11, <2>4, <2>6, <2>12, SameBytes DEF W!Malformed, Holds
    <2>8. W!Read(e.type, b) = W!Bytes(v)
      BY <1>11, <2>2, <2>4, <2>6 DEF W!Read
    <2>9. W!Expected(e) = <<W!Bytes(v)>>
      BY <1>11, <2>1 DEF W!Expected
    <2> QED BY <2>4, <2>6, <2>7, <2>8, <2>9 DEF ReadsBack, w, b
  <1> QED BY <1>5, <1>6, <1>7, <1>8, <1>9, <1>10, <1>11 DEF BinaryTypes

-----------------------------------------------------------------------------
(* brecv(), element after element, on whatever was sent.                     *)

Value == [form : {"bytes", "decimal", "lettered", "signal", "unset"}, body : Seq(Nat)]

BrecvState(n) ==
  [rc : {-1, 0}, needle : Nat, taken : 1 .. n, values : Seq(Seq(Value)),
   cache_used : Nat, cache_size : Nat, cache_block : Nat, overrun : BOOLEAN]

LEMMA OneOf ==
  ASSUME NEW T, NEW q \in [1 .. 1 -> T]
  PROVE  q \in Seq(T) /\ Len(q) = 1 /\ q[1] \in T
  <1>1. q[1] \in T /\ \A i \in 1 .. 1 : i = 1
    OBVIOUS
  <1>2. q = <<q[1]>>
    <2>1. DOMAIN <<q[1]>> = 1 .. 1 /\ <<q[1]>>[1] = q[1]
      OBVIOUS
    <2> QED BY <1>1, <2>1
  <1>3. \A x \in T : <<x>> \in Seq(T) /\ Len(<<x>>) = 1
    OBVIOUS
  <1> QED BY <1>1, <1>2, <1>3, Zenon

LEMMA FrameIs ==
  ASSUME NEW f \in W!SentFrame
  PROVE  /\ f \in Value /\ f.body \in Seq(Nat)
         /\ f.form = "bytes" => f.body \in Seq(Byte)
         /\ f.form # "bytes" => Len(f.body) = 1
         /\ f.form = "signal" => f.body[1] \in Statuses
  <1>1. \/ f \in [form : {"bytes"}, body : Seq(Byte)]
        \/ f \in [form : {"decimal", "lettered"}, body : [1 .. 1 -> Nat]]
        \/ f \in [form : {"signal"}, body : [1 .. 1 -> Statuses]]
    BY SameBytes DEF W!SentFrame
  <1>2. \A T : \A q \in [1 .. 1 -> T] : q \in Seq(T) /\ Len(q) = 1 /\ q[1] \in T
    BY OneOf
  <1>3. \A S, T : S \subseteq T => Seq(S) \subseteq Seq(T)
    OBVIOUS
  <1>4. Seq(Byte) \subseteq Seq(Nat) /\ Seq(Statuses) \subseteq Seq(Nat)
    BY <1>3, ByteIs, WireGiven
  <1>5. CASE f \in [form : {"bytes"}, body : Seq(Byte)]
    BY <1>4, <1>5 DEF Value
  <1>6. CASE f \in [form : {"decimal", "lettered"}, body : [1 .. 1 -> Nat]]
    <2>1. f.form \in {"decimal", "lettered"} /\ f.body \in Seq(Nat) /\ Len(f.body) = 1
      BY <1>2, <1>6
    <2> QED BY <1>6, <2>1 DEF Value
  <1>7. CASE f \in [form : {"signal"}, body : [1 .. 1 -> Statuses]]
    <2>1. f.form = "signal" /\ f.body \in Seq(Nat) /\ Len(f.body) = 1 /\ f.body[1] \in Statuses
      BY <1>2, <1>4, <1>7
    <2> QED BY <1>7, <2>1 DEF Value
  <1> QED BY <1>1, <1>5, <1>6, <1>7

LEMMA SizeNat ==
  ASSUME NEW type \in BinaryTypes, NEW b \in Seq(Nat)
  PROVE  W!Size(type, b) \in Nat
  <1>1. /\ Holds(b, 1) => 1 + Get1(b) \in Nat
        /\ Holds(b, 4) => 4 + Get4(b) \in Nat
    BY GetNumbers
  <1>2. PointerSize \in Nat
    BY WireGiven
  <1> QED BY <1>1, <1>2, SameBytes DEF W!Size, BinaryTypes

LEMMA ReadValue ==
  ASSUME NEW type \in BinaryTypes, NEW b \in Seq(Nat), ~W!Malformed(type, b)
  PROVE  W!Read(type, b) \in Value
  <1>1. type # "p" => W!Size(type, b) <= Len(b)
    BY DEF W!Malformed, W!Holds
  <1>2. W!Size(type, b) \in Nat /\ Len(b) \in Nat
    BY SizeNat
  <1>3. \A n \in Nat : W!Decimal(n) \in Value
    BY DEF W!Decimal, Value
  <1>4. \A q \in Seq(Nat) : W!Bytes(q) \in Value
    BY DEF W!Bytes, Value
  <1>5. W!Unset \in Value
    BY DEF W!Unset, Value
  <1>6. ASSUME NEW i \in {1, 2, 5}, NEW j \in 0 .. Len(b), i <= j + 1 PROVE SubSeq(b, i, j) \in Seq(Nat)
    <2>1. i \in 1 .. Len(b) + 1
      BY <1>2, <1>6
    <2> QED BY <1>6, <2>1, PartOf
  <1>7. CASE type \in {"1", "2", "4", "8"}
    <2>1. /\ type = "1" => Get1(b) \in Nat
          /\ type = "2" => Get2(b) \in Nat
          /\ type = "4" => Get4(b) \in Nat
          /\ type = "8" => Get8(b) \in Nat
      BY <1>1, <1>7, GetNumbers DEF W!Size, Holds
    <2>2. /\ type = "1" => W!Read(type, b) = W!Decimal(Get1(b))
          /\ type = "2" => W!Read(type, b) = W!Decimal(Get2(b))
          /\ type = "4" => W!Read(type, b) = W!Decimal(Get4(b))
          /\ type = "8" => W!Read(type, b) = W!Decimal(Get8(b))
      BY SameBytes DEF W!Read
    <2> DEFINE V == Value  v == W!Read(type, b)
    <2>3. /\ type = "1" => v \in V
          /\ type = "2" => v \in V
          /\ type = "4" => v \in V
          /\ type = "8" => v \in V
      BY <1>3, <2>1, <2>2, Zenon
    <2> HIDE DEF V, v
    <2> QED BY <1>7, <2>3 DEF V, v
  <1>8. CASE type = "p"
    <2>1. PointerSize \in Nat
      BY WireGiven
    <2>2. W!Holds(b, PointerSize) => SubSeq(b, 1, PointerSize) \in Seq(Nat)
      BY <1>2, <1>6, <2>1 DEF W!Holds
    <2> QED BY <1>4, <1>5, <1>8, <2>2 DEF W!Read
  <1>9. CASE type = "s"
    <2>1. W!Size(type, b) >= 1
      BY <1>9, SameBytes, GetNumbers DEF W!Size
    <2>2. SubSeq(b, 2, W!Size(type, b)) \in Seq(Nat)
      BY <1>1, <1>2, <1>6, <1>9, <2>1
    <2> QED BY <1>4, <1>9, <2>2 DEF W!Read
  <1>10. CASE type \in {"S", "c"}
    <2>1. W!Size(type, b) >= 4
      BY <1>10, SameBytes, GetNumbers DEF W!Size
    <2>2. SubSeq(b, 5, W!Size(type, b)) \in Seq(Nat)
      BY <1>1, <1>2, <1>6, <1>10, <2>1
    <2> QED BY <1>4, <1>10, <2>2 DEF W!Read
  <1> QED BY <1>7, <1>8, <1>9, <1>10 DEF BinaryTypes

PictureTypes == BinaryTypes \cup {"f", "m"}

LEMMA StateIs ==
  ASSUME NEW n \in Nat, NEW s \in BrecvState(n)
  PROVE  /\ s = [rc |-> s.rc, needle |-> s.needle, taken |-> s.taken, values |-> s.values,
                 cache_used |-> s.cache_used, cache_size |-> s.cache_size,
                 cache_block |-> s.cache_block, overrun |-> s.overrun]
         /\ s.rc \in {-1, 0} /\ s.needle \in Nat /\ s.taken \in 1 .. n /\ s.values \in Seq(Seq(Value))
         /\ s.cache_used \in Nat /\ s.cache_size \in Nat /\ s.cache_block \in Nat /\ s.overrun \in BOOLEAN
  BY DEF BrecvState

(* One element of brecv(), as the four things that may become of it.          *)
ElementOf(msg, s, type, b) ==
  /\ s.rc = -1 => W!BrecvElement(s, type, msg) = s
  /\ s.rc = 0 /\ type \notin {"f", "m"} /\ ~W!Malformed(type, b) =>
       W!BrecvElement(s, type, msg) =
         [W!Cached(s, type, b) EXCEPT !.needle = @ + W!Size(type, b),
                                      !.values = Append(@, <<W!Read(type, b)>>)]
  /\ s.rc = 0 /\ type = "f" /\ s.taken < Len(msg) =>
       W!BrecvElement(s, type, msg) =
         [s EXCEPT !.taken = s.taken + 1,
                   !.values = Append(@, SubSeq(msg, s.taken + 1, s.taken + 1))]
  /\ s.rc = 0 /\ type = "m" /\ s.taken < Len(msg) =>
       W!BrecvElement(s, type, msg) =
         [s EXCEPT !.taken = Len(msg),
                   !.values = Append(@, SubSeq(msg, s.taken + 1, Len(msg)))]
  /\ s.rc = 0 /\ (IF type \notin {"f", "m"} THEN W!Malformed(type, b) ELSE ~(s.taken < Len(msg))) =>
       W!BrecvElement(s, type, msg) = [s EXCEPT !.rc = -1]

LEMMA ElementIs ==
  ASSUME NEW msg, NEW s, NEW type
  PROVE  \A b : b = W!Rest(msg[1].body, s.needle) => ElementOf(msg, s, type, b)
  <1> SUFFICES ASSUME NEW b, b = W!Rest(msg[1].body, s.needle) PROVE ElementOf(msg, s, type, b)
    BY Zenon DEF ElementOf
  <1>1. s.rc = -1 => W!BrecvElement(s, type, msg) = s
    BY DEF W!BrecvElement
  <1>2. s.rc = 0 /\ type \notin {"f", "m"} /\ ~W!Malformed(type, b) =>
         W!BrecvElement(s, type, msg) =
           [W!Cached(s, type, b) EXCEPT !.needle = @ + W!Size(type, b),
                                        !.values = Append(@, <<W!Read(type, b)>>)]
    BY DEF W!BrecvElement
  <1>3. s.rc = 0 /\ type = "f" /\ s.taken < Len(msg) =>
         W!BrecvElement(s, type, msg) =
           [s EXCEPT !.taken = s.taken + 1,
                     !.values = Append(@, SubSeq(msg, s.taken + 1, s.taken + 1))]
    BY DEF W!BrecvElement
  <1>4. s.rc = 0 /\ type = "m" /\ s.taken < Len(msg) =>
         W!BrecvElement(s, type, msg) =
           [s EXCEPT !.taken = Len(msg),
                     !.values = Append(@, SubSeq(msg, s.taken + 1, Len(msg)))]
    BY DEF W!BrecvElement
  <1>5. s.rc = 0 /\ (IF type \notin {"f", "m"} THEN W!Malformed(type, b) ELSE ~(s.taken < Len(msg))) =>
         W!BrecvElement(s, type, msg) = [s EXCEPT !.rc = -1]
    BY DEF W!BrecvElement
  <1> QED BY <1>1, <1>2, <1>3, <1>4, <1>5 DEF ElementOf

LEMMA AppendValue ==
  ASSUME NEW vs \in Seq(Seq(Value)), NEW v \in Seq(Value)
  PROVE  Append(vs, v) \in Seq(Seq(Value))
  <1> DEFINE X == Seq(Value)
  <1>1. vs \in Seq(X) /\ v \in X
    OBVIOUS
  <1> HIDE DEF X
  <1>2. Append(vs, v) \in Seq(X)
    BY <1>1
  <1> QED BY <1>2 DEF X

(* The cache of a socket after a string. A step that has not written behind   *)
(* the block has left the cache as long as it was.                           *)
Grown(s, used, block, room, over) ==
  [s EXCEPT !.cache_used = used, !.cache_block = block, !.cache_size = room, !.overrun = over]

SameCache(r, s) ==
  ~r.overrun => /\ ~s.overrun
                /\ r.cache_size = s.cache_size /\ r.cache_block = s.cache_block

(* Everything stored so far is within the block, of which used bytes are taken. *)
Room(s, used, size) ==
  ~s.overrun /\ s.cache_used = used /\ s.cache_size = size /\ s.cache_block = size

LEMMA CacheGrows ==
  ASSUME NEW n \in Nat, NEW s \in BrecvState(n), NEW used \in Nat, NEW block \in Nat, NEW room \in Nat,
         NEW over \in BOOLEAN, NEW z, z = Grown(s, used, block, room, over)
  PROVE  /\ z \in BrecvState(n)
         /\ z.needle = s.needle /\ z.values = s.values /\ z.rc = s.rc /\ z.taken = s.taken
         /\ z.cache_used = used /\ z.cache_block = block /\ z.cache_size = room /\ z.overrun = over
  BY DEF BrecvState, Grown

(* One more string, of size bytes and a terminator.                          *)
Stored(z, s, size) ==
  LET full == s.cache_used + size > s.cache_size
  IN /\ z.cache_used = s.cache_used + size + 1
     /\ full => z.cache_size = 2 * s.cache_size /\ z.cache_block = s.cache_size
     /\ ~full => z.cache_size = s.cache_size /\ z.cache_block = s.cache_block
     /\ z.overrun <=> s.overrun \/ s.cache_used + size + 1 > z.cache_block

LEMMA CachedIs ==
  ASSUME NEW n \in Nat, NEW s \in BrecvState(n), NEW b, NEW size \in Nat, size = Get1(b),
         NEW z, z = W!Cached(s, "s", b)
  PROVE  /\ z \in BrecvState(n)
         /\ z.needle = s.needle /\ z.values = s.values /\ z.rc = s.rc /\ z.taken = s.taken
         /\ Stored(z, s, size)
  <1> DEFINE full == s.cache_used + size > s.cache_size
             bl == IF full THEN s.cache_size ELSE s.cache_block
             ro == IF full THEN 2 * s.cache_size ELSE s.cache_size
             ov == s.overrun \/ s.cache_used + size + 1 > bl
  <1>1. /\ s.cache_used \in Nat /\ s.cache_size \in Nat /\ s.cache_block \in Nat /\ s.overrun \in BOOLEAN
    BY StateIs
  <1>2. PICK used, block, room \in Nat, over \in BOOLEAN :
          used = s.cache_used + size + 1 /\ block = bl /\ room = ro /\ over = ov
    <2>1. s.cache_used + size + 1 \in Nat /\ bl \in Nat /\ ro \in Nat
      BY <1>1
    <2>2. ov \in BOOLEAN
      OBVIOUS
    <2> HIDE DEF bl, ro, ov
    <2> QED BY <2>1, <2>2
  <1>3. W!Cached(s, "s", b) = Grown(s, s.cache_used + size + 1, bl, ro, ov)
    BY SameBytes DEF W!Cached, Grown
  <1>4. z = Grown(s, used, block, room, over)
    BY <1>2, <1>3, Zenon
  <1>5. /\ z \in BrecvState(n) /\ z.needle = s.needle /\ z.values = s.values /\ z.rc = s.rc /\ z.taken = s.taken
        /\ z.cache_used = used /\ z.cache_block = block /\ z.cache_size = room /\ z.overrun = over
    BY <1>4, CacheGrows, SMTT(30)
  <1>6. /\ full => block = s.cache_size /\ room = 2 * s.cache_size
        /\ ~full => block = s.cache_block /\ room = s.cache_size
        /\ over <=> s.overrun \/ s.cache_used + size + 1 > block
    BY <1>2
  <1>7. Stored(z, s, size)
    BY <1>2, <1>5, <1>6 DEF Stored
  <1> QED BY <1>5, <1>7

LEMMA CachedType ==
  ASSUME NEW n \in Nat, NEW s \in BrecvState(n), NEW type, NEW b, type = "s" => Get1(b) \in Nat
  PROVE  /\ W!Cached(s, type, b) \in BrecvState(n)
         /\ W!Cached(s, type, b).needle = s.needle /\ W!Cached(s, type, b).values = s.values
         /\ W!Cached(s, type, b).rc = s.rc /\ W!Cached(s, type, b).taken = s.taken
         /\ SameCache(W!Cached(s, type, b), s)
  <1>1. CASE type # "s"
    BY <1>1 DEF W!Cached, SameCache
  <1>2. CASE type = "s"
    <2>1. PICK size \in Nat : size = Get1(b)
      BY <1>2
    <2>2. PICK z : z = W!Cached(s, type, b) /\ z = W!Cached(s, "s", b)
      BY <1>2
    <2>3. /\ z \in BrecvState(n) /\ z.needle = s.needle /\ z.values = s.values /\ z.rc = s.rc /\ z.taken = s.taken
          /\ Stored(z, s, size)
      BY <1>2, <2>1, <2>2, CachedIs
    <2>4. s.cache_used \in Nat /\ s.cache_size \in Nat /\ s.cache_block \in Nat
      BY StateIs
    <2>5. SameCache(z, s)
      BY <2>3, <2>4 DEF SameCache, Stored
    <2> QED BY <2>2, <2>3, <2>5, Zenon
  <1> QED BY <1>1, <1>2

(* A string that fits is stored, and anything else stores nothing.            *)
LEMMA CachedStores ==
  ASSUME NEW n \in Nat, NEW s \in BrecvState(n), NEW type, NEW b, NEW len \in Nat,
         type = "s" => Get1(b) + 1 = len /\ Get1(b) \in Nat, type # "s" => len = 0,
         NEW had \in Nat, NEW size \in Nat, Room(s, had, size), had + len <= size
  PROVE  Room(W!Cached(s, type, b), had + len, size)
  <1>1. CASE type # "s"
    BY <1>1 DEF W!Cached, Room
  <1>2. CASE type = "s"
    <2>1. PICK k \in Nat : k = Get1(b) /\ k + 1 = len
      BY <1>2
    <2>2. PICK z : z = W!Cached(s, type, b) /\ z = W!Cached(s, "s", b)
      BY <1>2
    <2>3. Stored(z, s, k)
      BY <1>2, <2>1, <2>2, CachedIs, Zenon
    <2>4. Room(z, had + len, size)
      BY <2>1, <2>3 DEF Room, Stored
    <2> QED BY <2>2, <2>4, Zenon
  <1> QED BY <1>1, <1>2

(* What is left of the data frame, as numbers.                               *)
LEMMA DataIs ==
  ASSUME NEW msg \in Seq(W!SentFrame), msg # <<>>, NEW k \in Nat
  PROVE  W!Rest(msg[1].body, k) \in Seq(Nat) /\ Len(msg) \in Nat /\ Len(msg) >= 1
  <1>1. Len(msg) \in Nat /\ Len(msg) >= 1
    BY EmptySeq, LengthNat
  <1>2. msg[1] \in W!SentFrame
    <2>1. 1 \in 1 .. Len(msg)
      BY <1>1
    <2> QED BY <2>1, ElementOfSeq
  <1>3. msg[1].body \in Seq(Nat)
    BY <1>2, FrameIs
  <1> QED BY <1>1, <1>3, RestAlways, SameBytes

LEMMA FramesAreValues ==
  ASSUME NEW msg \in Seq(W!SentFrame), NEW i \in 1 .. Len(msg) + 1, NEW j \in 0 .. Len(msg), i <= j + 1
  PROVE  SubSeq(msg, i, j) \in Seq(Value)
  <1>1. W!SentFrame \subseteq Value
    BY FrameIs
  <1>2. \A S, T : S \subseteq T => Seq(S) \subseteq Seq(T)
    OBVIOUS
  <1> QED BY <1>1, <1>2, PartOf

LEMMA StepType ==
  ASSUME NEW msg \in Seq(W!SentFrame), msg # <<>>,
         NEW s \in BrecvState(Len(msg)), NEW type \in PictureTypes
  PROVE  /\ W!BrecvElement(s, type, msg) \in BrecvState(Len(msg))
         /\ SameCache(W!BrecvElement(s, type, msg), s)
  <1> DEFINE n == Len(msg)  b == W!Rest(msg[1].body, s.needle)  r == W!BrecvElement(s, type, msg)
  <1>1. s.needle \in Nat /\ s.taken \in 1 .. n /\ s.values \in Seq(Seq(Value)) /\ s.rc \in {-1, 0}
    BY StateIs, LengthNat
  <1>2. b \in Seq(Nat) /\ n \in Nat /\ n >= 1
    BY <1>1, DataIs
  <1>3. ElementOf(msg, s, type, b)
    BY ElementIs
  <1> HIDE DEF b
  <1>4. CASE s.rc = -1
    BY <1>3, <1>4 DEF ElementOf, SameCache
  <1>5. CASE s.rc = 0 /\ type \in BinaryTypes /\ ~W!Malformed(type, b)
    <2> DEFINE c == W!Cached(s, type, b)
    <2>1. W!Size(type, b) \in Nat /\ W!Read(type, b) \in Value
      BY <1>2, <1>5, SizeNat, ReadValue
    <2>2. type = "s" => Get1(b) \in Nat
      <3>1. type = "s" => W!Size(type, b) <= Len(b)
        BY <1>5 DEF W!Malformed, W!Holds
      <3>2. type = "s" => W!Size(type, b) >= 1
        BY <1>2, SameBytes, GetNumbers DEF W!Size
      <3>3. type = "s" => Holds(b, 1)
        BY <1>2, <2>1, <3>1, <3>2, LengthNat DEF Holds
      <3> QED BY <1>2, <3>3, GetNumbers
    <2>3. c \in BrecvState(n) /\ c.needle = s.needle /\ c.values = s.values /\ SameCache(c, s)
      BY <1>2, <2>2, CachedType
    <2>4. r = [c EXCEPT !.needle = @ + W!Size(type, b), !.values = Append(@, <<W!Read(type, b)>>)]
      BY <1>3, <1>5 DEF ElementOf, BinaryTypes
    <2> HIDE DEF c, r
    <2>5. <<W!Read(type, b)>> \in Seq(Value)
      BY <2>1
    <2>6. Append(c.values, <<W!Read(type, b)>>) \in Seq(Seq(Value))
      BY <1>1, <2>3, <2>5, AppendValue
    <2>7. c.needle + W!Size(type, b) \in Nat
      BY <1>1, <2>1, <2>3
    <2>8. r = [c EXCEPT !.needle = c.needle + W!Size(type, b), !.values = Append(c.values, <<W!Read(type, b)>>)]
      BY <2>3, <2>4 DEF BrecvState
    <2>9. r.overrun = c.overrun /\ r.cache_size = c.cache_size /\ r.cache_block = c.cache_block
      BY <2>3, <2>8 DEF BrecvState
    <2>10. SameCache(r, s)
      BY <2>3, <2>9, Zenon DEF SameCache
    <2>11. r \in BrecvState(n)
      BY <2>3, <2>6, <2>7, <2>8 DEF BrecvState
    <2> QED BY <2>10, <2>11 DEF r
  <1>6. ASSUME s.rc = 0, NEW e \in (s.taken + 1) .. n, s.taken < n,
               r = [s EXCEPT !.taken = e, !.values = Append(@, SubSeq(msg, s.taken + 1, e))]
        PROVE  r \in BrecvState(n) /\ SameCache(r, s)
    <2>1. s.taken + 1 \in 1 .. Len(msg) + 1 /\ e \in 0 .. Len(msg) /\ s.taken + 1 <= e + 1 /\ e \in 1 .. n
      BY <1>1, <1>2, <1>6
    <2>2. SubSeq(msg, s.taken + 1, e) \in Seq(Value)
      BY <2>1, FramesAreValues
    <2>3. Append(s.values, SubSeq(msg, s.taken + 1, e)) \in Seq(Seq(Value))
      BY <1>1, <2>2, AppendValue
    <2> HIDE DEF r
    <2>4. r = [s EXCEPT !.taken = e, !.values = Append(s.values, SubSeq(msg, s.taken + 1, e))]
      BY <1>6 DEF BrecvState
    <2>5. r.overrun = s.overrun /\ r.cache_size = s.cache_size /\ r.cache_block = s.cache_block
      BY <2>4 DEF BrecvState
    <2>6. SameCache(r, s)
      BY <2>5, Zenon DEF SameCache
    <2>7. r \in BrecvState(n)
      BY <2>1, <2>3, <2>4 DEF BrecvState
    <2> QED BY <2>6, <2>7
  <1>7. CASE s.rc = 0 /\ type \in {"f", "m"} /\ s.taken < n
    <2>1. s.taken + 1 \in (s.taken + 1) .. n /\ n \in (s.taken + 1) .. n
      BY <1>1, <1>2, <1>7
    <2>2. CASE type = "f"
      <3>1. r = [s EXCEPT !.taken = s.taken + 1, !.values = Append(@, SubSeq(msg, s.taken + 1, s.taken + 1))]
        BY <1>3, <1>7, <2>2 DEF ElementOf
      <3> QED BY <1>6, <1>7, <2>1, <3>1, Zenon
    <2>3. CASE type = "m"
      <3>1. r = [s EXCEPT !.taken = n, !.values = Append(@, SubSeq(msg, s.taken + 1, n))]
        BY <1>3, <1>7, <2>3 DEF ElementOf
      <3> QED BY <1>6, <1>7, <2>1, <3>1, Zenon
    <2> QED BY <1>7, <2>2, <2>3
  <1>8. CASE s.rc = 0 /\ (IF type \notin {"f", "m"} THEN W!Malformed(type, b) ELSE ~(s.taken < n))
    <2>1. r = [s EXCEPT !.rc = -1]
      BY <1>3, <1>8 DEF ElementOf
    <2> HIDE DEF r, n
    <2>2. r.overrun = s.overrun /\ r.cache_size = s.cache_size /\ r.cache_block = s.cache_block
      BY <2>1 DEF BrecvState
    <2>3. SameCache(r, s)
      BY <2>2, Zenon DEF SameCache
    <2>4. r \in BrecvState(n)
      BY <2>1 DEF BrecvState, n
    <2> QED BY <2>3, <2>4 DEF r, n
  <1> QED BY <1>1, <1>4, <1>5, <1>7, <1>8 DEF PictureTypes

(* brecv() as the elements that it goes through.                             *)
BrecvStart(size) ==
  [rc |-> 0, needle |-> 0, taken |-> 1, values |-> <<>>,
   cache_used |-> 0, cache_size |-> size, cache_block |-> size, overrun |-> FALSE]

BrecvSteps(a, msg, picture, size) ==
  /\ a \in [0 .. Len(picture) -> BrecvState(Len(msg))]
  /\ a[0] = BrecvStart(size)
  /\ \A k \in 1 .. Len(picture) : a[k] = W!BrecvElement(a[k - 1], picture[k], msg)

LEMMA BrecvRuns ==
  ASSUME NEW msg \in Seq(W!SentFrame), msg # <<>>, NEW picture \in Seq(PictureTypes), NEW size \in Nat
  PROVE  \E a : BrecvSteps(a, msg, picture, size) /\ W!Brecv(msg, picture, size) = a[Len(picture)]
  <1> DEFINE n == Len(picture)  X == BrecvState(Len(msg))  x == BrecvStart(size)
             F == [p \in (1 .. n) \X X |-> W!BrecvElement(p[2], picture[p[1]], msg)]
             Def(s) == s = [k \in 0 .. n |-> IF k = 0 THEN x ELSE W!BrecvElement(s[k - 1], picture[k], msg)]
             t == CHOOSE s : Def(s)
  <1>1. n \in Nat /\ \A k \in 1 .. n : picture[k] \in PictureTypes
    OBVIOUS
  <1>2. \A k \in 1 .. n, s \in X : W!BrecvElement(s, picture[k], msg) \in X
    BY <1>1, StepType
  <1>3. x \in X
    <2>1. 1 \in 1 .. Len(msg)
      BY DataIs
    <2>2. <<>> \in Seq(Seq(Value))
      OBVIOUS
    <2> QED BY <2>1, <2>2 DEF BrecvStart, BrecvState
  <1>4. W!Brecv(msg, picture, size) = t[n]
    BY DEF W!Brecv, BrecvStart
  <1> HIDE DEF x, X, n
  <1>5. F \in [(1 .. n) \X X -> X] /\ \A k \in 1 .. n, s \in X : F[<<k, s>>] = W!BrecvElement(s, picture[k], msg)
    BY <1>2
  <1> HIDE DEF F
  <1>6. PICK f \in [0 .. n -> X] : f[0] = x /\ \A k \in 1 .. n : f[k] = F[<<k, f[k - 1]>>]
    <2>1. Runs(n, X, x, F)
      BY <1>1, <1>3, <1>5, RunningFunction, Zenon
    <2> QED BY <2>1 DEF Runs
  <1>7. 0 \in 0 .. n /\ \A k \in 1 .. n : k \in 0 .. n /\ k - 1 \in 0 .. n /\ k # 0
    BY <1>1
  <1>8. \A k \in 1 .. n : f[k] = W!BrecvElement(f[k - 1], picture[k], msg)
    <2> SUFFICES ASSUME NEW k \in 1 .. n PROVE f[k] = W!BrecvElement(f[k - 1], picture[k], msg)
      OBVIOUS
    <2>1. f[k - 1] \in X
      BY <1>6, <1>7
    <2> QED BY <1>5, <1>6, <2>1
  <1>9. Def(f)
    <2>1. \A k \in 0 .. n : k # 0 => k \in 1 .. n
      BY <1>1
    <2> QED BY <1>6, <1>8, <2>1
  <1>10. Def(t)
    BY <1>9, Zenon
  <1> HIDE DEF t
  <1>11. t[0] = x /\ \A k \in 1 .. n : t[k] = W!BrecvElement(t[k - 1], picture[k], msg)
    BY <1>7, <1>10
  <1>12. \A k \in 0 .. n : t[k] = f[k]
    <2> DEFINE S == {k \in 0 .. n : t[k] = f[k]}
    <2>1. 0 \in S
      BY <1>6, <1>7, <1>11
    <2>2. \A k \in 1 .. n : k - 1 \in S => k \in S
      BY <1>7, <1>8, <1>11
    <2> HIDE DEF S
    <2>3. 0 .. n \subseteq S
      BY <1>1, <2>1, <2>2, StepByStep
    <2> QED BY <2>3 DEF S
  <1>13. t[n] = f[n]
    <2>1. n \in 0 .. n
      BY <1>1
    <2> QED BY <1>12, <2>1
  <1>14. BrecvSteps(f, msg, picture, size)
    BY <1>6, <1>8 DEF BrecvSteps, n, X, x
  <1> QED BY <1>4, <1>13, <1>14 DEF n

LEMMA BrecvType ==
  ASSUME NEW msg \in Seq(W!SentFrame), msg # <<>>, NEW picture \in Seq(PictureTypes), NEW size \in Nat
  PROVE  W!Brecv(msg, picture, size) \in BrecvState(Len(msg))
  <1>1. PICK a : BrecvSteps(a, msg, picture, size) /\ W!Brecv(msg, picture, size) = a[Len(picture)]
    BY BrecvRuns
  <1>2. Len(picture) \in 0 .. Len(picture)
    BY LengthNat
  <1> QED BY <1>1, <1>2 DEF BrecvSteps

(* brecv() has written behind the block, or the cache is as long as before.   *)
LEMMA BrecvCache ==
  ASSUME NEW msg \in Seq(W!SentFrame), msg # <<>>, NEW picture \in Seq(PictureTypes), NEW size \in Nat,
         NEW r, r = W!Brecv(msg, picture, size), ~r.overrun
  PROVE  r.cache_size = size
  <1>1. PICK a : BrecvSteps(a, msg, picture, size) /\ r = a[Len(picture)]
    BY BrecvRuns
  <1> DEFINE n == Len(picture)
             S == {k \in 0 .. n : ~a[k].overrun => a[k].cache_size = size}
  <1>2. n \in Nat /\ \A k \in 1 .. n : k \in 0 .. n /\ k - 1 \in 0 .. n /\ picture[k] \in PictureTypes
    BY LengthNat
  <1>3. 0 \in S
    <2>1. a[0].cache_size = size
      BY <1>1 DEF BrecvSteps, BrecvStart
    <2>2. 0 \in 0 .. n
      BY <1>2
    <2> QED BY <2>1, <2>2
  <1>4. ASSUME NEW k \in 1 .. n, k - 1 \in S PROVE k \in S
    <2>1. PICK s \in BrecvState(Len(msg)) : s = a[k - 1]
      BY <1>1, <1>2 DEF BrecvSteps
    <2>2. a[k] = W!BrecvElement(s, picture[k], msg)
      BY <1>1, <2>1 DEF BrecvSteps
    <2>3. SameCache(a[k], s)
      BY <1>2, <2>2, StepType
    <2>4. ~s.overrun => s.cache_size = size
      BY <1>4, <2>1
    <2>5. ~a[k].overrun => a[k].cache_size = size
      BY <2>3, <2>4 DEF SameCache
    <2> QED BY <1>2, <2>5
  <1> HIDE DEF S
  <1>5. 0 .. n \subseteq S
    <2> HIDE DEF n
    <2> QED BY <1>2, <1>3, <1>4, StepByStep
  <1>6. n \in S
    BY <1>2, <1>5
  <1> QED BY <1>1, <1>6 DEF S

(* A message at the end takes all frames, when nothing before it has failed.  *)
LEMMA BrecvReadsAll ==
  ASSUME NEW msg \in Seq(W!SentFrame), msg # <<>>, NEW picture \in Seq(PictureTypes), NEW size \in Nat,
         NEW r, r = W!Brecv(msg, picture, size), r.rc = 0, picture # <<>>, picture[Len(picture)] = "m"
  PROVE  r.taken = Len(msg)
  <1>1. PICK a : BrecvSteps(a, msg, picture, size) /\ r = a[Len(picture)]
    BY BrecvRuns
  <1>2. PICK n \in Nat : n = Len(picture) /\ n \in 1 .. n /\ n - 1 \in 0 .. n
    BY LengthNat, EmptySeq
  <1>3. PICK s \in BrecvState(Len(msg)) : s = a[n - 1]
    BY <1>1, <1>2 DEF BrecvSteps
  <1>4. r = W!BrecvElement(s, "m", msg)
    BY <1>1, <1>2, <1>3 DEF BrecvSteps
  <1>5. PICK b : b = W!Rest(msg[1].body, s.needle)
    OBVIOUS
  <1>6. ElementOf(msg, s, "m", b)
    BY <1>5, ElementIs
  <1>7. s.rc \in {-1, 0} /\ Len(msg) \in Nat
    BY StateIs, LengthNat
  <1>8. s.rc # -1
    BY <1>4, <1>6 DEF ElementOf
  <1>9. s.taken < Len(msg)
    <2>1. ASSUME ~(s.taken < Len(msg)) PROVE r.rc = -1
      <3>1. r = [s EXCEPT !.rc = -1]
        BY <1>4, <1>6, <1>7, <1>8, <2>1 DEF ElementOf
      <3> QED BY <3>1 DEF BrecvState
    <2> QED BY <2>1
  <1>10. r = [s EXCEPT !.taken = Len(msg), !.values = Append(@, SubSeq(msg, s.taken + 1, Len(msg)))]
    BY <1>4, <1>6, <1>7, <1>8, <1>9 DEF ElementOf
  <1>11. \A v : [s EXCEPT !.taken = Len(msg), !.values = v].taken = Len(msg)
    BY DEF BrecvState
  <1> QED BY <1>10, <1>11

-----------------------------------------------------------------------------
(* The frames that are sent.                                                 *)

LEMMA FramesMade ==
  /\ \A b \in Seq(Byte) : W!Bytes(b) \in W!SentFrame
  /\ \A n \in Nat : W!Decimal(n) \in W!SentFrame /\ W!Lettered(n) \in W!SentFrame
  /\ \A n \in Statuses : [form |-> "signal", body |-> <<n>>] \in W!SentFrame
  /\ W!Empty \in W!SentFrame
  <1>1. \A b \in Seq(Byte) : W!Bytes(b) \in W!SentFrame
    BY SameBytes DEF W!SentFrame, W!Bytes
  <1>2. \A T : \A n \in T : <<n>> \in [1 .. 1 -> T]
    OBVIOUS
  <1>3. \A n \in Nat : W!Decimal(n) \in W!SentFrame /\ W!Lettered(n) \in W!SentFrame
    BY <1>2, Zenon DEF W!SentFrame, W!Decimal, W!Lettered
  <1>4. \A n \in Statuses : [form |-> "signal", body |-> <<n>>] \in W!SentFrame
    BY <1>2, Zenon DEF W!SentFrame
  <1>5. W!Empty \in W!SentFrame
    <2>1. <<>> \in Seq(Byte)
      OBVIOUS
    <2> QED BY <1>1, <2>1 DEF W!Empty
  <1> QED BY <1>1, <1>3, <1>4, <1>5

LEMMA BytesOf ==
  ASSUME NEW q \in Seq(Seq(Byte))
  PROVE  /\ [i \in DOMAIN q |-> W!Bytes(q[i])] \in Seq(W!SentFrame)
         /\ Len([i \in DOMAIN q |-> W!Bytes(q[i])]) = Len(q)
  <1> DEFINE n == Len(q)  r == [i \in 1 .. n |-> W!Bytes(q[i])]
  <1>1. n \in Nat /\ DOMAIN q = 1 .. n /\ \A i \in 1 .. n : q[i] \in Seq(Byte)
    OBVIOUS
  <1>2. \A i \in 1 .. n : W!Bytes(q[i]) \in W!SentFrame
    BY <1>1, FramesMade
  <1> HIDE DEF n
  <1>3. \A S : \A f \in [1 .. n -> S] : f \in Seq(S) /\ Len(f) = n
    BY <1>1
  <1>4. r \in [1 .. n -> W!SentFrame]
    BY <1>2
  <1>5. r \in Seq(W!SentFrame) /\ Len(r) = n
    BY <1>3, <1>4
  <1> QED BY <1>1, <1>5 DEF n

LEMMA SendElement ==
  ASSUME NEW e \in W!Sendable
  PROVE  /\ e.type \in {"i", "u", "s", "b", "c", "f", "p", "m", "z"} /\ e.null \in BOOLEAN
         /\ e.type \in {"i", "u"} => e.value \in Nat
         /\ e.type \in {"s", "b", "c", "f", "p"} => e.value \in Seq(Byte)
         /\ e.type = "p" => Len(e.value) = PointerSize
         /\ e.type = "m" => e.value \in Seq(Seq(Byte)) /\ ~e.null
  <1>1. Long \in Nat
    BY Bits
  <1>2. \/ e \in W!Element({"i", "u"}, 0 .. Long - 1)
        \/ e \in W!Element({"s", "b", "c", "f"}, Seq(Byte))
        \/ e \in W!Element({"p"}, W!Pointers)
        \/ e \in W!Element({"m"}, Seq(Seq(Byte)))
        \/ e \in W!Element({"z"}, {<<>>})
        \/ e \in W!Nulls({"s"})
    BY SameBytes DEF W!Sendable
  <1>3. CASE e \in W!Element({"i", "u"}, 0 .. Long - 1)
    <2>1. e.type \in {"i", "u"} /\ e.value \in 0 .. Long - 1 /\ e.null = FALSE
      BY <1>3 DEF W!Element
    <2>2. e.value \in Nat
      BY <1>1, <2>1
    <2> QED BY <2>1, <2>2
  <1>4. CASE e \in W!Element({"s", "b", "c", "f"}, Seq(Byte))
    BY <1>4 DEF W!Element
  <1>5. CASE e \in W!Element({"p"}, W!Pointers)
    BY <1>5, SameBytes DEF W!Element, W!Pointers
  <1>6. CASE e \in W!Element({"m"}, Seq(Seq(Byte)))
    BY <1>6 DEF W!Element
  <1>7. CASE e \in W!Element({"z"}, {<<>>})
    BY <1>7 DEF W!Element
  <1>8. CASE e \in W!Nulls({"s"})
    <2>1. e.type = "s" /\ e.value = <<>> /\ e.null = TRUE
      BY <1>8 DEF W!Nulls
    <2>2. <<>> \in Seq(Byte)
      OBVIOUS
    <2> QED BY <2>1, <2>2
  <1> QED BY <1>2, <1>3, <1>4, <1>5, <1>6, <1>7, <1>8

LEMMA OneFrameOf == ASSUME NEW T, NEW x \in T PROVE <<x>> \in Seq(T) /\ Len(<<x>>) = 1 /\ <<x>>[1] = x /\ <<x>> # <<>>
  OBVIOUS

(* The frames of one element, as send() and bsend() make them.               *)
LEMMA ElementFramesType ==
  ASSUME NEW e \in W!Sendable
  PROVE  W!ElementFrames(e) \in Seq(W!SentFrame)
  <1>1. e.type \in {"i", "u", "s", "b", "c", "f", "p", "m", "z"}
    BY SendElement
  <1>2. CASE e.type \in {"i", "u"}
    <2>1. W!Decimal(e.value) \in W!SentFrame /\ W!Lettered(e.value) \in W!SentFrame
      BY <1>2, SendElement, FramesMade
    <2>2. W!ElementFrames(e) = <<W!Decimal(e.value)>> \/ W!ElementFrames(e) = <<W!Lettered(e.value)>>
      BY <1>2 DEF W!ElementFrames
    <2> QED BY <2>1, <2>2, OneFrameOf
  <1>3. CASE e.type \in {"s", "b", "c", "f", "p"}
    <2>1. W!Bytes(e.value) \in W!SentFrame
      BY <1>3, SendElement, FramesMade
    <2>2. W!ElementFrames(e) = <<W!Bytes(e.value)>>
      BY <1>3 DEF W!ElementFrames
    <2> QED BY <2>1, <2>2, OneFrameOf
  <1>4. CASE e.type = "m"
    <2>1. [i \in DOMAIN e.value |-> W!Bytes(e.value[i])] \in Seq(W!SentFrame)
      BY <1>4, SendElement, BytesOf
    <2>2. W!ElementFrames(e) = [i \in DOMAIN e.value |-> W!Bytes(e.value[i])]
      BY <1>4 DEF W!ElementFrames
    <2> QED BY <2>1, <2>2
  <1>5. CASE e.type = "z"
    <2>1. W!ElementFrames(e) = <<W!Empty>>
      BY <1>5 DEF W!ElementFrames
    <2> QED BY <2>1, FramesMade, OneFrameOf
  <1> QED BY <1>1, <1>2, <1>3, <1>4, <1>5

ExtraOf(e) ==
  CASE e.type = "f" -> <<W!Bytes(e.value)>>
    [] e.type = "m" -> IF e.null THEN <<W!Empty>> ELSE [k \in DOMAIN e.value |-> W!Bytes(e.value[k])]
    [] OTHER -> <<>>

LEMMA ExtraType ==
  ASSUME NEW e \in W!Bsendable
  PROVE  ExtraOf(e) \in Seq(W!SentFrame)
  <1>1. e.type \in BinaryTypes \cup {"f", "m"} /\ e.null \in BOOLEAN
    BY BsendElement
  <1>2. CASE e.type = "f"
    <2>1. W!Bytes(e.value) \in W!SentFrame
      BY <1>2, BsendElement, FramesMade
    <2>2. ExtraOf(e) = <<W!Bytes(e.value)>>
      BY <1>2 DEF ExtraOf
    <2> QED BY <2>1, <2>2, OneFrameOf
  <1>3. CASE e.type = "m" /\ e.null
    <2>1. ExtraOf(e) = <<W!Empty>>
      BY <1>3 DEF ExtraOf
    <2> QED BY <2>1, FramesMade, OneFrameOf
  <1>4. CASE e.type = "m" /\ ~e.null
    <2>1. [i \in DOMAIN e.value |-> W!Bytes(e.value[i])] \in Seq(W!SentFrame)
      BY <1>4, BsendElement, BytesOf
    <2>2. ExtraOf(e) = [i \in DOMAIN e.value |-> W!Bytes(e.value[i])]
      BY <1>4 DEF ExtraOf
    <2> QED BY <2>1, <2>2
  <1>5. CASE e.type \in BinaryTypes
    <2>1. ExtraOf(e) = <<>>
      BY <1>5 DEF ExtraOf, BinaryTypes
    <2>2. <<>> \in Seq(W!SentFrame)
      OBVIOUS
    <2> QED BY <2>1, <2>2
  <1> QED BY <1>1, <1>2, <1>3, <1>4, <1>5

(* A sequence of n values, one for each index.                               *)
LEMMA ListOf ==
  ASSUME NEW n \in Nat, NEW S
  PROVE  \A f \in [1 .. n -> S] : f \in Seq(S) /\ Len(f) = n /\ DOMAIN f = 1 .. n
  OBVIOUS

LEMMA PictureFramesType ==
  ASSUME NEW args \in Seq(W!Sendable)
  PROVE  /\ [i \in DOMAIN args |-> W!ElementFrames(args[i])] \in Seq(Seq(W!SentFrame))
         /\ Len([i \in DOMAIN args |-> W!ElementFrames(args[i])]) = Len(args)
         /\ W!PictureFrames(args) \in Seq(W!SentFrame)
  <1> DEFINE n == Len(args)  X == Seq(W!SentFrame)  qs == [i \in 1 .. n |-> W!ElementFrames(args[i])]
  <1>1. n \in Nat /\ DOMAIN args = 1 .. n /\ \A i \in 1 .. n : args[i] \in W!Sendable
    OBVIOUS
  <1>2. qs \in [1 .. n -> X]
    BY <1>1, ElementFramesType
  <1>3. W!PictureFrames(args) = FlattenSeq(qs)
    BY <1>1, SameFlatten DEF W!PictureFrames
  <1> HIDE DEF n, X, qs
  <1>4. qs \in Seq(X) /\ Len(qs) = n
    BY <1>1, <1>2, ListOf
  <1>5. FlattenSeq(qs) \in Seq(W!SentFrame)
    BY <1>4, FlattenJoins, FlattenIs DEF X
  <1> QED BY <1>1, <1>3, <1>4, <1>5 DEF n, X, qs

LEMMA ExtraFramesType ==
  ASSUME NEW args \in Seq(W!Bsendable)
  PROVE  /\ [i \in DOMAIN args |-> ExtraOf(args[i])] \in Seq(Seq(W!SentFrame))
         /\ Len([i \in DOMAIN args |-> ExtraOf(args[i])]) = Len(args)
         /\ W!ExtraFrames(args) = FlattenSeq([i \in DOMAIN args |-> ExtraOf(args[i])])
         /\ W!ExtraFrames(args) \in Seq(W!SentFrame)
  <1> DEFINE n == Len(args)  X == Seq(W!SentFrame)  qs == [i \in 1 .. n |-> ExtraOf(args[i])]
  <1>1. n \in Nat /\ DOMAIN args = 1 .. n /\ \A i \in 1 .. n : args[i] \in W!Bsendable
    OBVIOUS
  <1>2. qs \in [1 .. n -> X]
    BY <1>1, ExtraType
  <1>3. W!ExtraFrames(args) = FlattenSeq(qs)
    BY <1>1, SameFlatten DEF W!ExtraFrames, ExtraOf
  <1> HIDE DEF n, X, qs
  <1>4. qs \in Seq(X) /\ Len(qs) = n
    BY <1>1, <1>2, ListOf
  <1>5. FlattenSeq(qs) \in Seq(W!SentFrame)
    BY <1>4, FlattenJoins, FlattenIs DEF X
  <1> QED BY <1>1, <1>3, <1>4, <1>5 DEF n, X, qs

LEMMA WrittenType ==
  ASSUME NEW args \in Seq(W!Bsendable)
  PROVE  /\ [i \in DOMAIN args |-> W!Written(args[i])] \in Seq(Seq(Byte))
         /\ Len([i \in DOMAIN args |-> W!Written(args[i])]) = Len(args)
         /\ FlattenSeq([i \in DOMAIN args |-> W!Written(args[i])]) \in Seq(Byte)
  <1> DEFINE n == Len(args)  X == Seq(Byte)  qs == [i \in 1 .. n |-> W!Written(args[i])]
  <1>1. n \in Nat /\ DOMAIN args = 1 .. n /\ \A i \in 1 .. n : args[i] \in W!Bsendable
    OBVIOUS
  <1>2. qs \in [1 .. n -> X]
    BY <1>1, WrittenBytes
  <1> HIDE DEF n, X, qs
  <1>4. qs \in Seq(X) /\ Len(qs) = n
    BY <1>1, <1>2, ListOf
  <1>5. FlattenSeq(qs) \in Seq(Byte)
    BY <1>4, FlattenJoins, FlattenIs DEF X
  <1> QED BY <1>1, <1>4, <1>5 DEF n, X, qs

LEMMA UnwrittenNat == ASSUME NEW args \in Seq(W!Bsendable) PROVE W!Unwritten(args) \in Nat
  <1> DEFINE K == {i \in DOMAIN args : args[i].type = "c" /\ args[i].null}
  <1>1. DOMAIN args = 1 .. Len(args) /\ Len(args) \in Nat
    OBVIOUS
  <1>2. IsFiniteSet(1 .. Len(args)) /\ K \in SUBSET (1 .. Len(args))
    BY <1>1, FS_Interval
  <1>3. Cardinality(K) \in Nat
    BY <1>2, FS_Subset, FS_CardinalityType
  <1>4. W!Unwritten(args) = 4 * Cardinality(K)
    BY DEF W!Unwritten, W!Cardinality, Cardinality, W!IsFiniteSet, IsFiniteSet
  <1> QED BY <1>3, <1>4

LEMMA DataFrameType ==
  ASSUME NEW args \in Seq(W!Bsendable), NEW byte \in Leftovers
  PROVE  W!DataFrame(args, [i \in 1 .. W!Unwritten(args) |-> byte]) \in W!SentFrame
  <1> DEFINE w == FlattenSeq([i \in DOMAIN args |-> W!Written(args[i])])
             l == [i \in 1 .. W!Unwritten(args) |-> byte]
  <1>1. W!Unwritten(args) \in Nat
    BY UnwrittenNat
  <1>2. byte \in Byte
    BY WireGiven
  <1>3. l \in Seq(Byte)
    BY <1>1, <1>2, ListOf
  <1>4. w \in Seq(Byte)
    BY WrittenType
  <1>5. W!DataFrame(args, l) = W!Bytes(w \o l)
    BY SameFlatten DEF W!DataFrame
  <1> HIDE DEF w, l
  <1>6. w \o l \in Seq(Byte)
    BY <1>3, <1>4, ConcatOf
  <1>7. W!Bytes(w \o l) \in W!SentFrame
    BY <1>6, FramesMade
  <1> QED BY <1>5, <1>7 DEF l

-----------------------------------------------------------------------------
(* A gossip frame: what is read of any bytes stays in its type.              *)

GossipState == [g : W!GossipType, buffer : Seq(Byte), ok : BOOLEAN]

LEMMA GossipIs ==
  ASSUME NEW s \in GossipState
  PROVE  /\ s = [g |-> s.g, buffer |-> s.buffer, ok |-> s.ok]
         /\ s.g \in W!GossipType /\ s.buffer \in Seq(Byte) /\ s.ok \in BOOLEAN
         /\ s.g = [id |-> s.g.id, routing |-> s.g.routing, key |-> s.g.key, value |-> s.g.value, ttl |-> s.g.ttl]
         /\ s.g.id \in Byte /\ s.g.routing \in Seq(Nat) /\ s.g.key \in Seq(Byte)
         /\ s.g.value \in Seq(Byte) /\ s.g.ttl \in 0 .. Long - 1
  BY SameBytes DEF GossipState, W!GossipType

LEMMA FailedType == ASSUME NEW s \in GossipState PROVE W!Failed(s) \in GossipState
  BY DEF GossipState, W!Failed

LEMMA RestBytes == \A b \in Seq(Byte), k \in Nat : W!Rest(b, k) \in Seq(Byte) /\ W!Rest(b, k) = Rest(b, k)
  BY RestAlways, SameBytes

LEMMA GetSignatureType == ASSUME NEW s \in GossipState PROVE W!GetSignature(s) \in GossipState
  <1>1. s.buffer \in Seq(Byte)
    BY GossipIs
  <1>2. W!Rest(s.buffer, 2) \in Seq(Byte)
    BY <1>1, RestBytes
  <1>3. [s EXCEPT !.buffer = W!Rest(@, 2)] \in GossipState
    BY <1>2 DEF GossipState
  <1> QED BY <1>3, FailedType DEF W!GetSignature

LEMMA GetIdType == ASSUME NEW s \in GossipState PROVE W!GetId(s) \in GossipState
  <1>1. s.buffer \in Seq(Byte)
    BY GossipIs
  <1>2. CASE ~s.ok \/ ~W!Holds(s.buffer, 1)
    BY <1>2, FailedType DEF W!GetId
  <1>3. CASE s.ok /\ W!Holds(s.buffer, 1)
    <2> DEFINE id == Get1(s.buffer)  rest == W!Rest(s.buffer, 1)  ok == id \in W!MessageId
    <2>1. id \in Byte
      <3>1. 1 \in 1 .. Len(s.buffer)
        BY <1>1, <1>3, LengthNat DEF W!Holds
      <3> QED BY <1>1, <3>1, ElementOfSeq DEF Get1
    <2>2. rest \in Seq(Byte) /\ ok \in BOOLEAN
      BY <1>1, RestBytes
    <2>3. W!GetId(s) = [s EXCEPT !.g.id = id, !.buffer = rest, !.ok = ok]
      BY <1>3, SameBytes DEF W!GetId
    <2> HIDE DEF id, rest, ok
    <2>4. [s.g EXCEPT !.id = id] \in W!GossipType
      BY <2>1, <2>2, GossipIs, SameBytes DEF W!GossipType
    <2> DEFINE h == [s.g EXCEPT !.id = id]
    <2> HIDE DEF h
    <2>5. [s EXCEPT !.g = h, !.buffer = rest, !.ok = ok] \in GossipState
      BY <2>1, <2>2, GossipIs, <2>4 DEF GossipState, h
    <2> QED BY <2>3, <2>5 DEF h
  <1> QED BY <1>2, <1>3

LEMMA GetVersionType == ASSUME NEW s \in GossipState PROVE W!GetVersion(s) \in GossipState
  <1>1. s.buffer \in Seq(Byte)
    BY GossipIs
  <1>2. W!Rest(s.buffer, 1) \in Seq(Byte)
    BY <1>1, RestBytes
  <1>3. [s EXCEPT !.buffer = W!Rest(@, 1), !.ok = W!Get1(s.buffer) = 1] \in GossipState
    BY <1>2 DEF GossipState
  <1> QED BY <1>3, FailedType DEF W!GetVersion

LEMMA GetKeyType == ASSUME NEW s \in GossipState PROVE W!GetKey(s) \in GossipState
  <1>1. s.buffer \in Seq(Byte) /\ Len(s.buffer) \in Nat
    BY GossipIs, LengthNat
  <1>2. CASE ~s.ok \/ ~W!Holds(s.buffer, 1) \/ ~W!Holds(s.buffer, 1 + Get1(s.buffer))
    BY <1>2, FailedType, SameBytes DEF W!GetKey
  <1>3. CASE s.ok /\ W!Holds(s.buffer, 1) /\ W!Holds(s.buffer, 1 + Get1(s.buffer))
    <2> DEFINE end == 1 + Get1(s.buffer)  key == SubSeq(s.buffer, 2, end)  rest == W!Rest(s.buffer, end)
    <2>1. Get1(s.buffer) \in Nat
      <3>1. 1 \in 1 .. Len(s.buffer)
        BY <1>1, <1>3 DEF W!Holds
      <3> QED BY <1>1, <3>1, ElementOfSeq, ByteIs DEF Get1
    <2>2. end \in Nat /\ end <= Len(s.buffer) /\ end >= 1
      BY <1>3, <2>1 DEF W!Holds
    <2> HIDE DEF end
    <2>3. 2 \in 1 .. Len(s.buffer) + 1 /\ end \in 0 .. Len(s.buffer) /\ 2 <= end + 1
      BY <1>1, <2>2
    <2>4. key \in Seq(Byte) /\ rest \in Seq(Byte)
      BY <1>1, <2>2, <2>3, PartOf, RestBytes
    <2>5. W!GetKey(s) = [s EXCEPT !.g.key = key, !.buffer = rest]
      BY <1>3, SameBytes DEF W!GetKey, end
    <2> HIDE DEF key, rest
    <2>6. [s.g EXCEPT !.key = key] \in W!GossipType
      BY <2>4, GossipIs, SameBytes DEF W!GossipType
    <2> DEFINE h == [s.g EXCEPT !.key = key]
    <2> HIDE DEF h
    <2>7. [s EXCEPT !.g = h, !.buffer = rest] \in GossipState
      BY <2>4, GossipIs, <2>6 DEF GossipState, h
    <2> QED BY <2>5, <2>7 DEF h
  <1> QED BY <1>2, <1>3

LEMMA GetValueType == ASSUME NEW s \in GossipState PROVE W!GetValue(s) \in GossipState
  <1>1. s.buffer \in Seq(Byte) /\ Len(s.buffer) \in Nat
    BY GossipIs, LengthNat
  <1>2. CASE ~s.ok \/ ~W!Holds(s.buffer, 4) \/ ~W!Holds(s.buffer, 4 + Get4(s.buffer))
    BY <1>2, FailedType, SameBytes DEF W!GetValue
  <1>3. CASE s.ok /\ W!Holds(s.buffer, 4) /\ W!Holds(s.buffer, 4 + Get4(s.buffer))
    <2> DEFINE end == 4 + Get4(s.buffer)  value == SubSeq(s.buffer, 5, end)  rest == W!Rest(s.buffer, end)
    <2>1. Get4(s.buffer) \in Nat
      <3>1. Get4(s.buffer) \in 0 .. Long - 1
        BY <1>1, <1>3, NumberOf DEF W!Holds
      <3> QED BY <3>1, Bits
    <2>2. end \in Nat /\ end <= Len(s.buffer) /\ end >= 4
      BY <1>3, <2>1 DEF W!Holds
    <2> HIDE DEF end
    <2>3. 5 \in 1 .. Len(s.buffer) + 1 /\ end \in 0 .. Len(s.buffer) /\ 5 <= end + 1
      BY <1>1, <2>2
    <2>4. value \in Seq(Byte) /\ rest \in Seq(Byte)
      BY <1>1, <2>2, <2>3, PartOf, RestBytes
    <2>5. W!GetValue(s) = [s EXCEPT !.g.value = value, !.buffer = rest]
      BY <1>3, SameBytes DEF W!GetValue, end
    <2> HIDE DEF value, rest
    <2>6. [s.g EXCEPT !.value = value] \in W!GossipType
      BY <2>4, GossipIs, SameBytes DEF W!GossipType
    <2> DEFINE h == [s.g EXCEPT !.value = value]
    <2> HIDE DEF h
    <2>7. [s EXCEPT !.g = h, !.buffer = rest] \in GossipState
      BY <2>4, GossipIs, <2>6 DEF GossipState, h
    <2> QED BY <2>5, <2>7 DEF h
  <1> QED BY <1>2, <1>3

LEMMA GetTtlType == ASSUME NEW s \in GossipState PROVE W!GetTtl(s) \in GossipState
  <1>1. s.buffer \in Seq(Byte) /\ Len(s.buffer) \in Nat
    BY GossipIs, LengthNat
  <1>2. CASE ~s.ok \/ ~W!Holds(s.buffer, 4)
    BY <1>2, FailedType DEF W!GetTtl
  <1>3. CASE s.ok /\ W!Holds(s.buffer, 4)
    <2> DEFINE ttl == Get4(s.buffer)  rest == W!Rest(s.buffer, 4)
    <2>1. ttl \in 0 .. Long - 1
      BY <1>1, <1>3, NumberOf DEF W!Holds
    <2>2. rest \in Seq(Byte)
      BY <1>1, RestBytes
    <2>3. W!GetTtl(s) = [s EXCEPT !.g.ttl = ttl, !.buffer = rest]
      BY <1>3, SameBytes DEF W!GetTtl
    <2> HIDE DEF ttl, rest
    <2>4. [s.g EXCEPT !.ttl = ttl] \in W!GossipType
      BY <2>1, <2>2, GossipIs, SameBytes DEF W!GossipType
    <2> DEFINE h == [s.g EXCEPT !.ttl = ttl]
    <2> HIDE DEF h
    <2>5. [s EXCEPT !.g = h, !.buffer = rest] \in GossipState
      BY <2>1, <2>2, GossipIs, <2>4 DEF GossipState, h
    <2> QED BY <2>3, <2>5 DEF h
  <1> QED BY <1>2, <1>3

LEMMA GossipParseType ==
  ASSUME NEW g \in W!GossipType, NEW buffer \in Seq(Byte)
  PROVE  W!GossipParse(g, buffer) \in GossipState
  <1> DEFINE s == [g |-> g, buffer |-> buffer, ok |-> TRUE]
             head == W!GetVersion(W!GetId(W!GetSignature(s)))
  <1>1. s \in GossipState
    BY DEF GossipState
  <1> HIDE DEF s
  <1>2. head \in GossipState
    BY <1>1, GetSignatureType, GetIdType, GetVersionType
  <1>3. W!GetTtl(W!GetValue(W!GetKey(head))) \in GossipState
    BY <1>2, GetKeyType, GetValueType, GetTtlType
  <1>4. W!GossipParse(g, buffer) =
          IF head.ok /\ head.g.id = W!PUBLISH THEN W!GetTtl(W!GetValue(W!GetKey(head))) ELSE head
    BY DEF W!GossipParse, s
  <1> QED BY <1>2, <1>3, <1>4

LEMMA FailedIs ==
  ASSUME NEW x, NEW y
  PROVE  [[g |-> x, buffer |-> y, ok |-> TRUE] EXCEPT !.ok = FALSE] = [g |-> x, buffer |-> y, ok |-> FALSE]
  <1> DEFINE s == [g |-> x, buffer |-> y, ok |-> TRUE]
  <1>1. s \in [g : {x}, buffer : {y}, ok : BOOLEAN]
    OBVIOUS
  <1> HIDE DEF s
  <1>2. [s EXCEPT !.ok = FALSE] \in [g : {x}, buffer : {y}, ok : BOOLEAN] /\ [s EXCEPT !.ok = FALSE].ok = FALSE
    BY <1>1
  <1>3. ASSUME NEW r \in [g : {x}, buffer : {y}, ok : BOOLEAN], r.ok = FALSE
        PROVE  r = [g |-> x, buffer |-> y, ok |-> FALSE]
    BY <1>3
  <1> QED BY <1>2, <1>3 DEF s

(* A frame of one byte is no gossip frame, whatever the byte.                *)
LEMMA GossipShort ==
  ASSUME NEW g, NEW buffer, Len(buffer) = 1
  PROVE  W!GossipParse(g, buffer) = [g |-> g, buffer |-> buffer, ok |-> FALSE]
  <1> DEFINE s == [g |-> g, buffer |-> buffer, ok |-> TRUE]
             f == [g |-> g, buffer |-> buffer, ok |-> FALSE]
  <1>1. W!GetSignature(s) = f
    <2>1. s.buffer = buffer /\ ~W!Holds(buffer, 2)
      BY DEF W!Holds
    <2>2. W!Failed(s) = f
      BY FailedIs DEF W!Failed
    <2> HIDE DEF s, f
    <2> QED BY <2>1, <2>2 DEF W!GetSignature
  <1>2. W!GetId(f) = f /\ W!GetVersion(f) = f
    BY DEF W!GetId, W!GetVersion, W!Failed
  <1> QED BY <1>1, <1>2 DEF W!GossipParse

LEMMA GossipRecvType ==
  ASSUME NEW g \in W!GossipType, NEW msg \in Seq(W!SentFrame), msg # <<>>, NEW router \in BOOLEAN
  PROVE  \A bodies : bodies = [i \in DOMAIN msg |-> msg[i].body] =>
           /\ W!GossipRecv(g, bodies, router).g \in W!GossipType
           /\ W!GossipRecv(g, bodies, router).ok \in BOOLEAN
           /\ W!GossipRecv(g, bodies, router).taken \in 1 .. Len(msg)
  <1> SUFFICES ASSUME NEW bodies, bodies = [i \in DOMAIN msg |-> msg[i].body]
               PROVE  /\ W!GossipRecv(g, bodies, router).g \in W!GossipType
                      /\ W!GossipRecv(g, bodies, router).ok \in BOOLEAN
                      /\ W!GossipRecv(g, bodies, router).taken \in 1 .. Len(msg)
    OBVIOUS
  <1> DEFINE n == Len(msg)
  <1>1. n \in Nat /\ n >= 1 /\ DOMAIN msg = 1 .. n
    BY DataIs, LenProperties
  <1>2. bodies = [i \in 1 .. n |-> msg[i].body] /\ Len(bodies) = n
    BY <1>1, ListOf
  <1>3. \A i \in 1 .. n : bodies[i] = msg[i].body /\ msg[i] \in W!SentFrame
    BY <1>1, <1>2
  <1>4. \A i \in 1 .. n : bodies[i] \in Seq(Nat) /\ (bodies[i] \in Seq(Byte) \/ Len(bodies[i]) = 1)
    <2> SUFFICES ASSUME NEW i \in 1 .. n PROVE bodies[i] \in Seq(Nat) /\ (bodies[i] \in Seq(Byte) \/ Len(bodies[i]) = 1)
      OBVIOUS
    <2>1. bodies[i] = msg[i].body /\ msg[i] \in W!SentFrame
      BY <1>3
    <2> QED BY <2>1, FrameIs
  <1>5. \A h \in W!GossipType, i \in 1 .. n :
          W!GossipParse(h, bodies[i]).g \in W!GossipType /\ W!GossipParse(h, bodies[i]).ok \in BOOLEAN
    <2> SUFFICES ASSUME NEW h \in W!GossipType, NEW i \in 1 .. n
                 PROVE  W!GossipParse(h, bodies[i]).g \in W!GossipType /\ W!GossipParse(h, bodies[i]).ok \in BOOLEAN
      OBVIOUS
    <2>1. CASE bodies[i] \in Seq(Byte)
      <3>1. W!GossipParse(h, bodies[i]) \in GossipState
        BY <2>1, GossipParseType
      <3> QED BY <3>1, GossipIs
    <2>2. CASE Len(bodies[i]) = 1
      <3>1. W!GossipParse(h, bodies[i]) = [g |-> h, buffer |-> bodies[i], ok |-> FALSE]
        BY <2>2, GossipShort
      <3>2. \A x, y : [g |-> x, buffer |-> y, ok |-> FALSE].g = x /\ [g |-> x, buffer |-> y, ok |-> FALSE].ok \in BOOLEAN
        OBVIOUS
      <3> QED BY <3>1, <3>2, Zenon
    <2> QED BY <1>4, <2>1, <2>2
  <1> DEFINE routed == IF router THEN [g EXCEPT !.routing = bodies[1]] ELSE g
  <1>6. routed \in W!GossipType
    <2>1. 1 \in 1 .. n
      BY <1>1
    <2>2. bodies[1] \in Seq(Nat)
      BY <1>4, <2>1
    <2> QED BY <2>2 DEF W!GossipType
  <1> HIDE DEF routed
  <1>7. CASE router /\ n = 1
    <2>1. W!GossipRecv(g, bodies, router) = [g |-> routed, ok |-> FALSE, taken |-> 1]
      BY <1>2, <1>7 DEF W!GossipRecv, routed
    <2>2. \A x : [g |-> x, ok |-> FALSE, taken |-> 1].g = x /\ [g |-> x, ok |-> FALSE, taken |-> 1].ok \in BOOLEAN
                  /\ [g |-> x, ok |-> FALSE, taken |-> 1].taken = 1
      OBVIOUS
    <2>3. 1 \in 1 .. n
      BY <1>1
    <2> QED BY <1>6, <2>1, <2>2, <2>3, Zenon
  <1>8. CASE router /\ n # 1
    <2>1. W!GossipRecv(g, bodies, router) =
            [g |-> W!GossipParse(routed, bodies[2]).g, ok |-> W!GossipParse(routed, bodies[2]).ok, taken |-> 2]
      BY <1>2, <1>8 DEF W!GossipRecv, routed
    <2>2. 2 \in 1 .. n
      BY <1>1, <1>8
    <2>3. W!GossipParse(routed, bodies[2]).g \in W!GossipType /\ W!GossipParse(routed, bodies[2]).ok \in BOOLEAN
      BY <1>5, <1>6, <2>2
    <2> QED BY <2>1, <2>2, <2>3
  <1>9. CASE ~router
    <2>1. W!GossipRecv(g, bodies, router) =
            [g |-> W!GossipParse(routed, bodies[1]).g, ok |-> W!GossipParse(routed, bodies[1]).ok, taken |-> 1]
      BY <1>2, <1>9 DEF W!GossipRecv, routed
    <2>2. 1 \in 1 .. n
      BY <1>1
    <2>3. W!GossipParse(routed, bodies[1]).g \in W!GossipType /\ W!GossipParse(routed, bodies[1]).ok \in BOOLEAN
      BY <1>5, <1>6, <2>2
    <2> QED BY <2>1, <2>2, <2>3
  <1> QED BY <1>7, <1>8, <1>9

-----------------------------------------------------------------------------
(* The gossip frames that are sent.                                          *)

GossipSent ==
  [id : Byte, routing : Seq(Byte), key : {k \in Seq(Byte) : Len(k) < Base},
   value : {v \in Seq(Byte) : Len(v) < Long}, ttl : 0 .. Long - 1]

LEMMA SetKeyIs ==
  ASSUME NEW g \in Gossips
  PROVE  W!SetKey(g, g.key) \in GossipSent
  <1> DEFINE k == IF Len(g.key) < Base THEN Len(g.key) ELSE Base - 1
  <1>1. g \in [id : Byte, routing : Seq(Byte), key : Seq(Byte),
               value : {v \in Seq(Byte) : Len(v) < Long}, ttl : 0 .. Long - 1]
    BY WireGiven
  <1>2. g.key \in Seq(Byte) /\ Len(g.key) \in Nat
    BY <1>1, LengthNat
  <1>3. k \in 0 .. Len(g.key) /\ k < Base
    BY <1>2, ByteIs
  <1>4. W!SetKey(g, g.key) = [g EXCEPT !.key = SubSeq(g.key, 1, k)]
    BY DEF W!SetKey
  <1> HIDE DEF k
  <1>5. SubSeq(g.key, 1, k) \in Seq(Byte) /\ Len(SubSeq(g.key, 1, k)) < Base
    BY <1>2, <1>3, FrontOf
  <1> QED BY <1>1, <1>4, <1>5 DEF GossipSent

(* The body of a gossip frame, piece behind piece.                           *)
GossipFields(g) ==
  Put1(Len(g.key)) \o (g.key \o (Put4(Len(g.value)) \o (g.value \o Put4(g.ttl))))

GossipTail(g) ==
  IF g.id \notin W!MessageId THEN <<>>
  ELSE Put1(1) \o (IF g.id = W!PUBLISH THEN GossipFields(g) ELSE <<>>)

Regroups(x, y, z) == (x \o y) \o z = x \o (y \o z)

LEMMA Regrouped == ASSUME NEW T PROVE \A x, y, z \in Seq(T) : Regroups(x, y, z)
  BY Associative DEF Regroups

InFive(a, b, c, d, e) == a \o b \o c \o d \o e = a \o (b \o (c \o (d \o e)))

LEMMA FivePieces ==
  ASSUME NEW T, NEW a \in Seq(T), NEW b \in Seq(T), NEW c \in Seq(T), NEW d \in Seq(T), NEW e \in Seq(T)
  PROVE  InFive(a, b, c, d, e) /\ a \o (b \o (c \o (d \o e))) \in Seq(T)
  <1>1. PICK de, ab \in Seq(T) : de = d \o e /\ ab = a \o b
    BY ConcatOf
  <1>2. PICK cde, abc \in Seq(T) : cde = c \o de /\ abc = ab \o c
    BY ConcatOf
  <1>3. PICK bcde \in Seq(T) : bcde = b \o cde
    BY ConcatOf
  <1>4. Regroups(abc, d, e) /\ Regroups(ab, c, de) /\ Regroups(a, b, cde)
    BY Regrouped
  <1>5. /\ (abc \o d) \o e = abc \o (d \o e) /\ (ab \o c) \o de = ab \o (c \o de)
        /\ (a \o b) \o cde = a \o (b \o cde)
    BY <1>4, Zenon DEF Regroups
  <1>7. a \o bcde \in Seq(T)
    BY ConcatOf
  <1>8. ((abc \o d) \o e) = a \o bcde
    BY <1>1, <1>2, <1>3, <1>5, Zenon
  <1>9. abc = (a \o b) \o c /\ bcde = b \o (c \o (d \o e))
    BY <1>1, <1>2, <1>3, Zenon
  <1> QED BY <1>7, <1>8, <1>9, Zenon DEF InFive

LEMMA GossipPieces ==
  ASSUME NEW g \in GossipSent
  PROVE  /\ g.id \in Byte /\ g.routing \in Seq(Byte) /\ g.key \in Seq(Byte) /\ Len(g.key) < Base
         /\ g.value \in Seq(Byte) /\ Len(g.value) < Long /\ g.ttl \in 0 .. Long - 1
         /\ Len(g.key) \in Nat /\ Len(g.value) \in Nat /\ g.ttl \in Nat /\ g.id \in Nat
         /\ Put2(Signature) \in Seq(Byte) /\ Put1(g.id) \in Seq(Byte) /\ Put1(1) \in Seq(Byte)
         /\ Put1(Len(g.key)) \in Seq(Byte) /\ Put4(Len(g.value)) \in Seq(Byte) /\ Put4(g.ttl) \in Seq(Byte)
         /\ GossipFields(g) \in Seq(Byte) /\ GossipTail(g) \in Seq(Byte)
  <1>1. /\ g.id \in Byte /\ g.routing \in Seq(Byte) /\ g.key \in Seq(Byte) /\ Len(g.key) < Base
        /\ g.value \in Seq(Byte) /\ Len(g.value) < Long /\ g.ttl \in 0 .. Long - 1
    BY DEF GossipSent
  <1>2. Len(g.key) \in Nat /\ Len(g.value) \in Nat /\ g.ttl \in Nat /\ g.id \in Nat /\ Signature \in Nat
    BY <1>1, LengthNat, ByteIs, Bits, WireGiven
  <1>3. /\ Put2(Signature) \in Seq(Byte) /\ Put1(g.id) \in Seq(Byte) /\ Put1(1) \in Seq(Byte)
        /\ Put1(Len(g.key)) \in Seq(Byte) /\ Put4(Len(g.value)) \in Seq(Byte) /\ Put4(g.ttl) \in Seq(Byte)
    <2>1. \A n \in Nat : Put1(n) \in Seq(Byte) /\ Put2(n) \in Seq(Byte) /\ Put4(n) \in Seq(Byte)
      BY PutBytes
    <2>2. 1 \in Nat
      OBVIOUS
    <2> QED BY <1>2, <2>1, <2>2, Zenon
  <1>4. GossipFields(g) \in Seq(Byte)
    BY <1>1, <1>3, FivePieces DEF GossipFields
  <1>5. GossipTail(g) \in Seq(Byte)
    <2>1. <<>> \in Seq(Byte)
      OBVIOUS
    <2>2. Put1(1) \o GossipFields(g) \in Seq(Byte) /\ Put1(1) \o <<>> \in Seq(Byte)
      BY <1>3, <1>4, <2>1, ConcatOf
    <2> QED BY <2>1, <2>2 DEF GossipTail
  <1> QED BY <1>1, <1>2, <1>3, <1>4, <1>5

LEMMA GossipBodyIs ==
  ASSUME NEW g \in GossipSent
  PROVE  /\ W!GossipBody(g) = Put2(Signature) \o (Put1(g.id) \o GossipTail(g))
         /\ W!GossipBody(g) \in Seq(Byte)
  <1> DEFINE v == IF g.id \in W!MessageId THEN Put1(1) ELSE <<>>
             f == IF g.id = W!PUBLISH THEN GossipFields(g) ELSE <<>>
  <1>1. PICK p, q \in Seq(Byte) : p = Put2(Signature) /\ q = Put1(g.id)
    BY GossipPieces
  <1>2. <<>> \in Seq(Byte) /\ v \in Seq(Byte) /\ f \in Seq(Byte)
    BY GossipPieces
  <1>3. W!PUBLISH \in W!MessageId
    BY DEF W!PUBLISH, W!MessageId
  <1>4. GossipTail(g) = v \o f
    <2>1. <<>> \o <<>> = <<>>
      BY NothingBefore
    <2> QED BY <1>3, <2>1 DEF GossipTail
  <1>5. W!GossipBody(g) = ((p \o q) \o v) \o f
    <2>1. Put1(Len(g.key)) \o g.key \o Put4(Len(g.value)) \o g.value \o Put4(g.ttl) = GossipFields(g)
      <3>1. PICK a, b, c, d, e \in Seq(Byte) :
              a = Put1(Len(g.key)) /\ b = g.key /\ c = Put4(Len(g.value)) /\ d = g.value /\ e = Put4(g.ttl)
        BY GossipPieces
      <3>2. InFive(a, b, c, d, e)
        BY FivePieces
      <3> QED BY <3>1, <3>2, Zenon DEF GossipFields, InFive
    <2> HIDE DEF v
    <2>2. W!GossipBody(g) = Put2(Signature) \o Put1(g.id) \o v
             \o (IF g.id = W!PUBLISH
                 THEN Put1(Len(g.key)) \o g.key \o Put4(Len(g.value)) \o g.value \o Put4(g.ttl)
                 ELSE <<>>)
      BY SameBytes DEF W!GossipBody, v
    <2> QED BY <1>1, <2>1, <2>2, Zenon
  <1> HIDE DEF v, f
  <1>6. p \o q \in Seq(Byte) /\ v \o f \in Seq(Byte) /\ q \o (v \o f) \in Seq(Byte) /\ p \o (q \o (v \o f)) \in Seq(Byte)
    <2>1. \A x, y \in Seq(Byte) : x \o y \in Seq(Byte)
      BY ConcatOf
    <2> QED BY <1>1, <1>2, <2>1, Zenon
  <1>7. ((p \o q) \o v) \o f = (p \o q) \o (v \o f) /\ (p \o q) \o (v \o f) = p \o (q \o (v \o f))
    <2>1. PICK x, y \in Seq(Byte) : x = p \o q /\ y = v \o f
      BY <1>6
    <2>2. Regroups(x, v, f) /\ Regroups(p, q, y)
      BY <1>2, Regrouped
    <2>3. (x \o v) \o f = x \o (v \o f) /\ (p \o q) \o y = p \o (q \o y)
      BY <2>2, Zenon DEF Regroups
    <2> QED BY <2>1, <2>3, Zenon
  <1> QED BY <1>1, <1>4, <1>5, <1>6, <1>7

LEMMA GossipFrames ==
  ASSUME NEW g \in GossipSent, NEW router \in BOOLEAN
  PROVE  \A msg : msg = W!GossipSend(g, router) =>
           /\ [i \in DOMAIN msg |-> W!Bytes(msg[i])] =
                IF router THEN <<W!Bytes(g.routing), W!Bytes(W!GossipBody(g))>> ELSE <<W!Bytes(W!GossipBody(g))>>
           /\ [i \in DOMAIN msg |-> W!Bytes(msg[i])] \in Seq(W!SentFrame)
           /\ [i \in DOMAIN msg |-> W!Bytes(msg[i])] # <<>>
  <1> SUFFICES ASSUME NEW msg, msg = W!GossipSend(g, router)
               PROVE  /\ [i \in DOMAIN msg |-> W!Bytes(msg[i])] =
                           IF router THEN <<W!Bytes(g.routing), W!Bytes(W!GossipBody(g))>>
                           ELSE <<W!Bytes(W!GossipBody(g))>>
                      /\ [i \in DOMAIN msg |-> W!Bytes(msg[i])] \in Seq(W!SentFrame)
                      /\ [i \in DOMAIN msg |-> W!Bytes(msg[i])] # <<>>
    OBVIOUS
  <1>1. PICK r, b \in Seq(Byte) : r = g.routing /\ b = W!GossipBody(g)
    BY GossipPieces, GossipBodyIs
  <1>2. msg = IF router THEN <<r, b>> ELSE <<b>>
    BY <1>1 DEF W!GossipSend
  <1>3. W!Bytes(r) \in W!SentFrame /\ W!Bytes(b) \in W!SentFrame
    BY FramesMade
  <1>4. [i \in DOMAIN <<b>> |-> W!Bytes(<<b>>[i])] = <<W!Bytes(b)>>
    OBVIOUS
  <1>5. [i \in DOMAIN <<r, b>> |-> W!Bytes(<<r, b>>[i])] = <<W!Bytes(r), W!Bytes(b)>>
    OBVIOUS
  <1>6. \A T : \A x, y \in T : <<x>> \in Seq(T) /\ <<x, y>> \in Seq(T) /\ <<x>> # <<>> /\ <<x, y>> # <<>>
    OBVIOUS
  <1>7. [i \in DOMAIN msg |-> W!Bytes(msg[i])] = IF router THEN <<W!Bytes(r), W!Bytes(b)>> ELSE <<W!Bytes(b)>>
    BY <1>2, <1>4, <1>5
  <1>8. W!Bytes(r) = W!Bytes(g.routing) /\ W!Bytes(b) = W!Bytes(W!GossipBody(g))
    BY <1>1
  <1> DEFINE fs == [i \in DOMAIN msg |-> W!Bytes(msg[i])]
  <1>9. fs = IF router THEN <<W!Bytes(r), W!Bytes(b)>> ELSE <<W!Bytes(b)>>
    BY <1>7
  <1> HIDE DEF fs
  <1>10. fs \in Seq(W!SentFrame) /\ fs # <<>>
    BY <1>3, <1>6, <1>9
  <1> QED BY <1>8, <1>9, <1>10 DEF fs

-----------------------------------------------------------------------------
(* The messages on their way: what each call makes, and what arrives of it.   *)

CallArgs ==
  Seq(W!Sendable) \cup Seq(W!Bsendable) \cup Seq(Seq(Byte)) \cup Seq(GossipSent) \cup Seq(Statuses)

Calls == {"pieces", "send", "bsend", "sendstr", "sendmem", "signal", "gossip"}

Maker == [api : Calls, args : CallArgs]

SentAs(args, msg) == args \in Seq(W!Sendable) /\ msg = W!PictureFrames(args)

BsentAs(args, msg) ==
  /\ args \in Seq(W!Bsendable)
  /\ \E l \in Seq(Byte) :
       msg = <<W!Bytes(FlattenSeq([i \in DOMAIN args |-> W!Written(args[i])]) \o l)>> \o W!ExtraFrames(args)

SignalledAs(args, msg) ==
  \E s \in Statuses : args = <<s>> /\ msg = <<[form |-> "signal", body |-> <<s>>]>>

GossipedAs(route, args, msg) ==
  \E g \in GossipSent :
    /\ args = <<g>>
    /\ msg = IF route = "fromRouter" THEN <<W!Bytes(g.routing), W!Bytes(W!GossipBody(g))>>
                ELSE <<W!Bytes(W!GossipBody(g))>>

Made(route, msg, call) ==
  /\ call.api = "send" => SentAs(call.args, msg)
  /\ call.api = "bsend" => BsentAs(call.args, msg)
  /\ call.api = "signal" => SignalledAs(call.args, msg)
  /\ call.api = "gossip" => GossipedAs(route, call.args, msg)

Arrives(route, raw, msg) ==
  \/ route = "plain" /\ msg = raw
  \/ route = "toRouter" /\ msg = <<W!Bytes(Identity)>> \o raw
  \/ route = "fromRouter" /\ Head(raw) = W!Bytes(Identity) /\ Len(raw) > 1 /\ msg = Tail(raw)

Message(route) ==
  {m \in [frames : Seq(W!SentFrame), from : Maker] :
     /\ m.frames # <<>>
     /\ \E raw \in Seq(W!SentFrame) : raw # <<>> /\ Made(route, raw, m.from) /\ Arrives(route, raw, m.frames)}

WireTyped == W!TypeOK /\ w_pipe \in Seq(Message(w_route))

LEMMA MessageIs ==
  ASSUME NEW route, NEW m \in Message(route)
  PROVE  /\ m.frames \in Seq(W!SentFrame) /\ m.frames # <<>>
         /\ \E raw \in Seq(W!SentFrame) : raw # <<>> /\ Made(route, raw, m.from) /\ Arrives(route, raw, m.frames)
  BY DEF Message

LEMMA OneElement ==
  ASSUME NEW S, NEW s \in Seq(S), s # <<>>
  PROVE  Head(s) \in S /\ Tail(s) \in Seq(S) /\ Len(Tail(s)) = Len(s) - 1 /\ Head(s) = s[1]
  OBVIOUS

LEMMA DeliveredMessages ==
  ASSUME w_route \in {"plain", "toRouter", "fromRouter"},
         NEW raw \in Seq(W!SentFrame), raw # <<>>, NEW call \in Maker, Made(w_route, raw, call)
  PROVE  \A whole : whole = W!Delivered(raw) =>
           [i \in DOMAIN whole |-> [frames |-> whole[i], from |-> call]] \in Seq(Message(w_route))
  <1> SUFFICES ASSUME NEW whole, whole = W!Delivered(raw)
               PROVE  [i \in DOMAIN whole |-> [frames |-> whole[i], from |-> call]] \in Seq(Message(w_route))
    OBVIOUS
  <1>1. ASSUME NEW f \in Seq(W!SentFrame), f # <<>>, Arrives(w_route, raw, f), whole = <<f>>
        PROVE  [i \in DOMAIN whole |-> [frames |-> whole[i], from |-> call]] \in Seq(Message(w_route))
    <2>1. [frames |-> f, from |-> call] \in Message(w_route)
      BY <1>1 DEF Message
    <2>2. [i \in DOMAIN <<f>> |-> [frames |-> <<f>>[i], from |-> call]] = <<[frames |-> f, from |-> call]>>
      OBVIOUS
    <2> QED BY <1>1, <2>1, <2>2, OneFrameOf
  <1>2. CASE w_route = "plain"
    BY <1>1, <1>2 DEF W!Delivered, Arrives
  <1>3. CASE w_route = "toRouter"
    <2>1. <<W!Bytes(Identity)>> \o raw \in Seq(W!SentFrame) /\ <<W!Bytes(Identity)>> \o raw # <<>>
      <3>1. W!Bytes(Identity) \in W!SentFrame
        BY WireGiven, FramesMade
      <3>2. PICK p \in Seq(W!SentFrame) : p = <<W!Bytes(Identity)>> /\ Len(p) = 1
        BY <3>1, OneFrameOf
      <3>3. p \o raw \in Seq(W!SentFrame) /\ Len(p \o raw) = Len(p) + Len(raw)
        BY ConcatOf
      <3>4. Len(p \o raw) # 0
        BY <3>2, <3>3, LengthNat
      <3> QED BY <3>2, <3>3, <3>4, EmptySeq
    <2>2. W!Delivered(raw) = <<<<W!Bytes(Identity)>> \o raw>>
      BY <1>3 DEF W!Delivered
    <2> QED BY <1>1, <1>3, <2>1, <2>2 DEF Arrives
  <1>4. CASE w_route = "fromRouter" /\ Head(raw) = W!Bytes(Identity) /\ Len(raw) > 1
    <2>1. W!Delivered(raw) = <<Tail(raw)>>
      BY <1>4 DEF W!Delivered
    <2>2. Tail(raw) \in Seq(W!SentFrame) /\ Len(Tail(raw)) = Len(raw) - 1
      BY OneElement
    <2>3. Len(Tail(raw)) # 0
      BY <1>4, <2>2, LengthNat
    <2>4. Tail(raw) # <<>>
      BY <2>2, <2>3, EmptySeq
    <2> QED BY <1>1, <1>4, <2>1, <2>2, <2>4 DEF Arrives
  <1>5. CASE w_route = "fromRouter" /\ ~(Head(raw) = W!Bytes(Identity) /\ Len(raw) > 1)
    <2>1. whole = <<>>
      BY <1>5 DEF W!Delivered
    <2>2. [i \in DOMAIN <<>> |-> [frames |-> <<>>[i], from |-> call]] = <<>>
      OBVIOUS
    <2>3. \A T : <<>> \in Seq(T)
      OBVIOUS
    <2> QED BY <2>1, <2>2, <2>3
  <1> QED BY <1>2, <1>3, <1>4, <1>5

LEMMA CallIs ==
  ASSUME NEW api \in Calls, NEW args \in CallArgs
  PROVE  W!Call(api, args) \in Maker /\ W!Call(api, args).api = api /\ W!Call(api, args).args = args
  BY DEF Maker, W!Call

LEMMA EmptyCall == W!Pieces \in Maker /\ \A route, msg : Made(route, msg, W!Pieces)
  <1>1. <<>> \in Seq(Seq(Byte))
    OBVIOUS
  <1>2. PICK none \in CallArgs : none = <<>>
    BY <1>1 DEF CallArgs
  <1>3. W!Pieces = W!Call("pieces", none)
    BY <1>2 DEF W!Pieces, W!Call
  <1>4. W!Pieces \in Maker /\ W!Pieces.api = "pieces"
    BY <1>2, <1>3, CallIs DEF Calls
  <1> QED BY <1>4 DEF Made

WireReceives == <<w_remaining, w_reading, w_got, w_gossip, w_cache_size, w_waiting, w_overrun>>

LEMMA TransmitKeeps ==
  ASSUME WireTyped, NEW msg \in Seq(W!SentFrame), msg # <<>>, NEW call \in Maker,
         Made(w_route, msg, call), W!Transmit(msg, call)
  PROVE  WireTyped' /\ UNCHANGED <<w_route, WireReceives>>
  <1>1. /\ w_route \in {"plain", "toRouter", "fromRouter"} /\ w_partial \in Seq(W!SentFrame)
        /\ w_sent \in 0 .. MaxSent /\ MaxSent \in Nat
    BY WireGiven DEF WireTyped, W!TypeOK
  <1>2. PICK raw \in Seq(W!SentFrame) : raw = w_partial \o msg /\ raw # <<>>
    <2>1. w_partial \o msg \in Seq(W!SentFrame) /\ Len(w_partial \o msg) = Len(w_partial) + Len(msg)
      BY <1>1, ConcatOf
    <2>2. Len(msg) \in Nat /\ Len(msg) # 0 /\ Len(w_partial) \in Nat
      BY <1>1, EmptySeq, LengthNat
    <2>3. Len(w_partial \o msg) # 0
      BY <2>1, <2>2
    <2>4. w_partial \o msg # <<>>
      BY <2>1, <2>3, EmptySeq
    <2> QED BY <2>1, <2>4
  <1>3. PICK from \in Maker : from = (IF w_partial = <<>> THEN call ELSE W!Pieces) /\ Made(w_route, raw, from)
    <2>1. CASE w_partial = <<>>
      <3>1. raw = msg
        BY <1>2, <2>1, NothingBefore
      <3> QED BY <2>1, <3>1
    <2>2. CASE w_partial # <<>>
      BY <2>2, EmptyCall
    <2> QED BY <2>1, <2>2
  <1> DEFINE whole == W!Delivered(raw)
             more == [i \in DOMAIN whole |-> [frames |-> whole[i], from |-> from]]
  <1>4. more \in Seq(Message(w_route))
    BY <1>1, <1>2, <1>3, DeliveredMessages
  <1>5. /\ w_sent < MaxSent /\ w_sent' = w_sent + 1 /\ w_partial' = <<>> /\ w_pipe' = w_pipe \o more
        /\ UNCHANGED <<w_route, WireReceives>>
    BY <1>2, <1>3, Zenon DEF W!Transmit, W!Receiver, WireReceives
  <1> HIDE DEF more
  <1>6. w_pipe' \in Seq(Message(w_route))
    BY <1>4, <1>5, ConcatOf DEF WireTyped
  <1>7. w_pipe' \in Seq(Message(w_route))'
    BY <1>5, <1>6
  <1>8. W!TypeOK'
    <2>1. \A i \in DOMAIN w_pipe' : w_pipe'[i] \in Message(w_route)
      BY <1>6
    <2>2. \A i \in DOMAIN w_pipe' : w_pipe'[i].frames # <<>> /\ w_pipe'[i].frames \in Seq(W!SentFrame)
      BY <2>1, MessageIs
    <2>3. <<>> \in Seq(W!SentFrame)
      OBVIOUS
    <2>4. w_sent' \in 0 .. MaxSent
      BY <1>1, <1>5
    <2> QED BY <1>5, <2>2, <2>3, <2>4 DEF WireTyped, W!TypeOK, WireReceives
  <1> QED BY <1>5, <1>7, <1>8 DEF WireTyped

(* What each sending call keeps.                                             *)
LEMMA ArgsAre ==
  /\ Seq(W!Sendable) \subseteq CallArgs /\ Seq(W!Bsendable) \subseteq CallArgs
  /\ \A s \in Seq(Byte) : <<s>> \in CallArgs
  /\ \A g \in GossipSent : <<g>> \in CallArgs
  /\ \A s \in Statuses : <<s>> \in CallArgs
  <1>1. \A T : \A x \in T : <<x>> \in Seq(T)
    OBVIOUS
  <1>2. /\ \A s \in Seq(Byte) : <<s>> \in Seq(Seq(Byte))
        /\ \A g \in GossipSent : <<g>> \in Seq(GossipSent)
        /\ \A s \in Statuses : <<s>> \in Seq(Statuses)
    BY <1>1
  <1> QED BY <1>2 DEF CallArgs

LEMMA SendStep ==
  ASSUME WireTyped, NEW args \in Seq(W!Sendable), W!Send(args)
  PROVE  WireTyped' /\ UNCHANGED <<w_route, WireReceives>>
  <1> DEFINE msg == W!PictureFrames(args)  call == W!Call("send", args)
  <1>1. msg \in Seq(W!SentFrame)
    BY PictureFramesType
  <1>2. call \in Maker /\ call.api = "send" /\ call.args = args
    BY ArgsAre, CallIs DEF Calls
  <1>3. msg # <<>> /\ W!Transmit(msg, call)
    BY DEF W!Send
  <1> HIDE DEF call
  <1>4. Made(w_route, msg, call)
    BY <1>2 DEF Made, SentAs
  <1> QED BY <1>1, <1>2, <1>3, <1>4, TransmitKeeps

LEMMA BsendStep ==
  ASSUME WireTyped, NEW args \in Seq(W!Bsendable), W!Bsend(args)
  PROVE  WireTyped' /\ UNCHANGED <<w_route, WireReceives>>
  <1> DEFINE call == W!Call("bsend", args)
  <1>1. PICK byte \in Leftovers :
          W!Transmit(<<W!DataFrame(args, [i \in 1 .. W!Unwritten(args) |-> byte])>> \o W!ExtraFrames(args), call)
    BY DEF W!Bsend
  <1>2. call \in Maker /\ call.api = "bsend" /\ call.args = args
    BY ArgsAre, CallIs DEF Calls
  <1> HIDE DEF call
  <1>3. PICK l \in Seq(Byte) : l = [i \in 1 .. W!Unwritten(args) |-> byte]
    <2>1. byte \in Byte /\ W!Unwritten(args) \in Nat
      BY WireGiven, UnwrittenNat
    <2> QED BY <2>1, ListOf
  <1>4. PICK d \in W!SentFrame :
          /\ d = W!DataFrame(args, l)
          /\ d = W!Bytes(FlattenSeq([i \in DOMAIN args |-> W!Written(args[i])]) \o l)
    <2>1. W!DataFrame(args, l) \in W!SentFrame
      BY <1>3, DataFrameType
    <2> QED BY <2>1, SameFlatten DEF W!DataFrame
  <1>5. PICK x \in Seq(W!SentFrame) : x = W!ExtraFrames(args)
    BY ExtraFramesType
  <1>6. PICK p \in Seq(W!SentFrame) : p = <<d>> /\ Len(p) = 1
    BY OneFrameOf
  <1>7. PICK raw \in Seq(W!SentFrame) : raw = p \o x /\ raw # <<>>
    <2>1. p \o x \in Seq(W!SentFrame) /\ Len(p \o x) = Len(p) + Len(x)
      BY ConcatOf
    <2>2. Len(p \o x) # 0
      BY <1>6, <2>1, LengthNat
    <2> QED BY <2>1, <2>2, EmptySeq
  <1>8. raw = <<d>> \o W!ExtraFrames(args)
    BY <1>5, <1>6, <1>7, Zenon
  <1>9. BsentAs(args, raw)
    BY <1>4, <1>8 DEF BsentAs
  <1>10. Made(w_route, raw, call)
    BY <1>2, <1>9 DEF Made
  <1>11. W!Transmit(raw, call)
    BY <1>1, <1>3, <1>4, <1>8, Zenon
  <1> QED BY <1>2, <1>7, <1>10, <1>11, TransmitKeeps

(* What is left of a bsend() whose first frames were refused.                *)
LEMMA BsendInterruptedStep ==
  ASSUME WireTyped, NEW args \in Seq(W!Bsendable), W!BsendInterrupted(args)
  PROVE  WireTyped' /\ UNCHANGED <<w_route, WireReceives>>
  <1>1. PICK x \in Seq(W!SentFrame) : x = W!ExtraFrames(args)
    BY ExtraFramesType
  <1>2. PICK cut \in DOMAIN x : W!Transmit(W!Rest(x, cut - 1), W!Pieces)
    BY <1>1 DEF W!BsendInterrupted
  <1>3. cut \in 1 .. Len(x) /\ cut - 1 \in Nat /\ Len(x) \in Nat
    BY LengthNat
  <1>4. PICK msg \in Seq(W!SentFrame) : msg = W!Rest(x, cut - 1) /\ msg # <<>>
    <2>1. W!Rest(x, cut - 1) = SubSeq(x, cut, Len(x))
      BY <1>3 DEF W!Rest
    <2>2. SubSeq(x, cut, Len(x)) \in Seq(W!SentFrame) /\ Len(SubSeq(x, cut, Len(x))) = Len(x) - cut + 1
      BY <1>3
    <2>3. Len(SubSeq(x, cut, Len(x))) # 0
      BY <1>3, <2>2
    <2> QED BY <2>1, <2>2, <2>3, EmptySeq
  <1> QED BY <1>2, <1>4, EmptyCall, TransmitKeeps

LEMMA SendFrameStep ==
  ASSUME WireTyped, NEW frame \in W!SentFrame, NEW more \in BOOLEAN, NEW call \in Maker,
         call.api \notin {"send", "bsend", "signal", "gossip"}, W!SendFrame(frame, more, call)
  PROVE  WireTyped' /\ UNCHANGED <<w_route, WireReceives>>
  <1>1. <<frame>> \in Seq(W!SentFrame) /\ <<frame>> # <<>>
    BY OneFrameOf
  <1>2. CASE more
    <2>1. /\ w_sent < MaxSent /\ w_sent' = w_sent + 1 /\ w_partial' = Append(w_partial, frame)
          /\ UNCHANGED <<w_route, w_pipe, WireReceives>>
      BY <1>2, Zenon DEF W!SendFrame, W!Receiver, WireReceives
    <2>2. w_partial' \in Seq(W!SentFrame)
      BY <2>1 DEF WireTyped, W!TypeOK
    <2>3. w_sent' \in 0 .. MaxSent
      BY <2>1, WireGiven DEF WireTyped, W!TypeOK
    <2>4. w_pipe' \in Seq(Message(w_route))'
      BY <2>1 DEF WireTyped
    <2> QED BY <2>1, <2>2, <2>3, <2>4 DEF WireTyped, W!TypeOK, WireReceives
  <1>3. CASE ~more
    <2>1. W!Transmit(<<frame>>, call)
      BY <1>3 DEF W!SendFrame
    <2>2. Made(w_route, <<frame>>, call)
      BY DEF Made
    <2> QED BY <1>1, <2>1, <2>2, TransmitKeeps
  <1> QED BY <1>2, <1>3

LEMMA GossipStep ==
  ASSUME WireTyped, NEW g \in GossipSent, W!SendGossip(g)
  PROVE  WireTyped' /\ UNCHANGED <<w_route, WireReceives>>
  <1> DEFINE call == W!Call("gossip", <<g>>)
             msg == W!GossipSend(g, w_route = "fromRouter")
             bs == [i \in DOMAIN msg |-> W!Bytes(msg[i])]
  <1>1. W!Transmit(bs, call)
    BY DEF W!SendGossip
  <1>2. /\ bs = IF w_route = "fromRouter" THEN <<W!Bytes(g.routing), W!Bytes(W!GossipBody(g))>>
                ELSE <<W!Bytes(W!GossipBody(g))>>
        /\ bs \in Seq(W!SentFrame) /\ bs # <<>>
    BY GossipFrames
  <1>3. call \in Maker /\ call.api = "gossip" /\ call.args = <<g>>
    BY ArgsAre, CallIs DEF Calls
  <1> HIDE DEF bs, call
  <1>4. Made(w_route, bs, call)
    BY <1>2, <1>3 DEF Made, GossipedAs
  <1> QED BY <1>1, <1>2, <1>3, <1>4, TransmitKeeps

LEMMA SignalStep ==
  ASSUME WireTyped, NEW status \in Statuses, W!Signal(status)
  PROVE  WireTyped' /\ UNCHANGED <<w_route, WireReceives>>
  <1> DEFINE call == W!Call("signal", <<status>>)
             msg == <<[form |-> "signal", body |-> <<status>>]>>
  <1>1. W!Transmit(msg, call)
    BY DEF W!Signal
  <1>2. msg \in Seq(W!SentFrame) /\ msg # <<>>
    BY FramesMade, OneFrameOf
  <1>3. call \in Maker /\ call.api = "signal" /\ call.args = <<status>>
    BY ArgsAre, CallIs DEF Calls
  <1> HIDE DEF call
  <1>4. Made(w_route, msg, call)
    BY <1>3 DEF Made, SignalledAs
  <1> QED BY <1>1, <1>2, <1>3, <1>4, TransmitKeeps

LEMMA SendxArgs ==
  ASSUME NEW string \in Seq(Byte)
  PROVE  W!Strings2Args(<<string, string>>) \in Seq(W!Sendable)
  <1> DEFINE As(x) == [type |-> "s", value |-> x, null |-> FALSE]
  <1>2. As(string) \in W!Sendable
    BY SameBytes DEF W!Sendable, W!Element
  <1>4. W!Strings2Args(<<string, string>>) = [i \in DOMAIN <<string, string>> |-> As(<<string, string>>[i])]
    BY DEF W!Strings2Args
  <1> HIDE DEF As
  <1>5. [i \in DOMAIN <<string, string>> |-> As(<<string, string>>[i])] = <<As(string), As(string)>>
    OBVIOUS
  <1>1. W!Strings2Args(<<string, string>>) = <<As(string), As(string)>>
    BY <1>4, <1>5
  <1>3. \A T : \A x \in T : <<x, x>> \in Seq(T)
    OBVIOUS
  <1> QED BY <1>1, <1>2, <1>3

LEMMA SendSideStep ==
  ASSUME WireTyped, W!SendSide
  PROVE  WireTyped' /\ UNCHANGED <<w_route, WireReceives>>
  <1>1. ASSUME NEW args \in Args, W!Send(args) PROVE WireTyped' /\ UNCHANGED <<w_route, WireReceives>>
    <2>1. args \in Seq(W!Sendable)
      BY WireGiven
    <2> QED BY <1>1, <2>1, SendStep
  <1>2. ASSUME NEW args \in BArgs, W!Bsend(args) \/ W!BsendInterrupted(args)
        PROVE  WireTyped' /\ UNCHANGED <<w_route, WireReceives>>
    <2>1. args \in Seq(W!Bsendable)
      BY WireGiven
    <2> QED BY <1>2, <2>1, BsendStep, BsendInterruptedStep
  <1>3. ASSUME NEW string \in Strings, W!Sendx(<<string, string>>)
        PROVE  WireTyped' /\ UNCHANGED <<w_route, WireReceives>>
    <2>1. W!Strings2Args(<<string, string>>) \in Seq(W!Sendable)
      BY WireGiven, SendxArgs
    <2> QED BY <1>3, <2>1, SendStep DEF W!Sendx
  <1>4. ASSUME NEW string \in Strings, NEW more \in BOOLEAN, NEW api \in {"sendstr", "sendmem"},
               W!SendFrame(W!Bytes(string), more, W!Call(api, <<string>>))
        PROVE  WireTyped' /\ UNCHANGED <<w_route, WireReceives>>
    <2>1. string \in Seq(Byte)
      BY WireGiven
    <2>2. W!Bytes(string) \in W!SentFrame
      BY <2>1, FramesMade
    <2>3. W!Call(api, <<string>>) \in Maker /\ W!Call(api, <<string>>).api = api
      BY <2>1, ArgsAre, CallIs DEF Calls
    <2>4. api \notin {"send", "bsend", "signal", "gossip"}
      OBVIOUS
    <2> QED BY <1>4, <2>2, <2>3, <2>4, SendFrameStep
  <1>5. ASSUME NEW g \in Gossips, W!SendGossip(W!SetKey(g, g.key))
        PROVE  WireTyped' /\ UNCHANGED <<w_route, WireReceives>>
    BY <1>5, SetKeyIs, GossipStep
  <1>6. ASSUME NEW status \in Statuses, W!Signal(status)
        PROVE  WireTyped' /\ UNCHANGED <<w_route, WireReceives>>
    BY <1>6, SignalStep
  <1>7. ASSUME NEW string \in Strings, NEW more \in BOOLEAN, W!SendStr(string, more)
        PROVE  WireTyped' /\ UNCHANGED <<w_route, WireReceives>>
    BY <1>4, <1>7 DEF W!SendStr
  <1>8. ASSUME NEW data \in Strings, NEW flags, W!SendMem(data, flags)
        PROVE  WireTyped' /\ UNCHANGED <<w_route, WireReceives>>
    <2>1. ("QFRAME_REUSE" \in flags) \in BOOLEAN
      OBVIOUS
    <2> QED BY <1>4, <1>8, <2>1 DEF W!SendMem
  <1> QED BY <1>1, <1>2, <1>3, <1>5, <1>6, <1>7, <1>8 DEF W!SendSide

-----------------------------------------------------------------------------
(* recv() gives back what send() was given.                                  *)

(* The one frame of an element that is no message.                           *)
FrameFor(e) ==
  CASE e.type = "i" -> W!Decimal(e.value)
    [] e.type = "z" -> W!Empty
    [] OTHER -> W!Bytes(e.value)

LEMMA FrameForIs ==
  ASSUME NEW e \in W!Sendable, e.type # "m", e.type # "u"
  PROVE  /\ W!ElementFrames(e) = <<FrameFor(e)>> /\ FrameFor(e) \in W!SentFrame /\ FrameFor(e) # W!NULL
         /\ <<W!ElementValue(e.type, FrameFor(e))>> = W!Expected(e)
         /\ ~W!Refuses(e.type, FrameFor(e))
  <1>1. /\ e.type \in {"i", "s", "b", "c", "f", "p", "z"}
        /\ e.type = "i" => e.value \in Nat
        /\ e.type \in {"s", "b", "c", "f", "p"} => e.value \in Seq(Byte)
        /\ e.type = "p" => Len(e.value) = PointerSize
    BY SendElement
  <1>2. W!NULL.form = "null" /\ W!Empty.form = "bytes" /\ \A b : W!Bytes(b).form = "bytes" /\ W!Bytes(b).body = b
    BY DEF W!NULL, W!Empty, W!Bytes
  <1>3. \A n : W!Decimal(n).form = "decimal"
    BY DEF W!Decimal
  <1>4. CASE e.type = "i"
    <2>1. FrameFor(e) = W!Decimal(e.value) /\ W!ElementFrames(e) = <<W!Decimal(e.value)>>
      BY <1>4 DEF FrameFor, W!ElementFrames
    <2>2. W!Decimal(e.value) \in W!SentFrame
      BY <1>1, <1>4, FramesMade
    <2>3. W!Decimal(e.value) # W!NULL
      BY <1>2, <1>3
    <2>4. W!ElementValue("i", W!Decimal(e.value)) = W!Decimal(e.value)
      BY <1>3 DEF W!ElementValue, W!Number
    <2>5. W!Expected(e) = <<W!Decimal(e.value)>>
      BY <1>4 DEF W!Expected
    <2>6. ~W!Refuses("i", W!Decimal(e.value))
      BY DEF W!Refuses
    <2> QED BY <1>4, <2>1, <2>2, <2>3, <2>4, <2>5, <2>6
  <1>5. CASE e.type = "z"
    <2>1. FrameFor(e) = W!Empty /\ W!ElementFrames(e) = <<W!Empty>>
      BY <1>5 DEF FrameFor, W!ElementFrames
    <2>2. W!Empty \in W!SentFrame
      BY FramesMade
    <2>3. W!Empty # W!NULL
      BY <1>2
    <2>4. W!ElementValue("z", W!Empty) = W!Unset /\ W!Expected(e) = <<W!Unset>>
      BY <1>5 DEF W!ElementValue, W!Expected
    <2>6. ~W!Refuses("z", W!Empty)
      BY DEF W!Refuses
    <2> QED BY <1>5, <2>1, <2>2, <2>3, <2>4, <2>6
  <1>6. CASE e.type \in {"s", "b", "c", "f", "p"}
    <2>1. FrameFor(e) = W!Bytes(e.value) /\ W!ElementFrames(e) = <<W!Bytes(e.value)>>
      BY <1>6 DEF FrameFor, W!ElementFrames
    <2>2. W!Bytes(e.value) \in W!SentFrame
      BY <1>1, <1>6, FramesMade
    <2>3. W!Bytes(e.value) # W!NULL
      BY <1>2
    <2>4. e.type = "p" => W!HasPointerSize(W!Bytes(e.value))
      BY <1>1, <1>2 DEF W!HasPointerSize
    <2>5. W!ElementValue(e.type, W!Bytes(e.value)) = W!Bytes(e.value)
      BY <1>6, <2>4 DEF W!ElementValue
    <2>6. W!Expected(e) = <<W!Bytes(e.value)>>
      BY <1>6 DEF W!Expected
    <2>7. ~W!Refuses(e.type, W!Bytes(e.value))
      BY <1>6, <2>4 DEF W!Refuses
    <2> QED BY <2>1, <2>2, <2>3, <2>5, <2>6, <2>7
  <1> QED BY <1>1, <1>4, <1>5, <1>6

(* The elements before the message at the end have one frame each.           *)
OneEach(args, k) == \A j \in 1 .. k : args[j].type \notin {"m", "u"}

Fronted(args, s, k) ==
  Len(s) = k /\ s \in Seq(W!SentFrame) /\ \A j \in 1 .. k : s[j] = FrameFor(args[j])

LEMMA FrontFrames ==
  ASSUME NEW args \in Seq(W!Sendable), NEW f,
         NEW qs \in Seq(Seq(W!SentFrame)), Len(qs) = Len(args), Joins(qs, f, W!SentFrame),
         \A i \in 1 .. Len(args) : qs[i] = W!ElementFrames(args[i]),
         NEW k \in 0 .. Len(args), OneEach(args, k)
  PROVE  Fronted(args, f[k], k)
  <1> DEFINE n == Len(args)
             One(i) == Len(f[i]) = i /\ \A j \in 1 .. i : f[i][j] = FrameFor(args[j])
             S == {i \in 0 .. k : One(i)}
  <1>1. n \in Nat /\ k \in Nat /\ \A i \in 1 .. k : i \in 1 .. n /\ i - 1 \in 0 .. n /\ i - 1 \in 0 .. k /\ i \in 0 .. k
    BY LengthNat
  <1>2. /\ f[0] = <<>> /\ \A i \in 1 .. n : f[i] = f[i - 1] \o qs[i]
        /\ \A i \in 0 .. n : f[i] \in Seq(W!SentFrame)
    BY DEF Joins
  <1>3. \A i \in 1 .. n : args[i] \in W!Sendable
    OBVIOUS
  <1>4. One(0)
    <2>1. Len(<<>>) = 0 /\ 1 .. 0 = {}
      OBVIOUS
    <2> QED BY <1>2, <2>1
  <1>5. ASSUME NEW i \in 1 .. k, One(i - 1) PROVE One(i)
    <2>1. qs[i] = <<FrameFor(args[i])>> /\ FrameFor(args[i]) \in W!SentFrame
      BY <1>1, <1>3, FrameForIs DEF OneEach
    <2>2. PICK a, b \in Seq(W!SentFrame) : a = f[i - 1] /\ b = qs[i] /\ Len(b) = 1 /\ b[1] = FrameFor(args[i])
      BY <1>1, <1>2, <2>1, OneFrameOf
    <2>3. Len(a) = i - 1 /\ \A j \in 1 .. i - 1 : a[j] = FrameFor(args[j])
      BY <1>5, <2>2
    <2>4. f[i] = a \o b
      BY <1>1, <1>2, <2>2
    <2>5. /\ Len(a \o b) = Len(a) + Len(b)
          /\ \A j \in 1 .. Len(a) : (a \o b)[j] = a[j]
          /\ \A j \in 1 .. Len(b) : (a \o b)[Len(a) + j] = b[j]
      BY ConcatOf
    <2>6. Len(a \o b) = i
      BY <2>2, <2>3, <2>5
    <2>7. (a \o b)[i] = FrameFor(args[i])
      <3>1. 1 \in 1 .. Len(b) /\ Len(a) + 1 = i
        BY <2>2, <2>3
      <3> QED BY <2>2, <2>5, <3>1
    <2>8. \A j \in 1 .. i - 1 : (a \o b)[j] = FrameFor(args[j])
      BY <2>3, <2>5
    <2>9. \A j \in 1 .. i : j \in 1 .. i - 1 \/ j = i
      OBVIOUS
    <2> QED BY <2>4, <2>6, <2>7, <2>8, <2>9
  <1> HIDE DEF One
  <1>6. 0 .. k \subseteq S
    <2>1. 0 \in S
      BY <1>1, <1>4
    <2>2. \A i \in 1 .. k : i - 1 \in S => i \in S
      BY <1>1, <1>5
    <2> HIDE DEF S
    <2> QED BY <1>1, <2>1, <2>2, StepByStep
  <1>7. One(k)
    BY <1>1, <1>6
  <1> QED BY <1>1, <1>2, <1>7 DEF One, Fronted

(* The frames of a picture: those of the elements, and the rest at the end.  *)
LEMMA PictureFramesAre ==
  ASSUME NEW args \in Seq(W!Sendable), W!SendCarries(args)
  PROVE  \E a \in Seq(W!SentFrame) :
           \/ /\ \A i \in 1 .. Len(args) : args[i].type \notin {"m", "u"}
              /\ W!PictureFrames(args) = a /\ Len(a) = Len(args)
              /\ \A i \in 1 .. Len(args) : a[i] = FrameFor(args[i])
           \/ /\ Len(args) \in 1 .. Len(args) /\ args[Len(args)].type = "m"
              /\ \A i \in 1 .. Len(args) - 1 : args[i].type \notin {"m", "u"}
              /\ W!PictureFrames(args) = a \o W!ElementFrames(args[Len(args)]) /\ Len(a) = Len(args) - 1
              /\ \A i \in 1 .. Len(args) - 1 : a[i] = FrameFor(args[i])
  <1> DEFINE n == Len(args)
  <1>1. n \in Nat /\ DOMAIN args = 1 .. n
    BY LengthNat, LenProperties
  <1>2. /\ \A i \in 1 .. n : args[i].type # "u"
        /\ \A i \in 1 .. n - 1 : args[i].type # "m"
    BY <1>1 DEF W!SendCarries, W!LastOnly
  <1>3. PICK qs \in Seq(Seq(W!SentFrame)) : /\ qs = [i \in DOMAIN args |-> W!ElementFrames(args[i])]
                                            /\ Len(qs) = n /\ W!PictureFrames(args) = FlattenSeq(qs)
    BY PictureFramesType, SameFlatten DEF W!PictureFrames
  <1>4. PICK f : Joins(qs, f, W!SentFrame) /\ FlattenSeq(qs) = f[Len(qs)]
    BY FlattenJoins
  <1>5. \A i \in 1 .. n : qs[i] = W!ElementFrames(args[i])
    BY <1>1, <1>3
  <1>8. ASSUME NEW k \in 0 .. n, OneEach(args, k) PROVE Fronted(args, f[k], k)
    BY <1>3, <1>4, <1>5, <1>8, FrontFrames
  <1>6. CASE OneEach(args, n)
    <2>1. n \in 0 .. n
      BY <1>1
    <2>2. Fronted(args, f[n], n)
      BY <1>6, <1>8, <2>1, Zenon
    <2> QED BY <1>3, <1>4, <1>6, <2>2, Zenon DEF Fronted, OneEach
  <1>7. CASE ~OneEach(args, n)
    <2>1. n \in 1 .. n /\ args[n].type = "m" /\ n - 1 \in 0 .. n
      BY <1>1, <1>2, <1>7 DEF OneEach
    <2>2. OneEach(args, n - 1)
      BY <1>1, <1>2 DEF OneEach
    <2>3. Fronted(args, f[n - 1], n - 1)
      BY <1>8, <2>1, <2>2, Zenon
    <2>4. f[n] = f[n - 1] \o W!ElementFrames(args[n])
      BY <1>3, <1>4, <1>5, <2>1 DEF Joins
    <2> QED BY <1>3, <1>4, <2>1, <2>2, <2>3, <2>4, Zenon DEF Fronted, OneEach
  <1> QED BY <1>6, <1>7

LEMMA PictureOfIs ==
  ASSUME NEW T, NEW args \in Seq(T)
  PROVE  /\ DOMAIN W!PictureOf(args) = 1 .. Len(args) /\ Len(W!PictureOf(args)) = Len(args) /\ Len(args) \in Nat
         /\ \A i \in 1 .. Len(args) : W!PictureOf(args)[i] = args[i].type
  <1> DEFINE n == Len(args)  p == [i \in 1 .. n |-> args[i].type]
  <1>1. n \in Nat /\ DOMAIN args = 1 .. n
    OBVIOUS
  <1>2. W!PictureOf(args) = p
    BY <1>1 DEF W!PictureOf
  <1> HIDE DEF n
  <1>3. p \in [1 .. n -> {args[i].type : i \in 1 .. n}]
    OBVIOUS
  <1>4. DOMAIN p = 1 .. n /\ Len(p) = n
    BY <1>1, <1>3, ListOf
  <1> QED BY <1>1, <1>2, <1>4 DEF n

(* An element that is no message is given its frame.                         *)
LEMMA GivenFrame ==
  ASSUME NEW args \in Seq(W!Sendable), NEW msg \in Seq(W!SentFrame), NEW i \in 1 .. Len(args),
         OneEach(args, i), i \in DOMAIN msg, msg[i] = FrameFor(args[i]),
         NEW picture, picture = W!PictureOf(args)
  PROVE  /\ W!FrameOf(msg, picture, i) = msg[i] /\ ~W!Refuses(picture[i], msg[i])
         /\ picture[i] # "m" /\ <<W!ElementValue(picture[i], msg[i])>> = W!Expected(args[i])
  <1>1. args[i] \in W!Sendable /\ Len(args) \in Nat
    OBVIOUS
  <1>2. \A j \in 1 .. i : picture[j] = args[j].type /\ args[j].type \notin {"m", "u"}
    <2>1. \A j \in 1 .. i : j \in 1 .. Len(args)
      BY <1>1
    <2> QED BY <2>1, PictureOfIs DEF OneEach
  <1>3. i \in 1 .. i /\ \A j \in 1 .. i - 1 : j \in 1 .. i
    BY <1>1
  <1>4. W!FrameOf(msg, picture, i) = msg[i]
    BY <1>2, <1>3 DEF W!FrameOf
  <1> QED BY <1>1, <1>2, <1>3, <1>4, FrameForIs

LEMMA RecvBack ==
  ASSUME NEW args \in Seq(W!Sendable), W!SendCarries(args), NEW msg, msg = W!PictureFrames(args),
         NEW picture, picture = W!PictureOf(args)
  PROVE  /\ W!PictureStatus(msg, picture) = 0
         /\ W!PictureValues(msg, picture) = [i \in DOMAIN args |-> W!Expected(args[i])]
  <1> DEFINE n == Len(args)
             V(i) == IF picture[i] # "m" THEN <<W!ElementValue(picture[i], W!FrameOf(msg, picture, i))>>
                     ELSE IF W!FrameOf(msg, picture, i) = W!NULL THEN <<>>
                     ELSE SubSeq(msg, i, Len(msg))
             Well(i) == ~W!Refuses(picture[i], W!FrameOf(msg, picture, i)) /\ V(i) = W!Expected(args[i])
  <1>1. n \in Nat /\ DOMAIN args = 1 .. n /\ DOMAIN picture = 1 .. n /\ \A i \in 1 .. n : args[i] \in W!Sendable
    <2>1. \A i \in 1 .. n : args[i] \in W!Sendable
      OBVIOUS
    <2> QED BY <2>1, PictureOfIs, LenProperties
  <1>2. msg \in Seq(W!SentFrame)
    BY PictureFramesType
  <1>3. PICK a \in Seq(W!SentFrame) :
           \/ /\ \A i \in 1 .. n : args[i].type \notin {"m", "u"}
              /\ msg = a /\ Len(a) = n
              /\ \A i \in 1 .. n : a[i] = FrameFor(args[i])
           \/ /\ n \in 1 .. n /\ args[n].type = "m"
              /\ \A i \in 1 .. n - 1 : args[i].type \notin {"m", "u"}
              /\ msg = a \o W!ElementFrames(args[n]) /\ Len(a) = n - 1
              /\ \A i \in 1 .. n - 1 : a[i] = FrameFor(args[i])
    BY PictureFramesAre
  <1>4. ASSUME NEW i \in 1 .. n, OneEach(args, i), i \in DOMAIN msg, msg[i] = FrameFor(args[i]) PROVE Well(i)
    <2>1. /\ W!FrameOf(msg, picture, i) = msg[i] /\ ~W!Refuses(picture[i], msg[i])
          /\ picture[i] # "m" /\ <<W!ElementValue(picture[i], msg[i])>> = W!Expected(args[i])
      BY <1>2, <1>4, GivenFrame
    <2> QED BY <2>1
  <1>5. \A i \in 1 .. n : Well(i)
    <2>1. CASE /\ \A i \in 1 .. n : args[i].type \notin {"m", "u"}
               /\ msg = a /\ Len(a) = n
               /\ \A i \in 1 .. n : a[i] = FrameFor(args[i])
      <3> SUFFICES ASSUME NEW i \in 1 .. n PROVE Well(i)
        OBVIOUS
      <3>1. OneEach(args, i)
        <4>1. \A j \in 1 .. i : j \in 1 .. n
          BY <1>1
        <4> QED BY <2>1, <4>1 DEF OneEach
      <3>2. i \in DOMAIN msg
        BY <1>2, <2>1, LenProperties
      <3> QED BY <1>4, <2>1, <3>1, <3>2
    <2>2. CASE /\ n \in 1 .. n /\ args[n].type = "m"
               /\ \A i \in 1 .. n - 1 : args[i].type \notin {"m", "u"}
               /\ msg = a \o W!ElementFrames(args[n]) /\ Len(a) = n - 1
               /\ \A i \in 1 .. n - 1 : a[i] = FrameFor(args[i])
      <3>1. PICK e \in Seq(W!SentFrame) : e = W!ElementFrames(args[n])
        BY <1>1, <2>2, ElementFramesType
      <3>2. /\ msg = a \o e /\ Len(a \o e) = Len(a) + Len(e) /\ Len(e) \in Nat
            /\ DOMAIN (a \o e) = 1 .. (Len(a) + Len(e))
            /\ \A i \in 1 .. Len(a) : (a \o e)[i] = a[i]
            /\ SubSeq(a \o e, Len(a) + 1, Len(a \o e)) = e
        <4>1. msg = a \o e
          BY <2>2, <3>1, Zenon
        <4>2. /\ Len(a \o e) = Len(a) + Len(e) /\ DOMAIN (a \o e) = 1 .. (Len(a) + Len(e))
              /\ \A i \in 1 .. Len(a) : (a \o e)[i] = a[i]
          BY ConcatOf
        <4>3. SubSeq(a \o e, Len(a) + 1, Len(a \o e)) = e
          BY BehindOf
        <4>4. Len(e) \in Nat
          BY LengthNat
        <4> QED BY <4>1, <4>2, <4>3, <4>4, Zenon
      <3>3. ASSUME NEW i \in 1 .. n - 1 PROVE Well(i)
        <4>1. OneEach(args, i)
          <5>1. \A j \in 1 .. i : j \in 1 .. n - 1
            BY <1>1
          <5> QED BY <2>2, <5>1 DEF OneEach
        <4>2. i \in DOMAIN msg /\ i \in 1 .. n
          BY <1>1, <2>2, <3>2
        <4>3. msg[i] = FrameFor(args[i])
          BY <2>2, <3>2
        <4> QED BY <1>4, <4>1, <4>2, <4>3
      <3>4. Well(n)
        <4>1. picture[n] = "m" /\ \A j \in 1 .. n - 1 : picture[j] # "m"
          <5>1. \A j \in 1 .. n - 1 : j \in 1 .. n
            BY <1>1
          <5> QED BY <2>2, <5>1, PictureOfIs
        <4>2. W!Expected(args[n]) = e
          <5>1. ~args[n].null
            BY <1>1, <2>2, SendElement
          <5> QED BY <2>2, <3>1, <5>1 DEF W!Expected, W!ElementFrames
        <4>3. ~W!Refuses(picture[n], W!FrameOf(msg, picture, n))
          BY <4>1 DEF W!Refuses
        <4>4. CASE n \in DOMAIN msg
          <5>1. W!FrameOf(msg, picture, n) = msg[n]
            BY <4>1, <4>4 DEF W!FrameOf
          <5>2. msg[n] \in W!SentFrame
            BY <1>2, <4>4
          <5>3. msg[n] # W!NULL
            <6>1. W!NULL.form = "null"
              BY DEF W!NULL
            <6>2. msg[n].form # "null"
              BY <5>2 DEF W!SentFrame
            <6> QED BY <6>1, <6>2
          <5>4. Len(a) + 1 = n
            BY <1>1, <2>2
          <5>5. SubSeq(msg, n, Len(msg)) = e
            BY <3>2, <5>4
          <5> QED BY <4>1, <4>2, <4>3, <5>1, <5>3, <5>5
        <4>5. CASE n \notin DOMAIN msg
          <5>1. W!FrameOf(msg, picture, n) = W!NULL
            BY <4>5 DEF W!FrameOf
          <5>2. Len(e) = 0
            BY <1>1, <2>2, <3>2, <4>5
          <5>3. e = <<>>
            BY <5>2, EmptySeq
          <5> QED BY <4>1, <4>2, <4>3, <5>1, <5>3
        <4> QED BY <4>4, <4>5
      <3> HIDE DEF Well, n
      <3>5. \A i \in 1 .. n : i \in 1 .. n - 1 \/ i = n
        BY <1>1
      <3> QED BY <3>3, <3>4, <3>5
    <2> QED BY <1>3, <2>1, <2>2
  <1>6. W!PictureValues(msg, picture) = [i \in 1 .. n |-> V(i)]
    BY <1>1 DEF W!PictureValues
  <1>7. [i \in 1 .. n |-> V(i)] = [i \in 1 .. n |-> W!Expected(args[i])]
    <2>1. \A i \in 1 .. n : V(i) = W!Expected(args[i])
      BY <1>5
    <2> HIDE DEF V
    <2> QED BY <2>1
  <1>8. W!PictureStatus(msg, picture) = 0
    BY <1>1, <1>5 DEF W!PictureStatus
  <1> QED BY <1>1, <1>6, <1>7, <1>8

-----------------------------------------------------------------------------
(* brecv() gives back what bsend() was given.                                *)

(* What is joined later comes behind what is joined first.                   *)
Follows(y, x, T) == \E r \in Seq(T) : y = x \o r

LEMMA FollowsOn ==
  ASSUME NEW T, NEW x \in Seq(T), NEW y, NEW q \in Seq(T), Follows(y, x, T)
  PROVE  Follows(y \o q, x, T)
  <1>1. PICK r \in Seq(T) : y = x \o r
    BY DEF Follows
  <1>2. PICK z \in Seq(T) : z = r \o q
    BY ConcatOf
  <1>3. Regroups(x, r, q)
    BY Regrouped
  <1>4. y \o q = x \o z
    BY <1>1, <1>2, <1>3, Zenon DEF Regroups
  <1> QED BY <1>4 DEF Follows

LEMMA JoinsFrom ==
  ASSUME NEW T, NEW qs \in Seq(Seq(T)), NEW f, Joins(qs, f, T), NEW k \in 0 .. Len(qs)
  PROVE  Follows(f[Len(qs)], f[k], T)
  <1> DEFINE n == Len(qs)
             S == {j \in 0 .. n : j >= k => Follows(f[j], f[k], T)}
  <1>1. n \in Nat /\ k \in Nat /\ k <= n
    BY LengthNat
  <1>2. \A j \in 1 .. n : qs[j] \in Seq(T)
    OBVIOUS
  <1>3. /\ \A j \in 0 .. n : f[j] \in Seq(T)
        /\ \A j \in 1 .. n : f[j] = f[j - 1] \o qs[j]
    BY DEF Joins
  <1> HIDE DEF n
  <1>4. f[k] \in Seq(T)
    BY <1>1, <1>3
  <1>5. Follows(f[k], f[k], T)
    <2>1. f[k] \o <<>> = f[k] /\ <<>> \in Seq(T)
      BY <1>4, NothingBefore
    <2> QED BY <2>1 DEF Follows
  <1>6. 0 \in S
    <2>1. 0 >= k => k = 0
      BY <1>1
    <2>2. 0 \in 0 .. n
      BY <1>1
    <2> QED BY <1>5, <2>1, <2>2
  <1>7. ASSUME NEW j \in 1 .. n, j - 1 \in S PROVE j \in S
    <2>1. j \in 0 .. n /\ j - 1 \in 0 .. n /\ (j >= k => j = k \/ j - 1 >= k)
      BY <1>1
    <2>2. j - 1 >= k => Follows(f[j], f[k], T)
      <3>1. j - 1 >= k => Follows(f[j - 1], f[k], T)
        BY <1>7, Zenon
      <3>2. j - 1 >= k => Follows(f[j - 1] \o qs[j], f[k], T)
        BY <1>2, <1>4, <3>1, FollowsOn
      <3> QED BY <1>3, <3>2
    <2>3. j = k => Follows(f[j], f[k], T)
      BY <1>5, Zenon
    <2>4. j >= k => Follows(f[j], f[k], T)
      BY <2>1, <2>2, <2>3, Zenon
    <2> QED BY <2>1, <2>4
  <1> HIDE DEF S
  <1>8. 0 .. n \subseteq S
    BY <1>1, <1>6, <1>7, StepByStep
  <1>9. n \in S
    BY <1>1, <1>8
  <1> QED BY <1>1, <1>9 DEF S, n

(* What one element leaves.                                                  *)
Leaves(r, s, needle, taken, v) ==
  r.rc = 0 /\ r.needle = needle /\ r.taken = taken /\ r.values = Append(s.values, v)

(* It stores as much as it needs of a cache that has room for it.            *)
Stores(r, s, e) ==
  \A had, size \in Nat :
    LET len == Len(W!CacheOf(e))
    IN Room(s, had, size) /\ had + len <= size => Room(r, had + len, size)

LEMMA CacheOfIs ==
  ASSUME NEW e \in W!Bsendable
  PROVE  /\ W!CacheOf(e) \in Seq(Nat) /\ Len(W!CacheOf(e)) \in Nat
         /\ e.type = "s" => Len(W!CacheOf(e)) = Len(W!Written(e))
         /\ e.type # "s" => Len(W!CacheOf(e)) = 0
  <1>1. CASE e.type # "s"
    <2>1. W!CacheOf(e) = <<>>
      BY <1>1 DEF W!CacheOf
    <2> QED BY <1>1, <2>1
  <1>2. CASE e.type = "s"
    <2>1. PICK v \in Seq(Byte) : v = e.value
      BY <1>2, BsendElement
    <2>2. v \in Seq(Nat) /\ Len(v) \in Nat
      BY ByteIs, LengthNat
    <2>3. Append(v, 0) \in Seq(Nat) /\ Len(Append(v, 0)) = Len(v) + 1
      BY <2>2
    <2>4. W!CacheOf(e) = Append(v, 0) /\ W!Written(e) = Put1(Len(v)) \o v
      BY <1>2, <2>1, SameBytes DEF W!CacheOf, W!Written
    <2>5. PICK p \in Seq(Byte) : p = Put1(Len(v)) /\ Len(p) = 1
      BY <2>2, PutBytes
    <2>6. Len(p \o v) = 1 + Len(v)
      BY <2>5, ConcatOf
    <2> QED BY <1>2, <2>2, <2>3, <2>4, <2>5, <2>6
  <1> QED BY <1>1, <1>2

LEMMA BinaryBack ==
  ASSUME NEW e \in W!Bsendable, Carriable(e), e.type \in BinaryTypes,
         NEW msg \in Seq(W!SentFrame), msg # <<>>,
         NEW s \in BrecvState(Len(msg)), s.rc = 0,
         NEW u \in Seq(Byte), NEW more \in Seq(Byte),
         msg[1].body = u \o (W!Written(e) \o more), s.needle = Len(u)
  PROVE  /\ Leaves(W!BrecvElement(s, e.type, msg), s, Len(u) + Len(W!Written(e)), s.taken, W!Expected(e))
         /\ Stores(W!BrecvElement(s, e.type, msg), s, e)
  <1> DEFINE b == W!Rest(msg[1].body, s.needle)  type == e.type
             c == W!Cached(s, type, b)  r == W!BrecvElement(s, type, msg)
  <1>1. PICK w \in Seq(Byte) : w = W!Written(e)
    BY WrittenBytes
  <1>2. PICK v \in Seq(Byte) : v = w \o more /\ Len(v) = Len(w) + Len(more)
    <2>1. w \o more \in Seq(Byte) /\ Len(w \o more) = Len(w) + Len(more)
      BY ConcatOf
    <2> QED BY <2>1
  <1>3. b = v
    <2>1. SubSeq(u \o v, Len(u) + 1, Len(u \o v)) = v
      BY BehindOf
    <2>2. msg[1].body = u \o v
      BY <1>1, <1>2, Zenon
    <2> QED BY <2>1, <2>2 DEF W!Rest
  <1>4. ReadsBack(e, v)
    BY <1>1, <1>2, ReadBack
  <1>5. /\ W!Size(type, b) = Len(w) /\ ~W!Malformed(type, b) /\ <<W!Read(type, b)>> = W!Expected(e)
    BY <1>1, <1>3, <1>4 DEF ReadsBack
  <1>6. type = "s" => Get1(b) \in Nat /\ Get1(b) + 1 = Len(w)
    <2>1. type = "s" => W!Size(type, b) <= Len(b)
      BY <1>5 DEF W!Malformed, W!Holds
    <2>2. type = "s" => W!Size(type, b) >= 1
      <3>1. v \in Seq(Nat)
        BY ByteIs
      <3> QED BY <1>3, <3>1, SameBytes, GetNumbers DEF W!Size
    <2>3. Len(w) \in Nat /\ Len(v) \in Nat
      BY LengthNat
    <2>4. type = "s" => Holds(b, 1)
      BY <1>3, <1>5, <2>1, <2>2, <2>3 DEF Holds
    <2>5. v \in Seq(Nat)
      BY ByteIs
    <2>6. type = "s" => Get1(b) \in Nat
      BY <1>3, <2>4, <2>5, GetNumbers
    <2>7. type = "s" => Len(w) = 1 + Get1(b)
      BY <1>5, <2>4, SameBytes DEF W!Size
    <2> QED BY <2>6, <2>7
  <1>7. ElementOf(msg, s, type, b)
    BY ElementIs
  <1>8. Len(msg) \in Nat /\ s.needle \in Nat
    BY StateIs, LengthNat
  <1>9. c \in BrecvState(Len(msg)) /\ c.needle = s.needle /\ c.values = s.values /\ c.rc = s.rc /\ c.taken = s.taken
    BY <1>6, <1>8, CachedType
  <1>10. r = [c EXCEPT !.needle = @ + W!Size(type, b), !.values = Append(@, <<W!Read(type, b)>>)]
    BY <1>5, <1>7 DEF ElementOf, BinaryTypes
  <1> HIDE DEF b, c, r
  <1>11. /\ r.rc = c.rc /\ r.needle = c.needle + W!Size(type, b) /\ r.taken = c.taken
         /\ r.values = Append(c.values, <<W!Read(type, b)>>)
    BY <1>9, <1>10 DEF BrecvState
  <1>12. Leaves(r, s, Len(u) + Len(w), s.taken, W!Expected(e))
    BY <1>1, <1>5, <1>9, <1>11 DEF Leaves
  <1>13. Stores(r, s, e)
    <2>1. PICK len \in Nat : len = Len(W!CacheOf(e)) /\ (type = "s" => len = Len(w)) /\ (type # "s" => len = 0)
      BY <1>1, CacheOfIs
    <2>2. ASSUME NEW had \in Nat, NEW size \in Nat, Room(s, had, size), had + len <= size
          PROVE  Room(r, had + len, size)
      <3>1. Room(c, had + len, size)
        <4>1. type = "s" => Get1(b) + 1 = len /\ Get1(b) \in Nat
          BY <1>6, <2>1
        <4> QED BY <1>8, <2>1, <2>2, <4>1, CachedStores DEF c
      <3>2. /\ r.overrun = c.overrun /\ r.cache_used = c.cache_used
            /\ r.cache_size = c.cache_size /\ r.cache_block = c.cache_block
        BY <1>9, <1>10 DEF BrecvState
      <3> QED BY <3>1, <3>2 DEF Room
    <2> QED BY <2>1, <2>2 DEF Stores
  <1> QED BY <1>1, <1>12, <1>13 DEF r

LEMMA ExtraBack ==
  ASSUME NEW msg \in Seq(W!SentFrame), msg # <<>>,
         NEW s \in BrecvState(Len(msg)), s.rc = 0,
         NEW h \in Seq(W!SentFrame), NEW v \in Seq(W!SentFrame), NEW t \in Seq(W!SentFrame),
         msg = h \o (v \o t), s.taken = Len(h), v # <<>>, NEW type,
         \/ type = "f" /\ Len(v) = 1
         \/ type = "m" /\ t = <<>>
  PROVE  /\ Leaves(W!BrecvElement(s, type, msg), s, s.needle, Len(h) + Len(v), v)
         /\ \A had, size : Room(s, had, size) => Room(W!BrecvElement(s, type, msg), had, size)
  <1> DEFINE b == W!Rest(msg[1].body, s.needle)  r == W!BrecvElement(s, type, msg)
  <1>1. Len(msg) = Len(h) + (Len(v) + Len(t)) /\ v \o t \in Seq(W!SentFrame)
    <2>1. PICK y \in Seq(W!SentFrame) : y = v \o t /\ Len(y) = Len(v) + Len(t)
      <3>1. v \o t \in Seq(W!SentFrame) /\ Len(v \o t) = Len(v) + Len(t)
        BY ConcatOf
      <3> QED BY <3>1
    <2>2. Len(h \o y) = Len(h) + Len(y)
      BY ConcatOf
    <2> QED BY <2>1, <2>2
  <1>2. Len(h) \in Nat /\ Len(v) \in Nat /\ Len(t) \in Nat /\ Len(v) # 0
    BY LengthNat, EmptySeq
  <1>3. s.taken < Len(msg)
    BY <1>1, <1>2
  <1>4. SubSeq(msg, Len(h) + 1, Len(h) + Len(v)) = v
    BY MiddleOf
  <1>5. ElementOf(msg, s, type, b)
    BY ElementIs
  <1> HIDE DEF b
  <1>6. CASE type = "f" /\ Len(v) = 1
    <2>1. r = [s EXCEPT !.taken = s.taken + 1, !.values = Append(@, SubSeq(msg, s.taken + 1, s.taken + 1))]
      BY <1>3, <1>5, <1>6 DEF ElementOf
    <2> HIDE DEF r
    <2>2. /\ r.rc = s.rc /\ r.needle = s.needle /\ r.taken = s.taken + 1
          /\ r.values = Append(s.values, SubSeq(msg, s.taken + 1, s.taken + 1))
      BY <2>1 DEF BrecvState
    <2>3. SubSeq(msg, s.taken + 1, s.taken + 1) = v
      BY <1>4, <1>6
    <2>4. /\ r.overrun = s.overrun /\ r.cache_used = s.cache_used
          /\ r.cache_size = s.cache_size /\ r.cache_block = s.cache_block
      BY <2>1 DEF BrecvState
    <2> QED BY <1>6, <2>2, <2>3, <2>4 DEF Leaves, Room, r
  <1>7. CASE type = "m" /\ t = <<>>
    <2>1. r = [s EXCEPT !.taken = Len(msg), !.values = Append(@, SubSeq(msg, s.taken + 1, Len(msg)))]
      BY <1>3, <1>5, <1>7 DEF ElementOf
    <2> HIDE DEF r
    <2>2. /\ r.rc = s.rc /\ r.needle = s.needle /\ r.taken = Len(msg)
          /\ r.values = Append(s.values, SubSeq(msg, s.taken + 1, Len(msg)))
      BY <2>1 DEF BrecvState
    <2>3. Len(t) = 0
      BY <1>7, EmptySeq
    <2>4. Len(msg) = Len(h) + Len(v)
      BY <1>1, <1>2, <2>3
    <2>5. SubSeq(msg, s.taken + 1, Len(msg)) = v
      BY <1>4, <2>4
    <2>6. /\ r.overrun = s.overrun /\ r.cache_used = s.cache_used
          /\ r.cache_size = s.cache_size /\ r.cache_block = s.cache_block
      BY <2>1 DEF BrecvState
    <2> QED BY <2>2, <2>4, <2>5, <2>6 DEF Leaves, Room, r
  <1> QED BY <1>6, <1>7

(* What joins have put together, around its k-th piece.                      *)
Around(qs, f, k, T) ==
  \E r \in Seq(T) : f[Len(qs)] = f[k - 1] \o (qs[k] \o r) /\ (k = Len(qs) => r = <<>>)

LEMMA JoinsSplit ==
  ASSUME NEW T, NEW qs \in Seq(Seq(T)), NEW f, Joins(qs, f, T), NEW k \in 1 .. Len(qs)
  PROVE  Around(qs, f, k, T)
  <1> DEFINE n == Len(qs)
  <1>1. n \in Nat /\ k \in Nat /\ k \in 0 .. n /\ k - 1 \in 0 .. n
    BY LengthNat
  <1>2. \A j \in 1 .. n : qs[j] \in Seq(T)
    OBVIOUS
  <1>3. f[k] = f[k - 1] \o qs[k]
    BY DEF Joins
  <1>4. PICK x, q \in Seq(T) : x = f[k - 1] /\ q = qs[k]
    BY <1>1, <1>2 DEF Joins
  <1>7. ASSUME NEW r \in Seq(T), f[n] = x \o (q \o r), k = n => r = <<>> PROVE Around(qs, f, k, T)
    BY <1>4, <1>7 DEF Around
  <1>5. CASE k = n
    <2>1. q \o <<>> = q /\ <<>> \in Seq(T)
      BY NothingBefore
    <2>2. f[n] = x \o (q \o <<>>)
      BY <1>3, <1>4, <1>5, <2>1
    <2> HIDE DEF n
    <2> QED BY <1>7, <2>1, <2>2
  <1>6. CASE k # n
    <2>1. Follows(f[n], f[k], T)
      BY <1>1, JoinsFrom
    <2>2. PICK r \in Seq(T) : f[n] = f[k] \o r
      BY <2>1 DEF Follows
    <2>3. Regroups(x, q, r)
      BY Regrouped
    <2>4. f[n] = x \o (q \o r)
      BY <1>3, <1>4, <2>2, <2>3, Zenon DEF Regroups
    <2> HIDE DEF n
    <2> QED BY <1>6, <1>7, <2>4
  <1> QED BY <1>5, <1>6

(* With more behind it, and with more in front.                              *)
SplitsBehind(x, q, r, l, T) == \E m \in Seq(T) : (x \o (q \o r)) \o l = x \o (q \o m)

SplitsBefore(h, x, q, r) == h \o (x \o (q \o r)) = (h \o x) \o (q \o r)

LEMMA SplitBehind ==
  ASSUME NEW T, NEW x \in Seq(T), NEW q \in Seq(T), NEW r \in Seq(T), NEW l \in Seq(T)
  PROVE  SplitsBehind(x, q, r, l, T)
  <1>1. PICK m, qr \in Seq(T) : m = r \o l /\ qr = q \o r
    BY ConcatOf
  <1>2. Regroups(x, qr, l) /\ Regroups(q, r, l)
    BY Regrouped
  <1>3. (x \o qr) \o l = x \o (q \o m)
    BY <1>1, <1>2, Zenon DEF Regroups
  <1> QED BY <1>1, <1>3 DEF SplitsBehind

LEMMA SplitBefore ==
  ASSUME NEW T, NEW h \in Seq(T), NEW x \in Seq(T), NEW q \in Seq(T), NEW r \in Seq(T)
  PROVE  SplitsBefore(h, x, q, r)
  <1>1. PICK qr \in Seq(T) : qr = q \o r
    BY ConcatOf
  <1>2. Regroups(h, x, qr)
    BY Regrouped
  <1> QED BY <1>1, <1>2, Zenon DEF Regroups, SplitsBefore

(* One element that the code carries, among the others.                      *)
LEMMA ElementBack ==
  ASSUME NEW e \in W!Bsendable, Carriable(e),
         NEW msg \in Seq(W!SentFrame), msg # <<>>,
         NEW s \in BrecvState(Len(msg)), s.rc = 0,
         NEW u \in Seq(Byte), NEW more \in Seq(Byte),
         msg[1].body = u \o (W!Written(e) \o more), s.needle = Len(u),
         NEW h \in Seq(W!SentFrame), NEW t \in Seq(W!SentFrame),
         msg = h \o (ExtraOf(e) \o t), s.taken = Len(h),
         e.type = "m" => t = <<>>
  PROVE  /\ Leaves(W!BrecvElement(s, e.type, msg), s,
                   Len(u) + Len(W!Written(e)), Len(h) + Len(ExtraOf(e)), W!Expected(e))
         /\ Stores(W!BrecvElement(s, e.type, msg), s, e)
  <1>1. e.type \in BinaryTypes \cup {"f", "m"} /\ e.null \in BOOLEAN
    BY BsendElement
  <1>2. Len(<<>>) = 0 /\ Len(u) \in Nat /\ Len(h) \in Nat
    BY LengthNat
  <1>3. CASE e.type \in BinaryTypes
    <2>1. ExtraOf(e) = <<>>
      BY <1>3, Zenon DEF ExtraOf, BinaryTypes
    <2>2. PICK r, b, v : r = W!BrecvElement(s, e.type, msg) /\ b = Len(u) + Len(W!Written(e)) /\ v = W!Expected(e)
      OBVIOUS
    <2>3. Leaves(r, s, b, s.taken, v) /\ Stores(r, s, e)
      BY <1>3, <2>2, BinaryBack
    <2>4. PICK k : k = Len(h) + Len(ExtraOf(e)) /\ s.taken = k
      BY <1>2, <2>1
    <2>5. Leaves(r, s, b, k, v)
      BY <2>3, <2>4, Zenon DEF Leaves
    <2> QED BY <2>2, <2>3, <2>4, <2>5, Zenon
  <1>4. CASE e.type \in {"f", "m"}
    <2>6. ASSUME NEW r, \A had, size : Room(s, had, size) => Room(r, had, size) PROVE Stores(r, s, e)
      <3>1. Len(W!CacheOf(e)) = 0
        BY <1>4, CacheOfIs
      <3> QED BY <2>6, <3>1 DEF Stores
    <2>1. W!Written(e) = <<>>
      BY <1>4, WrittenBytes
    <2>2. s.needle = Len(u) + Len(W!Written(e))
      BY <1>2, <2>1
    <2>3. PICK v \in Seq(W!SentFrame) : v = ExtraOf(e)
      BY ExtraType
    <2>4. CASE e.type = "f"
      <3>1. v = <<W!Bytes(e.value)>> /\ W!Expected(e) = <<W!Bytes(e.value)>>
        BY <2>3, <2>4 DEF ExtraOf, W!Expected
      <3>2. Len(v) = 1 /\ v # <<>>
        BY <3>1
      <3>3. msg = h \o (v \o t)
        BY <2>3, Zenon
      <3>4. /\ Leaves(W!BrecvElement(s, "f", msg), s, s.needle, Len(h) + Len(v), v)
            /\ \A had, size : Room(s, had, size) => Room(W!BrecvElement(s, "f", msg), had, size)
        BY <3>2, <3>3, ExtraBack
      <3>5. Stores(W!BrecvElement(s, "f", msg), s, e)
        BY <2>6, <3>4
      <3> QED BY <2>2, <2>3, <2>4, <3>1, <3>4, <3>5
    <2>5. CASE e.type = "m"
      <3>1. v = W!Expected(e)
        BY <2>3, <2>5 DEF ExtraOf, W!Expected
      <3>2. v # <<>>
        <4>1. CASE e.null
          BY <2>3, <2>5, <4>1 DEF ExtraOf
        <4>2. CASE ~e.null
          <5>1. e.value \in Seq(Seq(Byte)) /\ e.value # <<>>
            BY <2>5, <4>2, BsendElement DEF Carriable
          <5>2. Len(v) = Len(e.value)
            BY <2>3, <2>5, <4>2, <5>1, BytesOf DEF ExtraOf
          <5> QED BY <5>1, <5>2, EmptySeq
        <4> QED BY <1>1, <4>1, <4>2
      <3>3. msg = h \o (v \o t) /\ t = <<>>
        BY <2>3, <2>5, Zenon
      <3>4. /\ Leaves(W!BrecvElement(s, "m", msg), s, s.needle, Len(h) + Len(v), v)
            /\ \A had, size : Room(s, had, size) => Room(W!BrecvElement(s, "m", msg), had, size)
        BY <3>2, <3>3, ExtraBack
      <3>5. Stores(W!BrecvElement(s, "m", msg), s, e)
        BY <2>6, <3>4
      <3> QED BY <2>2, <2>3, <2>5, <3>1, <3>4, <3>5
    <2> QED BY <1>4, <2>4, <2>5
  <1> QED BY <1>1, <1>3, <1>4

(* After k elements: the bytes and frames of those are behind, and their     *)
(* values are what was given.                                                *)
Held(args, s, k, bytes, taken) ==
  /\ s.rc = 0 /\ s.needle = bytes /\ s.taken = taken /\ Len(s.values) = k
  /\ \A i \in 1 .. k : s.values[i] = W!Expected(args[i])

LEMMA HeldOn ==
  ASSUME NEW args, NEW k \in Nat, k > 0, NEW N \in Nat, NEW s \in BrecvState(N), NEW r,
         NEW bytes, NEW taken, NEW bytes1, NEW taken1,
         Held(args, s, k - 1, bytes, taken),
         Leaves(r, s, bytes1, taken1, W!Expected(args[k]))
  PROVE  Held(args, r, k, bytes1, taken1)
  <1>1. r.rc = 0 /\ r.needle = bytes1 /\ r.taken = taken1 /\ r.values = Append(s.values, W!Expected(args[k]))
    BY DEF Leaves
  <1>2. Len(s.values) = k - 1 /\ \A i \in 1 .. k - 1 : s.values[i] = W!Expected(args[i])
    BY DEF Held
  <1>3. PICK vs \in Seq(Seq(Value)) : vs = s.values
    BY StateIs
  <1>4. \A v : Len(Append(vs, v)) = Len(vs) + 1 /\ Append(vs, v)[Len(vs) + 1] = v
               /\ \A i \in 1 .. Len(vs) : Append(vs, v)[i] = vs[i]
    OBVIOUS
  <1>5. \A i \in 1 .. k : i \in 1 .. k - 1 \/ i = k
    OBVIOUS
  <1>6. Len(vs) + 1 = k
    BY <1>2, <1>3
  <1>7. Len(r.values) = k
    BY <1>1, <1>3, <1>4, <1>6
  <1>8. \A i \in 1 .. k : r.values[i] = W!Expected(args[i])
    BY <1>1, <1>2, <1>3, <1>4, <1>5, <1>6
  <1> QED BY <1>1, <1>7, <1>8 DEF Held

LEMMA CarriableIs ==
  ASSUME NEW args \in Seq(W!Bsendable), W!BsendCarries(args), NEW i \in 1 .. Len(args)
  PROVE  args[i] \in W!Bsendable /\ Carriable(args[i]) /\ (args[i].type = "m" => i = Len(args))
  <1>1. args[i] \in W!Bsendable /\ i \in DOMAIN args /\ Len(args) \in Nat
    OBVIOUS
  <1>2. /\ args[i].type = "1" => args[i].value \in Byte
        /\ args[i].type = "2" => args[i].value < Word
        /\ args[i].type = "s" => Len(args[i].value) < Base
        /\ args[i].type \in {"S", "c"} => Len(args[i].value) <= MAX_ALLOC_SIZE
        /\ args[i].type = "c" => ~args[i].null
        /\ args[i].type = "m" => args[i].null \/ args[i].value # <<>>
    BY <1>1, SameBytes DEF W!BsendCarries
  <1>3. args[i].type = "1" => args[i].value < Base
    <2>1. \A b \in Byte : b < Base
      BY ByteIs
    <2> QED BY <1>2, <2>1
  <1>4. i # Len(args) => i \in 1 .. Len(args) - 1
    BY <1>1
  <1>5. args[i].type = "m" => i = Len(args)
    BY <1>4 DEF W!BsendCarries, W!LastOnly
  <1> QED BY <1>1, <1>2, <1>3, <1>5 DEF Carriable

LEMMA CacheType ==
  ASSUME NEW args \in Seq(W!Bsendable)
  PROVE  \E cs \in Seq(Seq(Nat)) : Len(cs) = Len(args) /\ cs = [i \in DOMAIN args |-> W!CacheOf(args[i])]
  <1> DEFINE n == Len(args)  cs == [i \in 1 .. n |-> W!CacheOf(args[i])]
  <1>1. \A i \in 1 .. n : W!CacheOf(args[i]) \in Seq(Nat)
    BY CacheOfIs
  <1>2. n \in Nat /\ DOMAIN args = 1 .. n
    BY LengthNat
  <1>3. cs = [i \in DOMAIN args |-> W!CacheOf(args[i])]
    BY <1>2
  <1>4. cs \in Seq(Seq(Nat)) /\ Len(cs) = n
    <2> HIDE DEF n
    <2>1. cs \in [1 .. n -> Seq(Nat)]
      BY <1>1
    <2>2. \A T : \A f \in [1 .. n -> T] : f \in Seq(T) /\ Len(f) = n
      BY <1>2, ListOf
    <2> HIDE DEF cs
    <2> QED BY <2>1, <2>2
  <1> QED BY <1>3, <1>4

LEMMA BrecvBack ==
  ASSUME NEW args \in Seq(W!Bsendable), W!BsendCarries(args), NEW msg, BsentAs(args, msg),
         NEW picture, picture = W!PictureOf(args), NEW size \in Nat, size = CacheSize
  PROVE  /\ Held(args, W!Brecv(msg, picture, size), Len(args), W!Brecv(msg, picture, size).needle, Len(msg))
         /\ ~W!Brecv(msg, picture, size).overrun
  <1> DEFINE n == Len(args)
  <1>1. n \in Nat /\ \A i \in 1 .. n : args[i] \in W!Bsendable
    OBVIOUS
  <1>2. PICK l \in Seq(Byte) :
          msg = <<W!Bytes(FlattenSeq([i \in DOMAIN args |-> W!Written(args[i])]) \o l)>> \o W!ExtraFrames(args)
    BY DEF BsentAs
  <1>3. PICK ws \in Seq(Seq(Byte)) : Len(ws) = n /\ ws = [i \in DOMAIN args |-> W!Written(args[i])]
    BY WrittenType
  <1>4. PICK xs \in Seq(Seq(W!SentFrame)) : /\ Len(xs) = n /\ xs = [i \in DOMAIN args |-> ExtraOf(args[i])]
                                            /\ W!ExtraFrames(args) = FlattenSeq(xs)
    BY ExtraFramesType
  <1>5. \A i \in 1 .. n : ws[i] = W!Written(args[i]) /\ xs[i] = ExtraOf(args[i])
    <2>1. DOMAIN args = 1 .. n
      OBVIOUS
    <2> QED BY <1>3, <1>4, <2>1
  <1>6. PICK F : Joins(ws, F, Byte) /\ FlattenSeq(ws) = F[n]
    BY <1>3, FlattenJoins
  <1>7. PICK G : Joins(xs, G, W!SentFrame) /\ FlattenSeq(xs) = G[n]
    BY <1>4, FlattenJoins
  <1>8. /\ \A k \in 0 .. n : F[k] \in Seq(Byte) /\ G[k] \in Seq(W!SentFrame)
        /\ F[0] = <<>> /\ G[0] = <<>>
        /\ \A k \in 1 .. n : F[k] = F[k - 1] \o ws[k] /\ G[k] = G[k - 1] \o xs[k]
    BY <1>3, <1>4, <1>6, <1>7 DEF Joins
  <1>9. \A k \in 1 .. n : k \in 0 .. n /\ k - 1 \in 0 .. n /\ k \in Nat /\ k > 0
    BY <1>1
  <1>10. 0 \in 0 .. n /\ n \in 0 .. n
    BY <1>1
  <1>11. PICK d \in W!SentFrame : d = W!Bytes(F[n] \o l) /\ d.body = F[n] \o l
    <2>1. F[n] \o l \in Seq(Byte)
      BY <1>8, <1>10, ConcatOf
    <2>2. W!Bytes(F[n] \o l).body = F[n] \o l
      BY DEF W!Bytes
    <2> QED BY <2>1, <2>2, FramesMade
  <1>12. PICK hd \in Seq(W!SentFrame) : hd = <<d>> /\ Len(hd) = 1 /\ hd[1] = d
    BY OneFrameOf
  <1>13. msg = hd \o G[n]
    BY <1>2, <1>3, <1>4, <1>6, <1>7, <1>11, <1>12, Zenon
  <1>14. /\ msg \in Seq(W!SentFrame) /\ Len(msg) = 1 + Len(G[n]) /\ msg[1] = d /\ msg # <<>>
    <2>1. PICK g \in Seq(W!SentFrame) : g = G[n]
      BY <1>8, <1>10
    <2>2. /\ hd \o g \in Seq(W!SentFrame) /\ Len(hd \o g) = Len(hd) + Len(g)
          /\ \A i \in 1 .. Len(hd) : (hd \o g)[i] = hd[i]
      BY ConcatOf
    <2>3. 1 \in 1 .. Len(hd)
      BY <1>12
    <2>4. Len(hd \o g) # 0
      BY <1>12, <2>2, LengthNat
    <2>5. hd \o g # <<>>
      BY <2>2, <2>4, EmptySeq
    <2> QED BY <1>12, <1>13, <2>1, <2>2, <2>3, <2>5
  <1>15. /\ picture \in Seq(PictureTypes) /\ Len(picture) = n
         /\ \A i \in 1 .. n : picture[i] = args[i].type
    <2>1. DOMAIN picture = 1 .. n /\ Len(picture) = n /\ \A i \in 1 .. n : picture[i] = args[i].type
      BY PictureOfIs
    <2>2. \A i \in 1 .. n : args[i].type \in PictureTypes
      BY <1>1, BsendElement DEF PictureTypes
    <2>3. picture = [i \in 1 .. n |-> args[i].type]
      <3>1. DOMAIN args = 1 .. n
        OBVIOUS
      <3> QED BY <3>1 DEF W!PictureOf
    <2> HIDE DEF n
    <2>4. picture \in [1 .. n -> PictureTypes]
      BY <2>2, <2>3
    <2> QED BY <1>1, <2>1, <2>4, ListOf
  <1>16. PICK a : BrecvSteps(a, msg, picture, size) /\ W!Brecv(msg, picture, size) = a[n]
    <2>1. \E a : BrecvSteps(a, msg, picture, size) /\ W!Brecv(msg, picture, size) = a[Len(picture)]
      BY <1>14, <1>15, BrecvRuns, Zenon
    <2> QED BY <1>15, <2>1, Zenon
  <1>17. /\ \A k \in 0 .. n : a[k] \in BrecvState(Len(msg))
         /\ a[0] = BrecvStart(size)
         /\ \A k \in 1 .. n : a[k] = W!BrecvElement(a[k - 1], args[k].type, msg)
    BY <1>15, <1>16 DEF BrecvSteps
  <1>18. Len(msg) \in Nat
    BY <1>14, LengthNat
  <1>23. PICK cs \in Seq(Seq(Nat)) : Len(cs) = n /\ cs = [i \in DOMAIN args |-> W!CacheOf(args[i])]
    BY CacheType
  <1>24. PICK C : Joins(cs, C, Nat) /\ FlattenSeq(cs) = C[n]
    BY <1>23, FlattenJoins
  <1>25. /\ \A k \in 0 .. n : C[k] \in Seq(Nat)
         /\ C[0] = <<>> /\ \A k \in 1 .. n : C[k] = C[k - 1] \o cs[k]
    BY <1>23, <1>24 DEF Joins
  <1>26. Len(C[n]) <= size
    <2>1. W!CacheNeeded(args) <= CacheSize
      BY DEF W!BsendCarries
    <2>2. W!CacheNeeded(args) = Len(C[n])
      BY <1>23, <1>24, SameFlatten DEF W!CacheNeeded
    <2> QED BY <2>1, <2>2
  <1>27. \A k \in 0 .. n : Len(C[k]) \in Nat /\ Len(C[k]) <= size
    <2> SUFFICES ASSUME NEW k \in 0 .. n PROVE Len(C[k]) \in Nat /\ Len(C[k]) <= size
      OBVIOUS
    <2>1. Follows(C[n], C[k], Nat)
      <3>1. k \in 0 .. Len(cs)
        BY <1>23
      <3> QED BY <1>23, <1>24, <3>1, JoinsFrom
    <2>2. PICK x, r \in Seq(Nat) : x = C[k] /\ C[n] = x \o r
      BY <1>25, <2>1 DEF Follows
    <2>3. Len(x \o r) = Len(x) + Len(r)
      BY ConcatOf
    <2>4. Len(x) \in Nat /\ Len(r) \in Nat
      BY LengthNat
    <2> QED BY <1>26, <2>2, <2>3, <2>4
  <1> DEFINE Done(k) == Held(args, a[k], k, Len(F[k]), 1 + Len(G[k])) /\ Room(a[k], Len(C[k]), size)
             S == {k \in 0 .. n : Done(k)}
  <1> HIDE DEF n
  <1>19. Done(0)
    <2>1. Len(<<>>) = 0 /\ 1 .. 0 = {} /\ 1 + 0 = 1
      OBVIOUS
    <2>2. a[0].rc = 0 /\ a[0].needle = 0 /\ a[0].taken = 1 /\ a[0].values = <<>>
      BY <1>17 DEF BrecvStart
    <2>3. Held(args, a[0], 0, Len(F[0]), 1 + Len(G[0]))
      BY <1>8, <2>1, <2>2 DEF Held
    <2>4. Room(a[0], Len(C[0]), size)
      BY <1>17, <1>25, <2>1 DEF Room, BrecvStart
    <2> QED BY <2>3, <2>4
  <1>20. ASSUME NEW k \in 1 .. n, Done(k - 1) PROVE Done(k)
    <2>1. PICK e \in W!Bsendable : e = args[k] /\ Carriable(e) /\ (e.type = "m" => k = n)
      BY CarriableIs DEF n
    <2>2. PICK s \in BrecvState(Len(msg)) : s = a[k - 1]
      BY <1>9, <1>17
    <2>3. PICK u, w \in Seq(Byte) : u = F[k - 1] /\ w = ws[k] /\ w = W!Written(e)
      BY <1>5, <1>8, <1>9, <2>1, WrittenBytes
    <2>4. PICK g, x \in Seq(W!SentFrame) : g = G[k - 1] /\ x = xs[k] /\ x = ExtraOf(e)
      BY <1>5, <1>8, <1>9, <2>1, ExtraType
    <2>5. PICK more \in Seq(Byte) : d.body = u \o (w \o more)
      <3>1. PICK r \in Seq(Byte) : F[n] = u \o (w \o r)
        <4>1. Around(ws, F, k, Byte)
          <5>1. k \in 1 .. Len(ws)
            BY <1>3
          <5> QED BY <1>6, <5>1, JoinsSplit, Zenon
        <4> QED BY <1>3, <2>3, <4>1, Zenon DEF Around
      <3>2. SplitsBehind(u, w, r, l, Byte)
        BY SplitBehind
      <3>3. PICK m \in Seq(Byte) : (u \o (w \o r)) \o l = u \o (w \o m)
        BY <3>2 DEF SplitsBehind
      <3> QED BY <1>11, <3>1, <3>3
    <2>6. PICK t \in Seq(W!SentFrame) : msg = (hd \o g) \o (x \o t) /\ (k = n => t = <<>>)
      <3>1. PICK t \in Seq(W!SentFrame) : G[n] = g \o (x \o t) /\ (k = n => t = <<>>)
        <4>1. Around(xs, G, k, W!SentFrame)
          <5>1. k \in 1 .. Len(xs)
            BY <1>4
          <5> QED BY <1>7, <5>1, JoinsSplit, Zenon
        <4> QED BY <1>4, <2>4, <4>1, Zenon DEF Around
      <3>2. SplitsBefore(hd, g, x, t)
        BY SplitBefore
      <3> QED BY <1>13, <3>1, <3>2 DEF SplitsBefore
    <2>7. PICK h \in Seq(W!SentFrame) : h = hd \o g /\ Len(h) = 1 + Len(g)
      <3>1. hd \o g \in Seq(W!SentFrame) /\ Len(hd \o g) = Len(hd) + Len(g)
        BY ConcatOf
      <3> QED BY <1>12, <3>1
    <2>8. Held(args, s, k - 1, Len(u), Len(h))
      BY <1>20, <2>2, <2>3, <2>4, <2>7
    <2>9. s.rc = 0 /\ s.needle = Len(u) /\ s.taken = Len(h)
      BY <2>8 DEF Held
    <2>10. msg[1].body = u \o (W!Written(e) \o more) /\ msg = h \o (ExtraOf(e) \o t)
      BY <1>14, <2>3, <2>4, <2>5, <2>6, <2>7, Zenon
    <2>11. /\ Leaves(W!BrecvElement(s, e.type, msg), s,
                     Len(u) + Len(W!Written(e)), Len(h) + Len(ExtraOf(e)), W!Expected(e))
           /\ Stores(W!BrecvElement(s, e.type, msg), s, e)
      BY <1>14, <2>1, <2>6, <2>9, <2>10, ElementBack
    <2>12. a[k] = W!BrecvElement(s, e.type, msg)
      BY <1>17, <2>1, <2>2
    <2>13. Held(args, a[k], k, Len(u) + Len(w), Len(h) + Len(x))
      <3>1. Leaves(a[k], s, Len(u) + Len(w), Len(h) + Len(x), W!Expected(args[k]))
        BY <2>1, <2>3, <2>4, <2>11, <2>12, Zenon
      <3> QED BY <1>9, <1>18, <2>8, <3>1, HeldOn
    <2>14. Len(u \o w) = Len(u) + Len(w) /\ Len(g \o x) = Len(g) + Len(x)
      BY ConcatOf
    <2>15. F[k] = u \o w /\ G[k] = g \o x
      BY <1>8, <2>3, <2>4
    <2>16. Len(h) + Len(x) = 1 + (Len(g) + Len(x))
      <3>1. Len(g) \in Nat /\ Len(x) \in Nat
        BY LengthNat
      <3> QED BY <2>7, <3>1
    <2>17. Held(args, a[k], k, Len(F[k]), 1 + Len(G[k]))
      BY <2>13, <2>14, <2>15, <2>16
    <2>18. PICK c, q \in Seq(Nat) : c = C[k - 1] /\ q = cs[k] /\ q = W!CacheOf(e) /\ C[k] = c \o q
      <3>1. cs[k] = W!CacheOf(args[k])
        <4>1. k \in DOMAIN args
          BY DEF n
        <4> QED BY <1>23, <4>1
      <3>2. cs[k] \in Seq(Nat)
        BY <2>1, <3>1, CacheOfIs
      <3> QED BY <1>9, <1>25, <2>1, <3>1, <3>2
    <2>19. Len(c \o q) = Len(c) + Len(q) /\ Len(c) \in Nat
      BY ConcatOf, LengthNat
    <2>20. Room(s, Len(c), size)
      BY <1>20, <2>2, <2>18, Zenon
    <2>21. Len(c) + Len(q) <= size
      BY <1>9, <1>27, <2>18, <2>19
    <2>22. Stores(a[k], s, e)
      BY <2>11, <2>12, Zenon
    <2>23. Room(a[k], Len(c) + Len(q), size)
      BY <2>18, <2>19, <2>20, <2>21, <2>22, Zenon DEF Stores
    <2>24. Room(a[k], Len(C[k]), size)
      BY <2>18, <2>19, <2>23, Zenon
    <2> QED BY <2>17, <2>24
  <1> HIDE DEF Done
  <1>21. Done(n)
    <2>1. 0 \in S
      BY <1>10, <1>19
    <2>2. \A k \in 1 .. n : k - 1 \in S => k \in S
      BY <1>9, <1>20
    <2> HIDE DEF S
    <2>3. 0 .. n \subseteq S
      BY <1>1, <2>1, <2>2, StepByStep
    <2> QED BY <1>10, <2>3 DEF S
  <1>22. Held(args, a[n], n, Len(F[n]), Len(msg)) /\ ~a[n].overrun
    BY <1>14, <1>21 DEF Done, Room
  <1> QED BY <1>16, <1>22 DEF Held, n

-----------------------------------------------------------------------------
(* A gossip frame is read back as it was sent.                               *)

(* What a reader finds of a buffer behind its first piece, or its first two. *)
LEMMA PieceFirst ==
  ASSUME NEW p \in Seq(Byte), NEW r \in Seq(Byte), NEW n, n = Len(p)
  PROVE  W!Holds(p \o r, n) /\ W!Rest(p \o r, n) = r /\ p \o r \in Seq(Byte)
  <1>1. /\ p \o r \in Seq(Byte) /\ Len(p \o r) = Len(p) + Len(r)
        /\ Len(p) \in Nat /\ Len(r) \in Nat
    BY ConcatOf, LengthNat
  <1>2. SubSeq(p \o r, Len(p) + 1, Len(p \o r)) = r
    BY BehindOf
  <1> QED BY <1>1, <1>2 DEF W!Holds, W!Rest

InSecond(p, v, r, n) ==
  /\ W!Holds(p \o (v \o r), n) /\ W!Holds(p \o (v \o r), n + Len(v))
  /\ SubSeq(p \o (v \o r), n + 1, n + Len(v)) = v
  /\ W!Rest(p \o (v \o r), n + Len(v)) = r

LEMMA PieceSecond ==
  ASSUME NEW p \in Seq(Byte), NEW v \in Seq(Byte), NEW r \in Seq(Byte)
  PROVE  InSecond(p, v, r, Len(p))
  <1>1. v \o r \in Seq(Byte) /\ Len(v \o r) = Len(v) + Len(r)
    BY ConcatOf
  <1>2. PICK y \in Seq(Byte) : y = v \o r /\ Len(y) = Len(v) + Len(r)
    BY <1>1
  <1>3. Len(p \o y) = Len(p) + Len(y) /\ Len(p) \in Nat /\ Len(v) \in Nat /\ Len(r) \in Nat
    BY ConcatOf, LengthNat
  <1>4. /\ SubSeq(p \o (v \o r), Len(p) + 1, Len(p) + Len(v)) = v
        /\ SubSeq(p \o (v \o r), (Len(p) + Len(v)) + 1, Len(p \o (v \o r))) = r
    BY MiddleOf
  <1>5. Len(p) <= Len(p \o y) /\ Len(p) + Len(v) <= Len(p \o y)
    BY <1>2, <1>3
  <1> QED BY <1>2, <1>4, <1>5 DEF W!Holds, W!Rest, InSecond

LEMMA ReadsSignature ==
  ASSUME NEW s \in GossipState, NEW r \in Seq(Byte), s.ok, s.buffer = Put2(Signature) \o r
  PROVE  /\ W!GetSignature(s).g = s.g /\ W!GetSignature(s).ok
         /\ W!GetSignature(s).buffer = r
  <1>1. PICK p \in Seq(Byte) : p = Put2(Signature) /\ Len(p) = 2 /\ Get2(p \o r) = Signature
    <2>1. Signature \in Nat /\ Signature < Word
      BY WireGiven, Bits
    <2> QED BY <2>1, PutBytes, NumberBack
  <1>2. W!Holds(p \o r, 2) /\ W!Rest(p \o r, 2) = r
    BY <1>1, PieceFirst
  <1>3. W!GetSignature(s) = [s EXCEPT !.buffer = r]
    BY <1>1, <1>2, SameBytes DEF W!GetSignature
  <1> QED BY <1>3 DEF GossipState

LEMMA ReadsId ==
  ASSUME NEW s \in GossipState, NEW id \in Byte, NEW r \in Seq(Byte), s.ok, s.buffer = Put1(id) \o r
  PROVE  /\ W!GetId(s).g.id = id /\ W!GetId(s).g.routing = s.g.routing
         /\ W!GetId(s).buffer = r /\ W!GetId(s).ok = (id \in W!MessageId)
  <1>1. PICK p \in Seq(Byte) : p = Put1(id) /\ Len(p) = 1 /\ Get1(p \o r) = id
    <2>1. id \in Nat /\ id < Base
      BY ByteIs
    <2> QED BY <2>1, PutBytes, NumberBack
  <1>2. W!Holds(p \o r, 1) /\ W!Rest(p \o r, 1) = r
    BY <1>1, PieceFirst
  <1> DEFINE ok == id \in W!MessageId  h == [s.g EXCEPT !.id = id]
  <1>3. W!GetId(s) = [s EXCEPT !.g = h, !.buffer = r, !.ok = ok]
    BY <1>1, <1>2, SameBytes DEF W!GetId
  <1>4. h.id = id /\ h.routing = s.g.routing
    BY GossipIs DEF W!GossipType
  <1> HIDE DEF h, ok
  <1>5. W!GetId(s).g = h /\ W!GetId(s).buffer = r /\ W!GetId(s).ok = ok
    BY <1>3 DEF GossipState
  <1> QED BY <1>4, <1>5 DEF ok

LEMMA ReadsVersion ==
  ASSUME NEW s \in GossipState
  PROVE  /\ W!GetVersion(s).g = s.g
         /\ ~s.ok => ~W!GetVersion(s).ok
         /\ \A r \in Seq(Byte) : s.ok /\ s.buffer = Put1(1) \o r => W!GetVersion(s).ok /\ W!GetVersion(s).buffer = r
  <1>1. CASE ~s.ok
    <2>1. W!GetVersion(s) = [s EXCEPT !.ok = FALSE]
      BY <1>1 DEF W!GetVersion, W!Failed
    <2> QED BY <1>1, <2>1 DEF GossipState
  <1>2. CASE s.ok
    <2>1. W!GetVersion(s).g = s.g
      BY DEF W!GetVersion, W!Failed, GossipState
    <2>2. ASSUME NEW r \in Seq(Byte), s.buffer = Put1(1) \o r PROVE W!GetVersion(s).ok /\ W!GetVersion(s).buffer = r
      <3>1. PICK p \in Seq(Byte) : p = Put1(1) /\ Len(p) = 1 /\ Get1(p \o r) = 1
        <4>1. 1 \in Nat /\ 1 < Base
          BY ByteIs
        <4> QED BY <4>1, PutBytes, NumberBack
      <3>2. W!Holds(p \o r, 1) /\ W!Rest(p \o r, 1) = r
        BY <3>1, PieceFirst
      <3>3. W!GetVersion(s) = [s EXCEPT !.buffer = r, !.ok = TRUE]
        BY <1>2, <2>2, <3>1, <3>2, SameBytes DEF W!GetVersion
      <3> QED BY <3>3 DEF GossipState
    <2> QED BY <1>2, <2>1, <2>2
  <1> QED BY <1>1, <1>2

KeyRead(t, s, k, r) ==
  /\ t.ok /\ t.buffer = r /\ t.g.key = k
  /\ t.g.id = s.g.id /\ t.g.routing = s.g.routing

ValueRead(t, s, v, r) ==
  /\ t.ok /\ t.buffer = r /\ t.g.value = v
  /\ t.g.key = s.g.key /\ t.g.id = s.g.id /\ t.g.routing = s.g.routing

LEMMA ReadsKey ==
  ASSUME NEW s \in GossipState, NEW k \in Seq(Byte), Len(k) < Base, NEW r \in Seq(Byte),
         s.ok, s.buffer = Put1(Len(k)) \o (k \o r)
  PROVE  KeyRead(W!GetKey(s), s, k, r)
  <1> DEFINE b == s.buffer  h == [s.g EXCEPT !.key = k]
  <1>1. PICK y \in Seq(Byte) : y = k \o r
    BY ConcatOf
  <1>2. PICK p \in Seq(Byte) : p = Put1(Len(k)) /\ Len(p) = 1 /\ Get1(p \o y) = Len(k)
    BY LengthNat, PutBytes, NumberBack
  <1>3. b = p \o (k \o r) /\ Get1(b) = Len(k)
    BY <1>1, <1>2
  <1>4. /\ W!Holds(b, 1) /\ W!Holds(b, 1 + Len(k)) /\ SubSeq(b, 1 + 1, 1 + Len(k)) = k
        /\ W!Rest(b, 1 + Len(k)) = r
    <2>1. InSecond(p, k, r, Len(p))
      BY PieceSecond
    <2>2. InSecond(p, k, r, 1)
      BY <1>2, <2>1, Zenon
    <2> QED BY <1>3, <2>2, Zenon DEF InSecond
  <1>5. 1 + 1 = 2
    OBVIOUS
  <1>6. W!GetKey(s) = [s EXCEPT !.g = h, !.buffer = r]
    BY <1>3, <1>4, <1>5, SameBytes DEF W!GetKey
  <1>7. h.key = k /\ h.id = s.g.id /\ h.routing = s.g.routing
    BY GossipIs DEF W!GossipType
  <1> HIDE DEF h
  <1>8. W!GetKey(s).g = h /\ W!GetKey(s).buffer = r /\ W!GetKey(s).ok = s.ok
    BY <1>6 DEF GossipState
  <1> QED BY <1>7, <1>8 DEF KeyRead

LEMMA ReadsValue ==
  ASSUME NEW s \in GossipState, NEW v \in Seq(Byte), Len(v) < Long, NEW r \in Seq(Byte),
         s.ok, s.buffer = Put4(Len(v)) \o (v \o r)
  PROVE  ValueRead(W!GetValue(s), s, v, r)
  <1> DEFINE b == s.buffer  h == [s.g EXCEPT !.value = v]
  <1>1. PICK y \in Seq(Byte) : y = v \o r
    BY ConcatOf
  <1>2. PICK p \in Seq(Byte) : p = Put4(Len(v)) /\ Len(p) = 4 /\ Get4(p \o y) = Len(v)
    BY LengthNat, PutBytes, NumberBack
  <1>3. b = p \o (v \o r) /\ Get4(b) = Len(v)
    BY <1>1, <1>2
  <1>4. /\ W!Holds(b, 4) /\ W!Holds(b, 4 + Len(v)) /\ SubSeq(b, 4 + 1, 4 + Len(v)) = v
        /\ W!Rest(b, 4 + Len(v)) = r
    <2>1. InSecond(p, v, r, Len(p))
      BY PieceSecond
    <2>2. InSecond(p, v, r, 4)
      BY <1>2, <2>1, Zenon
    <2> QED BY <1>3, <2>2, Zenon DEF InSecond
  <1>5. 4 + 1 = 5
    OBVIOUS
  <1>6. W!GetValue(s) = [s EXCEPT !.g = h, !.buffer = r]
    BY <1>3, <1>4, <1>5, SameBytes DEF W!GetValue
  <1>7. h.value = v /\ h.key = s.g.key /\ h.id = s.g.id /\ h.routing = s.g.routing
    BY GossipIs DEF W!GossipType
  <1> HIDE DEF h
  <1>8. W!GetValue(s).g = h /\ W!GetValue(s).buffer = r /\ W!GetValue(s).ok = s.ok
    BY <1>6 DEF GossipState
  <1> QED BY <1>7, <1>8 DEF ValueRead

LEMMA ReadsTtl ==
  ASSUME NEW s \in GossipState, NEW t \in 0 .. Long - 1, s.ok, s.buffer = Put4(t)
  PROVE  /\ W!GetTtl(s).ok /\ W!GetTtl(s).g.ttl = t
         /\ W!GetTtl(s).g.value = s.g.value /\ W!GetTtl(s).g.key = s.g.key
         /\ W!GetTtl(s).g.id = s.g.id /\ W!GetTtl(s).g.routing = s.g.routing
  <1> DEFINE h == [s.g EXCEPT !.ttl = t]
  <1>1. t \in Nat /\ t < Long
    BY Bits
  <1>2. PICK p \in Seq(Byte) : p = Put4(t) /\ Len(p) = 4 /\ p \o <<>> = p /\ Get4(p \o <<>>) = t
    <2>1. <<>> \in Seq(Byte) /\ Put4(t) \in Seq(Byte) /\ Len(Put4(t)) = 4
      BY <1>1, PutBytes
    <2> QED BY <1>1, <2>1, NumberBack, NothingBefore
  <1>3. Get4(p) = t /\ W!Holds(p, 4)
    BY <1>2 DEF W!Holds
  <1>4. PICK r : r = W!Rest(p, 4)
    OBVIOUS
  <1>5. W!GetTtl(s) = [s EXCEPT !.g = h, !.buffer = r]
    BY <1>2, <1>3, <1>4, SameBytes DEF W!GetTtl
  <1>6. h.ttl = t /\ h.value = s.g.value /\ h.key = s.g.key /\ h.id = s.g.id /\ h.routing = s.g.routing
    BY GossipIs DEF W!GossipType
  <1> HIDE DEF h
  <1>7. W!GetTtl(s).g = h /\ W!GetTtl(s).ok = s.ok
    BY <1>5 DEF GossipState
  <1> QED BY <1>6, <1>7

(* What parsing the body of a gossip frame leaves of it.                     *)
ParsedAs(g, routing, s) ==
  /\ s.g.id = g.id /\ s.g.routing = routing /\ s.ok = (g.id \in W!MessageId)
  /\ g.id = W!PUBLISH => s.g.key = g.key /\ s.g.value = g.value /\ s.g.ttl = g.ttl

FieldsRead(t, s, g) ==
  /\ t.ok /\ t.g.id = g.id /\ t.g.routing = s.g.routing
  /\ t.g.key = g.key /\ t.g.value = g.value /\ t.g.ttl = g.ttl

LEMMA FieldsBack ==
  ASSUME NEW g \in GossipSent, g.id = W!PUBLISH, NEW s \in GossipState, s.ok, s.buffer = GossipFields(g),
         s.g.id = g.id
  PROVE  FieldsRead(W!GetTtl(W!GetValue(W!GetKey(s))), s, g)
  <1>1. PICK k, v \in Seq(Byte) : k = g.key /\ v = g.value /\ Len(k) < Base /\ Len(v) < Long
    BY GossipPieces
  <1>2. PICK n, e \in Seq(Byte) : n = Put4(Len(v)) /\ e = Put4(g.ttl)
    BY <1>1, GossipPieces
  <1>3. PICK ve \in Seq(Byte) : ve = v \o e
    BY ConcatOf
  <1>4. PICK nve \in Seq(Byte) : nve = n \o ve
    BY ConcatOf
  <1>5. s.buffer = Put1(Len(k)) \o (k \o nve) /\ nve = Put4(Len(v)) \o (v \o e)
    BY <1>1, <1>2, <1>3, <1>4, Zenon DEF GossipFields
  <1>6. PICK s1 \in GossipState : s1 = W!GetKey(s)
    BY GetKeyType
  <1>7. s1.ok /\ s1.buffer = nve /\ s1.g.key = k /\ s1.g.id = s.g.id /\ s1.g.routing = s.g.routing
    <2>1. KeyRead(s1, s, k, nve)
      BY <1>1, <1>5, <1>6, ReadsKey
    <2> QED BY <2>1 DEF KeyRead
  <1>8. PICK s2 \in GossipState : s2 = W!GetValue(s1)
    BY GetValueType
  <1>9. /\ s2.ok /\ s2.buffer = e /\ s2.g.value = v /\ s2.g.key = s1.g.key
        /\ s2.g.id = s1.g.id /\ s2.g.routing = s1.g.routing
    <2>1. ValueRead(s2, s1, v, e)
      BY <1>1, <1>5, <1>7, <1>8, ReadsValue
    <2> QED BY <2>1 DEF ValueRead
  <1>10. PICK t \in GossipState : t = W!GetTtl(s2)
    BY GetTtlType
  <1>11. /\ t.ok /\ t.g.ttl = g.ttl /\ t.g.value = s2.g.value /\ t.g.key = s2.g.key
         /\ t.g.id = s2.g.id /\ t.g.routing = s2.g.routing
    <2>1. g.ttl \in 0 .. Long - 1
      BY GossipPieces
    <2> QED BY <1>2, <1>9, <1>10, <2>1, ReadsTtl
  <1>12. t = W!GetTtl(W!GetValue(W!GetKey(s)))
    BY <1>6, <1>8, <1>10, Zenon
  <1>13. FieldsRead(t, s, g)
    BY <1>1, <1>7, <1>9, <1>11 DEF FieldsRead
  <1> QED BY <1>12, <1>13

LEMMA GossipParsed ==
  ASSUME NEW g \in GossipSent, NEW h \in W!GossipType
  PROVE  ParsedAs(g, h.routing, W!GossipParse(h, W!GossipBody(g)))
  <1>1. PICK q, tail \in Seq(Byte) : q = Put1(g.id) /\ tail = GossipTail(g)
    BY GossipPieces
  <1>2. PICK qt \in Seq(Byte) : qt = q \o tail
    BY ConcatOf
  <1>3. PICK body \in Seq(Byte) : body = W!GossipBody(g) /\ body = Put2(Signature) \o qt
    BY <1>1, <1>2, GossipBodyIs
  <1>4. PICK s0 \in GossipState : s0 = [g |-> h, buffer |-> body, ok |-> TRUE] /\ s0.g = h /\ s0.ok /\ s0.buffer = body
    <2>1. [g |-> h, buffer |-> body, ok |-> TRUE] \in GossipState
      BY DEF GossipState
    <2>2. PICK s : s = [g |-> h, buffer |-> body, ok |-> TRUE]
      OBVIOUS
    <2>3. s.g = h /\ s.ok /\ s.buffer = body
      BY <2>2
    <2> QED BY <2>1, <2>2, <2>3
  <1>5. PICK s1 \in GossipState : s1 = W!GetSignature(s0)
    BY GetSignatureType
  <1>6. s1.g = h /\ s1.ok /\ s1.buffer = Put1(g.id) \o tail
    BY <1>1, <1>2, <1>3, <1>4, <1>5, ReadsSignature
  <1>7. PICK s2 \in GossipState : s2 = W!GetId(s1)
    BY GetIdType
  <1>8. s2.g.id = g.id /\ s2.g.routing = h.routing /\ s2.buffer = tail /\ s2.ok = (g.id \in W!MessageId)
    <2>1. g.id \in Byte
      BY GossipPieces
    <2> QED BY <1>6, <1>7, <2>1, ReadsId
  <1>9. PICK s3 \in GossipState : s3 = W!GetVersion(s2)
    BY GetVersionType
  <1>10. s3.g = s2.g /\ (~s2.ok => ~s3.ok)
    BY <1>9, ReadsVersion
  <1>11. W!PUBLISH \in W!MessageId /\ s3.ok \in BOOLEAN /\ s2.ok \in BOOLEAN
    BY GossipIs DEF W!PUBLISH, W!MessageId
  <1>12. W!GossipParse(h, body) =
           IF s3.ok /\ s3.g.id = W!PUBLISH THEN W!GetTtl(W!GetValue(W!GetKey(s3))) ELSE s3
    BY <1>4, <1>5, <1>7, <1>9 DEF W!GossipParse
  <1>13. CASE g.id \notin W!MessageId
    <2>1. ~s3.ok
      BY <1>8, <1>10, <1>13
    <2>2. W!GossipParse(h, body) = s3 /\ g.id # W!PUBLISH /\ s3.ok = FALSE
      BY <1>11, <1>12, <1>13, <2>1
    <2>3. ParsedAs(g, h.routing, s3)
      <3>1. s3.g.id = g.id /\ s3.g.routing = h.routing
        BY <1>8, <1>10
      <3>2. s3.ok = (g.id \in W!MessageId)
        <4>1. (g.id \in W!MessageId) = FALSE
          BY <1>13
        <4> QED BY <2>2, <4>1
      <3> QED BY <2>2, <3>1, <3>2 DEF ParsedAs
    <2> QED BY <1>3, <2>2, <2>3
  <1>14. CASE g.id \in W!MessageId /\ g.id # W!PUBLISH
    <2>1. tail = Put1(1) \o <<>> /\ <<>> \in Seq(Byte)
      BY <1>1, <1>14, NothingBefore DEF GossipTail
    <2>2. s3.ok
      BY <1>8, <1>9, <1>14, <2>1, ReadsVersion
    <2>3. W!GossipParse(h, body) = s3 /\ s3.ok = TRUE
      BY <1>8, <1>10, <1>11, <1>12, <1>14, <2>2
    <2>4. ParsedAs(g, h.routing, s3)
      <3>1. s3.g.id = g.id /\ s3.g.routing = h.routing /\ s3.ok = (g.id \in W!MessageId)
        BY <1>8, <1>10, <1>14, <2>3
      <3> QED BY <1>14, <3>1 DEF ParsedAs
    <2> QED BY <1>3, <2>3, <2>4
  <1>15. CASE g.id = W!PUBLISH
    <2>1. PICK f \in Seq(Byte) : f = GossipFields(g) /\ tail = Put1(1) \o f
      BY <1>1, <1>11, <1>15, GossipPieces DEF GossipTail
    <2>2. s3.ok /\ s3.buffer = f
      BY <1>8, <1>9, <1>11, <1>15, <2>1, ReadsVersion
    <2>3. PICK t : t = W!GetTtl(W!GetValue(W!GetKey(s3)))
      OBVIOUS
    <2>4. W!GossipParse(h, body) = t
      BY <1>8, <1>10, <1>12, <1>15, <2>2, <2>3
    <2>5. t \in GossipState
      BY <2>3, GetKeyType, GetValueType, GetTtlType
    <2>6. /\ t.ok /\ t.g.id = g.id /\ t.g.routing = s3.g.routing
          /\ t.g.key = g.key /\ t.g.value = g.value /\ t.g.ttl = g.ttl
      <3>1. s3.g.id = g.id
        BY <1>8, <1>10
      <3>2. s3.buffer = GossipFields(g)
        BY <2>1, <2>2
      <3>3. FieldsRead(t, s3, g)
        BY <1>15, <2>2, <2>3, <3>1, <3>2, FieldsBack
      <3> QED BY <3>3 DEF FieldsRead
    <2>7. t.ok = TRUE
      BY <2>5, <2>6, GossipIs
    <2>8. ParsedAs(g, h.routing, t)
      BY <1>8, <1>10, <1>11, <1>15, <2>6, <2>7 DEF ParsedAs
    <2> QED BY <1>3, <2>4, <2>8
  <1> QED BY <1>13, <1>14, <1>15

(* What receiving the frames of a gossip frame leaves.                       *)
LEMMA GossipBack ==
  ASSUME NEW g \in GossipSent, NEW h \in W!GossipType, NEW router \in BOOLEAN
  PROVE  \A bodies : bodies = (IF router THEN <<Identity, W!GossipBody(g)>> ELSE <<W!GossipBody(g)>>) =>
           /\ W!GossipRecv(h, bodies, router).taken = Len(bodies)
           /\ \E routing : /\ ParsedAs(g, routing, W!GossipRecv(h, bodies, router))
                           /\ router => routing = Identity
  <1> SUFFICES ASSUME NEW bodies, bodies = IF router THEN <<Identity, W!GossipBody(g)>> ELSE <<W!GossipBody(g)>>
               PROVE  /\ W!GossipRecv(h, bodies, router).taken = Len(bodies)
                      /\ \E routing : /\ ParsedAs(g, routing, W!GossipRecv(h, bodies, router))
                                      /\ router => routing = Identity
    OBVIOUS
  <1>1. PICK body : body = W!GossipBody(g)
    OBVIOUS
  <1>2. Identity \in Seq(Nat)
    BY WireGiven, ByteIs
  <1>3. \A x, y, z : [g |-> x, ok |-> y, taken |-> z].g = x /\ [g |-> x, ok |-> y, taken |-> z].ok = y
                     /\ [g |-> x, ok |-> y, taken |-> z].taken = z
    OBVIOUS
  <1>4. ASSUME NEW i \in W!GossipType, NEW n,
               W!GossipRecv(h, bodies, router) =
                 [g |-> W!GossipParse(i, body).g, ok |-> W!GossipParse(i, body).ok, taken |-> n]
        PROVE  W!GossipRecv(h, bodies, router).taken = n /\ ParsedAs(g, i.routing, W!GossipRecv(h, bodies, router))
    <2>1. ParsedAs(g, i.routing, W!GossipParse(i, body))
      BY <1>1, GossipParsed
    <2> QED BY <1>3, <1>4, <2>1 DEF ParsedAs
  <1>5. CASE router
    <2>1. bodies = <<Identity, body>>
      BY <1>1, <1>5
    <2>2. Len(bodies) = 2 /\ bodies[1] = Identity /\ bodies[2] = body
      BY <2>1
    <2>3. PICK i \in W!GossipType : i = [h EXCEPT !.routing = Identity] /\ i.routing = Identity
      <3>1. [h EXCEPT !.routing = Identity] \in W!GossipType
        BY <1>2 DEF W!GossipType
      <3>2. [h EXCEPT !.routing = Identity].routing = Identity
        BY DEF W!GossipType
      <3> QED BY <3>1, <3>2
    <2>4. W!GossipRecv(h, bodies, router) =
            [g |-> W!GossipParse(i, body).g, ok |-> W!GossipParse(i, body).ok, taken |-> 2]
      BY <1>5, <2>2, <2>3 DEF W!GossipRecv
    <2> QED BY <1>4, <2>2, <2>3, <2>4
  <1>6. CASE ~router
    <2>1. bodies = <<body>>
      BY <1>1, <1>6
    <2>2. Len(bodies) = 1 /\ bodies[1] = body
      BY <2>1
    <2>3. W!GossipRecv(h, bodies, router) =
            [g |-> W!GossipParse(h, body).g, ok |-> W!GossipParse(h, body).ok, taken |-> 1]
      BY <1>6, <2>2 DEF W!GossipRecv
    <2> QED BY <1>4, <1>6, <2>2, <2>3
  <1> QED BY <1>5, <1>6

-----------------------------------------------------------------------------
(* The receiving calls.                                                      *)

LEMMA IncomingIs ==
  ASSUME WireTyped, W!Ready
  PROVE  /\ W!Incoming \in Seq(W!SentFrame) /\ W!Incoming # <<>>
         /\ w_remaining = <<>> =>
              /\ Head(w_pipe) \in Message(w_route) /\ Tail(w_pipe) \in Seq(Message(w_route))
              /\ W!Incoming = Head(w_pipe).frames /\ W!Origin = Head(w_pipe).from
  <1>1. CASE w_remaining # <<>>
    BY <1>1 DEF W!Incoming, WireTyped, W!TypeOK
  <1>2. CASE w_remaining = <<>>
    <2>1. w_pipe # <<>> /\ w_pipe \in Seq(Message(w_route))
      BY <1>2 DEF W!Ready, WireTyped
    <2>2. Head(w_pipe) \in Message(w_route) /\ Tail(w_pipe) \in Seq(Message(w_route))
      BY <2>1, OneElement
    <2>3. W!Incoming = Head(w_pipe).frames /\ W!Origin = Head(w_pipe).from
      BY <1>2 DEF W!Incoming, W!Origin
    <2>4. Head(w_pipe).frames \in Seq(W!SentFrame) /\ Head(w_pipe).frames # <<>>
      BY <2>2, MessageIs
    <2> QED BY <2>2, <2>3, <2>4
  <1> QED BY <1>1, <1>2

(* What a message was made of.                                               *)
LEMMA IncomingFrom ==
  ASSUME WireTyped, W!Ready, w_remaining = <<>>
  PROVE  \E raw \in Seq(W!SentFrame) :
           raw # <<>> /\ Made(w_route, raw, W!Origin) /\ Arrives(w_route, raw, W!Incoming)
  BY IncomingIs, MessageIs

CacheTyped ==
  w_cache_size \in Nat /\ w_overrun \in BOOLEAN /\ (~w_overrun => w_cache_size \in {0, CacheSize})

LEMMA TakeKeeps ==
  ASSUME WireTyped, W!Ready, NEW k \in Nat, NEW api, NEW picture, NEW rc \in {-1, 0} \cup Statuses, NEW values,
         W!Take(k, api, picture, rc, values),
         w_gossip' \in W!GossipType, CacheTyped', w_waiting' \in BOOLEAN
  PROVE  /\ WireTyped' /\ w_route' = w_route
         /\ w_remaining' = W!Rest(W!Incoming, k)
         /\ w_got'.api = api /\ w_got'.picture = picture /\ w_got'.from = W!Origin
         /\ w_got'.aligned = (w_remaining = <<>>) /\ w_got'.rc = rc /\ w_got'.values = values
  <1>1. /\ w_remaining' = W!Rest(W!Incoming, k)
        /\ w_pipe' = (IF w_remaining # <<>> THEN w_pipe ELSE Tail(w_pipe))
        /\ w_got' = [api |-> api, picture |-> picture, from |-> W!Origin,
                     aligned |-> w_remaining = <<>>, rc |-> rc, values |-> values]
        /\ UNCHANGED <<w_route, w_partial, w_sent>>
    BY DEF W!Take
  <1>2. PICK al \in BOOLEAN : al = (w_remaining = <<>>)
    OBVIOUS
  <1>3. \A f, v : [api |-> api, picture |-> picture, from |-> f, aligned |-> al, rc |-> rc, values |-> v].aligned = al
    OBVIOUS
  <1>4. /\ w_got'.api = api /\ w_got'.picture = picture /\ w_got'.from = W!Origin
        /\ w_got'.aligned = al /\ w_got'.rc = rc /\ w_got'.values = values
    BY <1>1, <1>2
  <1>5. w_remaining' \in Seq(W!SentFrame)
    BY <1>1, IncomingIs, RestAlways, SameBytes
  <1>6. w_pipe' \in Seq(Message(w_route))
    BY <1>1, IncomingIs DEF WireTyped
  <1>7. w_pipe' \in Seq(Message(w_route))'
    BY <1>1, <1>6
  <1>8. \A i \in DOMAIN w_pipe' : w_pipe'[i].frames # <<>> /\ w_pipe'[i].frames \in Seq(W!SentFrame)
    <2>1. \A i \in DOMAIN w_pipe' : w_pipe'[i] \in Message(w_route)
      BY <1>6
    <2> QED BY <2>1, MessageIs
  <1>9. /\ w_route' \in {"plain", "toRouter", "fromRouter"} /\ w_partial' \in Seq(W!SentFrame)
        /\ w_sent' \in 0 .. MaxSent
    BY <1>1 DEF WireTyped, W!TypeOK
  <1>10. W!TypeOK'
    BY <1>2, <1>4, <1>5, <1>8, <1>9 DEF W!TypeOK, CacheTyped
  <1> QED BY <1>1, <1>2, <1>4, <1>7, <1>10 DEF WireTyped

LEMMA RestNone ==
  ASSUME NEW T, NEW b \in Seq(T)
  PROVE  W!Rest(b, Len(b)) = <<>>
  <1>1. Len(b) \in Nat
    BY LengthNat
  <1>2. W!Rest(b, Len(b)) = SubSeq(b, Len(b) + 1, Len(b))
    BY DEF W!Rest
  <1> QED BY <1>1, <1>2

(* A call that gives nothing back: recvstr(), and flush(), which reads all.    *)
LEMMA NothingPromised ==
  ASSUME w_got'.api \notin {"recv", "brecv", "wait", "gossip"},
         w_got'.api = "flush" => w_remaining' = <<>>
  PROVE  W!ReceivedAsSent'
  BY DEF W!ReceivedAsSent, W!ReadsAll

LEMMA GivenTypes ==
  ASSUME WireTyped
  PROVE  w_gossip \in W!GossipType /\ CacheTyped /\ w_waiting \in BOOLEAN
  BY DEF WireTyped, W!TypeOK, CacheTyped

LEMMA RecvStep ==
  ASSUME WireTyped, ~w_overrun, NEW picture, W!Recv(picture)
  PROVE  WireTyped' /\ W!ReceivedAsSent'
  <1> DEFINE k == Len(W!Incoming)  rc == W!PictureStatus(W!Incoming, picture)
             values == W!PictureValues(W!Incoming, picture)
  <1>1. /\ W!Ready /\ W!Take(k, "recv", picture, rc, values)
        /\ UNCHANGED <<w_gossip, w_cache_size, w_waiting, w_overrun>>
    BY DEF W!Recv
  <1>2. k \in Nat
    BY <1>1, IncomingIs, LengthNat
  <1>3. rc \in {-1, 0} \cup Statuses
    BY DEF W!PictureStatus
  <1> HIDE DEF k, rc, values
  <1>4. w_gossip' \in W!GossipType /\ CacheTyped' /\ w_waiting' \in BOOLEAN
    BY <1>1, GivenTypes DEF CacheTyped
  <1>5. /\ WireTyped' /\ w_route' = w_route /\ w_remaining' = W!Rest(W!Incoming, k)
        /\ w_got'.api = "recv" /\ w_got'.picture = picture /\ w_got'.from = W!Origin
        /\ w_got'.aligned = (w_remaining = <<>>) /\ w_got'.rc = rc /\ w_got'.values = values
    BY <1>1, <1>2, <1>3, <1>4, TakeKeeps
  <1>8. w_remaining' = <<>>
    BY <1>1, <1>5, IncomingIs, RestNone DEF k
  <1>6. ASSUME w_route = "plain", w_remaining = <<>>, W!Origin.api = "send",
               picture = W!PictureOf(W!Origin.args), W!SendCarries(W!Origin.args)
        PROVE  /\ rc = 0 /\ values = [i \in DOMAIN W!Origin.args |-> W!Expected(W!Origin.args[i])]
               /\ w_remaining' = <<>>
    <2>1. PICK raw \in Seq(W!SentFrame) : Made(w_route, raw, W!Origin) /\ Arrives(w_route, raw, W!Incoming)
      BY <1>1, <1>6, IncomingFrom
    <2>2. W!Incoming = raw
      BY <1>6, <2>1 DEF Arrives
    <2>3. PICK args \in Seq(W!Sendable) : args = W!Origin.args /\ W!Incoming = W!PictureFrames(args)
      BY <1>6, <2>1, <2>2 DEF Made, SentAs
    <2>4. rc = 0 /\ values = [i \in DOMAIN args |-> W!Expected(args[i])]
      BY <1>6, <2>3, RecvBack DEF rc, values
    <2> QED BY <2>3, <2>4, <1>8
  <1>7. W!ReceivedAsSent'
    BY <1>1, <1>5, <1>6, <1>8 DEF W!ReceivedAsSent, W!ReadsAll
  <1> QED BY <1>5, <1>7

LEMMA RecvStrStep ==
  ASSUME WireTyped, W!RecvStr
  PROVE  WireTyped' /\ W!ReceivedAsSent'
  <1> DEFINE values == <<SubSeq(W!Incoming, 1, 1)>>
  <1>1. /\ W!Ready /\ W!Take(1, "recvstr", <<>>, 0, values)
        /\ UNCHANGED <<w_gossip, w_cache_size, w_waiting, w_overrun>>
    BY DEF W!RecvStr
  <1> HIDE DEF values
  <1>2. w_gossip' \in W!GossipType /\ CacheTyped' /\ w_waiting' \in BOOLEAN
    BY <1>1, GivenTypes DEF CacheTyped
  <1>3. WireTyped' /\ w_got'.api = "recvstr"
    BY <1>1, <1>2, TakeKeeps
  <1> QED BY <1>3, NothingPromised

LEMMA FlushStep ==
  ASSUME WireTyped, W!Flush
  PROVE  WireTyped' /\ W!ReceivedAsSent'
  <1> DEFINE k == Len(W!Incoming)
  <1>1. /\ W!Ready /\ W!Take(k, "flush", <<>>, 0, <<>>)
        /\ UNCHANGED <<w_gossip, w_cache_size, w_waiting, w_overrun>>
    BY DEF W!Flush, W!Ready
  <1>2. k \in Nat /\ W!Rest(W!Incoming, k) = <<>>
    BY <1>1, IncomingIs, LengthNat, RestNone
  <1> HIDE DEF k
  <1>3. w_gossip' \in W!GossipType /\ CacheTyped' /\ w_waiting' \in BOOLEAN
    BY <1>1, GivenTypes DEF CacheTyped
  <1>4. WireTyped' /\ w_got'.api = "flush" /\ w_remaining' = W!Rest(W!Incoming, k)
    BY <1>1, <1>2, <1>3, TakeKeeps
  <1> QED BY <1>2, <1>4, NothingPromised

LEMMA WaitStep ==
  ASSUME WireTyped, W!Wait
  PROVE  WireTyped' /\ W!ReceivedAsSent'
  <1> DEFINE k == Len(W!Incoming)
             rc == IF W!IsSignal(W!Incoming) THEN W!Incoming[1].body[1] ELSE 0
  <1>1. /\ W!Ready /\ w_waiting' = ~W!IsSignal(W!Incoming) /\ W!Take(k, "wait", <<>>, rc, <<>>)
        /\ UNCHANGED <<w_gossip, w_cache_size, w_overrun>>
    BY DEF W!Wait
  <1>2. k \in Nat /\ W!Rest(W!Incoming, k) = <<>>
    BY <1>1, IncomingIs, LengthNat, RestNone
  <1>3. rc \in {-1, 0} \cup Statuses
    <2>1. W!IsSignal(W!Incoming) => W!Incoming[1] \in W!SentFrame /\ W!Incoming[1].form = "signal"
      <3>1. W!Incoming \in Seq(W!SentFrame)
        BY <1>1, IncomingIs
      <3>2. \A q \in Seq(W!SentFrame) : Len(q) = 1 => q[1] \in W!SentFrame
        OBVIOUS
      <3> QED BY <3>1, <3>2 DEF W!IsSignal
    <2> QED BY <2>1, FrameIs
  <1> HIDE DEF k
  <1>4. w_gossip' \in W!GossipType /\ CacheTyped' /\ w_waiting' \in BOOLEAN
    <2>1. w_waiting' \in BOOLEAN
      BY <1>1
    <2> QED BY <1>1, <2>1, GivenTypes DEF CacheTyped
  <1>5. /\ WireTyped' /\ w_route' = w_route /\ w_remaining' = W!Rest(W!Incoming, k)
        /\ w_got'.api = "wait" /\ w_got'.from = W!Origin
        /\ w_got'.aligned = (w_remaining = <<>>) /\ w_got'.rc = rc
    <2> HIDE DEF rc
    <2> QED BY <1>1, <1>2, <1>3, <1>4, TakeKeeps
  <1>6. ASSUME w_route = "plain", w_remaining = <<>>, W!Origin.api = "signal" PROVE rc = W!Origin.args[1]
    <2>1. PICK raw \in Seq(W!SentFrame) : Made(w_route, raw, W!Origin) /\ Arrives(w_route, raw, W!Incoming)
      BY <1>1, <1>6, IncomingFrom
    <2>2. PICK s \in Statuses : W!Origin.args = <<s>> /\ W!Incoming = <<[form |-> "signal", body |-> <<s>>]>>
      BY <1>6, <2>1 DEF Made, Arrives, SignalledAs
    <2>3. W!IsSignal(W!Incoming) /\ W!Incoming[1].body[1] = s /\ W!Origin.args[1] = s
      BY <2>2 DEF W!IsSignal
    <2> QED BY <2>3
  <1> HIDE DEF rc
  <1>7. W!ReceivedAsSent'
    BY <1>2, <1>5, <1>6 DEF W!ReceivedAsSent, W!ReadsAll
  <1> QED BY <1>5, <1>7

LEMMA BrecvStep ==
  ASSUME WireTyped, ~w_overrun, NEW bargs \in Seq(W!Bsendable), W!BrecvMessage(W!PictureOf(bargs))
  PROVE  WireTyped' /\ W!ReceivedAsSent'
  <1>1. PICK picture : picture = W!PictureOf(bargs)
    OBVIOUS
  <1>2. PICK size : size = IF w_cache_size = 0 THEN CacheSize ELSE w_cache_size
    OBVIOUS
  <1>3. size \in Nat /\ size = CacheSize
    BY <1>2, GivenTypes, WireGiven DEF CacheTyped
  <1>4. PICK r : r = W!Brecv(W!Incoming, picture, size)
    OBVIOUS
  <1>5. /\ W!Ready /\ W!Take(r.taken, "brecv", picture, r.rc, r.values)
        /\ w_cache_size' = r.cache_size /\ w_overrun' = r.overrun /\ UNCHANGED <<w_gossip, w_waiting>>
    BY <1>1, <1>2, <1>4 DEF W!BrecvMessage
  <1>6. W!Incoming \in Seq(W!SentFrame) /\ W!Incoming # <<>>
    BY <1>5, IncomingIs
  <1>7. picture \in Seq(PictureTypes)
    <2>1. \A i \in 1 .. Len(bargs) : bargs[i] \in W!Bsendable
      OBVIOUS
    <2>2. \A i \in 1 .. Len(bargs) : bargs[i].type \in PictureTypes
      BY <2>1, BsendElement DEF PictureTypes
    <2>3. picture = [i \in 1 .. Len(bargs) |-> bargs[i].type]
      BY <1>1, LenProperties DEF W!PictureOf
    <2>4. picture \in [1 .. Len(bargs) -> PictureTypes]
      BY <2>2, <2>3
    <2> QED BY <2>4, LengthNat, ListOf
  <1>8. r \in BrecvState(Len(W!Incoming)) /\ Len(W!Incoming) \in Nat
    BY <1>3, <1>4, <1>6, <1>7, BrecvType, LengthNat
  <1>9. /\ r.taken \in Nat /\ r.rc \in {-1, 0} \cup Statuses
        /\ r.cache_size \in Nat /\ r.overrun \in BOOLEAN
    BY <1>8, StateIs
  <1>14. ~r.overrun => r.cache_size = CacheSize
    BY <1>3, <1>4, <1>6, <1>7, BrecvCache
  <1>10. w_gossip' \in W!GossipType /\ CacheTyped' /\ w_waiting' \in BOOLEAN
    BY <1>5, <1>9, <1>14, GivenTypes DEF CacheTyped
  <1>11. /\ WireTyped' /\ w_route' = w_route /\ w_remaining' = W!Rest(W!Incoming, r.taken)
         /\ w_got'.api = "brecv" /\ w_got'.picture = picture /\ w_got'.from = W!Origin
         /\ w_got'.aligned = (w_remaining = <<>>) /\ w_got'.rc = r.rc /\ w_got'.values = r.values
    <2>1. PICK k, rc, vs : k = r.taken /\ rc = r.rc /\ vs = r.values
      OBVIOUS
    <2>2. W!Take(k, "brecv", picture, rc, vs) /\ k \in Nat /\ rc \in {-1, 0} \cup Statuses /\ W!Ready
      BY <1>5, <1>9, <2>1, Zenon
    <2>3. /\ WireTyped' /\ w_route' = w_route /\ w_remaining' = W!Rest(W!Incoming, k)
          /\ w_got'.api = "brecv" /\ w_got'.picture = picture /\ w_got'.from = W!Origin
          /\ w_got'.aligned = (w_remaining = <<>>) /\ w_got'.rc = rc /\ w_got'.values = vs
      BY <1>10, <2>2, TakeKeeps
    <2> QED BY <2>1, <2>3, Zenon
  <1>12. ASSUME w_route = "plain", w_remaining = <<>>, W!Origin.api = "bsend",
                picture = W!PictureOf(W!Origin.args), W!BsendCarries(W!Origin.args)
         PROVE  /\ r.rc = 0 /\ r.values = [i \in DOMAIN W!Origin.args |-> W!Expected(W!Origin.args[i])]
                /\ w_remaining' = <<>> /\ ~r.overrun
    <2>1. PICK raw \in Seq(W!SentFrame) : Made(w_route, raw, W!Origin) /\ Arrives(w_route, raw, W!Incoming)
      BY <1>5, <1>12, IncomingFrom
    <2>2. W!Incoming = raw
      BY <1>12, <2>1 DEF Arrives
    <2>3. PICK args \in Seq(W!Bsendable) : args = W!Origin.args /\ BsentAs(args, W!Incoming)
      BY <1>12, <2>1, <2>2 DEF Made, BsentAs
    <2>4. Held(args, r, Len(args), r.needle, Len(W!Incoming)) /\ ~r.overrun
      BY <1>3, <1>4, <1>12, <2>3, BrecvBack
    <2>5. r.rc = 0 /\ r.taken = Len(W!Incoming) /\ Len(r.values) = Len(args)
          /\ \A i \in 1 .. Len(args) : r.values[i] = W!Expected(args[i])
      BY <2>4 DEF Held
    <2>6. r.values = [i \in DOMAIN args |-> W!Expected(args[i])]
      <3>1. PICK vs \in Seq(Seq(Value)) : vs = r.values
        BY <1>8, StateIs
      <3>2. DOMAIN args = 1 .. Len(args) /\ vs = [i \in 1 .. Len(vs) |-> vs[i]]
        OBVIOUS
      <3>3. [i \in 1 .. Len(args) |-> vs[i]] = [i \in 1 .. Len(args) |-> W!Expected(args[i])]
        BY <2>5, <3>1
      <3> QED BY <2>5, <3>1, <3>2, <3>3, Zenon
    <2>7. w_remaining' = <<>>
      BY <1>6, <1>11, <2>5, RestNone
    <2> QED BY <2>3, <2>4, <2>5, <2>6, <2>7
  <1>15. ASSUME r.rc = 0, picture # <<>>, picture[Len(picture)] = "m" PROVE w_remaining' = <<>>
    BY <1>3, <1>4, <1>6, <1>7, <1>11, <1>15, BrecvReadsAll, RestNone
  <1>13. W!ReceivedAsSent'
    BY <1>5, <1>11, <1>12, <1>15 DEF W!ReceivedAsSent, W!ReadsAll
  <1> QED BY <1>11, <1>13

LEMMA TwoPieces == ASSUME NEW x, NEW y PROVE <<x>> \o <<y>> = <<x, y>>
  <1> DEFINE T == {x, y}
  <1>1. PICK p, q \in Seq(T) : p = <<x>> /\ q = <<y>> /\ Len(p) = 1 /\ Len(q) = 1 /\ p[1] = x /\ q[1] = y
    <2>1. x \in T /\ y \in T
      OBVIOUS
    <2> HIDE DEF T
    <2>2. <<x>> \in Seq(T) /\ Len(<<x>>) = 1 /\ <<x>>[1] = x
      BY <2>1, OneFrameOf
    <2>3. <<y>> \in Seq(T) /\ Len(<<y>>) = 1 /\ <<y>>[1] = y
      BY <2>1, OneFrameOf
    <2> QED BY <2>2, <2>3, Zenon
  <1> HIDE DEF T
  <1>2. /\ p \o q \in Seq(T) /\ Len(p \o q) = Len(p) + Len(q)
        /\ \A i \in 1 .. Len(p) : (p \o q)[i] = p[i]
        /\ \A i \in 1 .. Len(q) : (p \o q)[Len(p) + i] = q[i]
    BY ConcatOf
  <1>3. 1 \in 1 .. Len(p) /\ 1 \in 1 .. Len(q) /\ Len(p) + 1 = 2 /\ Len(p) + Len(q) = 2
    BY <1>1
  <1>4. Len(p \o q) = 2 /\ (p \o q)[1] = x /\ (p \o q)[2] = y
    BY <1>1, <1>2, <1>3
  <1>5. \A s \in Seq(T) : Len(s) = 2 => s = <<s[1], s[2]>>
    OBVIOUS
  <1>6. p \o q = <<x, y>>
    BY <1>2, <1>4, <1>5
  <1> QED BY <1>1, <1>6, Zenon

(* The frames of a gossip frame, as they arrive.                             *)
LEMMA GossipFramesArrive ==
  ASSUME NEW route \in {"plain", "toRouter", "fromRouter"}, NEW g \in GossipSent, NEW raw, NEW msg,
         raw = (IF route = "fromRouter" THEN <<W!Bytes(g.routing), W!Bytes(W!GossipBody(g))>>
                ELSE <<W!Bytes(W!GossipBody(g))>>),
         Arrives(route, raw, msg), NEW bodies, bodies = [i \in DOMAIN msg |-> msg[i].body]
  PROVE  /\ bodies = IF route = "toRouter" THEN <<Identity, W!GossipBody(g)>> ELSE <<W!GossipBody(g)>>
         /\ Len(bodies) = Len(msg)
  <1>1. PICK x, y, z : x = W!Bytes(Identity) /\ y = W!Bytes(W!GossipBody(g)) /\ z = W!Bytes(g.routing)
    OBVIOUS
  <1>2. x.body = Identity /\ y.body = W!GossipBody(g)
    BY <1>1 DEF W!Bytes
  <1>3. CASE route = "toRouter"
    <2>1. msg = <<x>> \o <<y>>
      BY <1>1, <1>3 DEF Arrives
    <2>2. <<x>> \o <<y>> = <<x, y>>
      BY TwoPieces
    <2>3. [i \in DOMAIN <<x, y>> |-> <<x, y>>[i].body] = <<x.body, y.body>> /\ Len(<<x, y>>) = 2
          /\ Len(<<x.body, y.body>>) = 2
      OBVIOUS
    <2> QED BY <1>2, <1>3, <2>1, <2>2, <2>3
  <1>4. CASE route # "toRouter"
    <2>1. msg = <<y>>
      <3>1. CASE route = "plain"
        BY <1>1, <3>1 DEF Arrives
      <3>2. CASE route = "fromRouter"
        <4>1. raw = <<z, y>> /\ msg = Tail(raw)
          BY <1>1, <3>2 DEF Arrives
        <4>2. Tail(<<z, y>>) = <<y>>
          OBVIOUS
        <4> QED BY <4>1, <4>2
      <3> QED BY <1>4, <3>1, <3>2
    <2>2. [i \in DOMAIN <<y>> |-> <<y>>[i].body] = <<y.body>> /\ Len(<<y>>) = 1 /\ Len(<<y.body>>) = 1
      OBVIOUS
    <2> QED BY <1>2, <1>4, <2>1, <2>2
  <1> QED BY <1>3, <1>4

LEMMA RecvGossipStep ==
  ASSUME WireTyped, W!RecvGossip
  PROVE  WireTyped' /\ W!ReceivedAsSent'
  <1>1. PICK bodies : bodies = [i \in DOMAIN W!Incoming |-> W!Incoming[i].body]
    OBVIOUS
  <1>2. PICK router \in BOOLEAN : router = (w_route = "toRouter")
    OBVIOUS
  <1>3. PICK r : r = W!GossipRecv(w_gossip, bodies, router)
    OBVIOUS
  <1>4. PICK k, rc, h : k = r.taken /\ rc = (IF r.ok THEN 0 ELSE -1) /\ h = r.g
    OBVIOUS
  <1>5. /\ W!Ready /\ W!Take(k, "gossip", <<>>, rc, <<>>) /\ w_gossip' = h
        /\ UNCHANGED <<w_cache_size, w_waiting, w_overrun>>
    BY <1>1, <1>2, <1>3, <1>4 DEF W!RecvGossip
  <1>6. W!Incoming \in Seq(W!SentFrame) /\ W!Incoming # <<>> /\ w_gossip \in W!GossipType
    BY <1>5, IncomingIs, GivenTypes
  <1>7. r.g \in W!GossipType /\ r.ok \in BOOLEAN /\ r.taken \in 1 .. Len(W!Incoming)
    BY <1>1, <1>3, <1>6, GossipRecvType
  <1>8. k \in Nat /\ rc \in {-1, 0} \cup Statuses
    BY <1>4, <1>7
  <1>9. w_gossip' \in W!GossipType /\ CacheTyped' /\ w_waiting' \in BOOLEAN
    BY <1>4, <1>5, <1>7, GivenTypes DEF CacheTyped
  <1>10. /\ WireTyped' /\ w_route' = w_route /\ w_remaining' = W!Rest(W!Incoming, k)
         /\ w_got'.api = "gossip" /\ w_got'.from = W!Origin
         /\ w_got'.aligned = (w_remaining = <<>>) /\ w_got'.rc = rc
    BY <1>5, <1>8, <1>9, TakeKeeps
  <1>13. PICK sent : sent = W!Origin.args[1]
    OBVIOUS
  <1>14. w_got'.from.args[1] = sent
    BY <1>10, <1>13
  <1>11. ASSUME w_remaining = <<>>, W!Origin.api = "gossip" PROVE W!GossipArrives(sent)'
    <2>1. PICK raw \in Seq(W!SentFrame) : Made(w_route, raw, W!Origin) /\ Arrives(w_route, raw, W!Incoming)
      BY <1>5, <1>11, IncomingFrom
    <2>2. PICK g \in GossipSent :
            /\ W!Origin.args = <<g>>
            /\ raw = IF w_route = "fromRouter" THEN <<W!Bytes(g.routing), W!Bytes(W!GossipBody(g))>>
                     ELSE <<W!Bytes(W!GossipBody(g))>>
      BY <1>11, <2>1 DEF Made, GossipedAs
    <2>3. w_route \in {"plain", "toRouter", "fromRouter"}
      BY DEF WireTyped, W!TypeOK
    <2>4. /\ bodies = IF router THEN <<Identity, W!GossipBody(g)>> ELSE <<W!GossipBody(g)>>
          /\ Len(bodies) = Len(W!Incoming)
      <3>1. /\ bodies = IF w_route = "toRouter" THEN <<Identity, W!GossipBody(g)>> ELSE <<W!GossipBody(g)>>
            /\ Len(bodies) = Len(W!Incoming)
        <4>1. PICK route \in {"plain", "toRouter", "fromRouter"} : route = w_route
          BY <2>3
        <4>2. PICK msg : msg = W!Incoming
          OBVIOUS
        <4>3. /\ raw = IF route = "fromRouter" THEN <<W!Bytes(g.routing), W!Bytes(W!GossipBody(g))>>
                       ELSE <<W!Bytes(W!GossipBody(g))>>
              /\ Arrives(route, raw, msg) /\ bodies = [i \in DOMAIN msg |-> msg[i].body]
          BY <1>1, <2>1, <2>2, <4>1, <4>2
        <4>4. /\ bodies = IF route = "toRouter" THEN <<Identity, W!GossipBody(g)>> ELSE <<W!GossipBody(g)>>
              /\ Len(bodies) = Len(msg)
          BY <4>3, GossipFramesArrive
        <4> QED BY <4>1, <4>2, <4>4
      <3> QED BY <1>2, <3>1
    <2>5. PICK routing : r.taken = Len(bodies) /\ ParsedAs(g, routing, r) /\ (router => routing = Identity)
      BY <1>3, <1>6, <2>4, GossipBack
    <2>6. /\ h.id = g.id /\ h.routing = routing /\ r.ok = (g.id \in W!MessageId)
          /\ g.id = W!PUBLISH => h.key = g.key /\ h.value = g.value /\ h.ttl = g.ttl
      BY <1>4, <2>5 DEF ParsedAs
    <2>7. w_remaining' = <<>>
      <3>1. k = Len(W!Incoming)
        BY <1>4, <2>4, <2>5
      <3> QED BY <1>6, <1>10, <3>1, RestNone
    <2>8. rc = IF g.id \in W!MessageId THEN 0 ELSE -1
      BY <1>4, <2>6
    <2>9. sent = g
      BY <1>13, <2>2
    <2>10. W!GossipArrives(g)'
      BY <1>2, <1>5, <1>10, <2>5, <2>6, <2>7, <2>8 DEF W!GossipArrives
    <2> QED BY <2>9, <2>10
  <1>12. W!ReceivedAsSent'
    BY <1>10, <1>11, <1>14 DEF W!ReceivedAsSent, W!GossipArrives, W!ReadsAll
  <1> QED BY <1>10, <1>12

LEMMA ReceiveSideStep ==
  ASSUME WireTyped, ~w_overrun, W!ReceiveSide
  PROVE  WireTyped' /\ W!ReceivedAsSent'
  <1>1. ASSUME NEW args \in BArgs, W!BrecvMessage(W!PictureOf(args)) PROVE WireTyped' /\ W!ReceivedAsSent'
    <2>1. args \in Seq(W!Bsendable)
      BY WireGiven
    <2> QED BY <1>1, <2>1, BrecvStep
  <1> QED BY <1>1, RecvStep, RecvStrStep, RecvGossipStep, WaitStep, FlushStep DEF W!ReceiveSide

-----------------------------------------------------------------------------
(* The wire: what is on its way is what some call made, and what has been    *)
(* received is what that call was given.                                     *)
WiresInv == WireTyped /\ W!ReceivedAsSent

LEMMA WiresInitially == W!Init => WiresInv
  <1> SUFFICES ASSUME W!Init PROVE WiresInv
    OBVIOUS
  <1>1. \A T : <<>> \in Seq(T)
    OBVIOUS
  <1>2. W!NoGossip \in W!GossipType
    <2>1. 0 \in Byte /\ 0 \in 0 .. Long - 1
      BY ByteIs, Bits
    <2>2. <<>> \in Seq(Nat) /\ <<>> \in Seq(Byte)
      BY <1>1
    <2> QED BY <2>1, <2>2, SameBytes DEF W!NoGossip, W!GossipType
  <1>3. w_got.rc = 0 /\ w_got.aligned = TRUE /\ w_got.api = "none"
    BY DEF W!Init, W!NoResult
  <1>4. 0 \in 0 .. MaxSent
    BY WireGiven
  <1>5. DOMAIN <<>> = {}
    OBVIOUS
  <1>6. W!TypeOK
    BY <1>1, <1>2, <1>3, <1>4, <1>5 DEF W!Init, W!TypeOK
  <1>7. w_pipe \in Seq(Message(w_route))
    BY <1>1 DEF W!Init
  <1>8. W!ReceivedAsSent
    BY <1>3 DEF W!ReceivedAsSent, W!ReadsAll
  <1> QED BY <1>6, <1>7, <1>8 DEF WiresInv, WireTyped

LEMMA WiresStutter ==
  ASSUME WiresInv, UNCHANGED w_vars
  PROVE  WiresInv'
  <1>1. WireTyped'
    BY DEF WiresInv, WireTyped, W!TypeOK, w_vars
  <1>2. W!ReceivedAsSent'
    BY DEF WiresInv, W!ReceivedAsSent, W!GossipArrives, W!ReadsAll, w_vars
  <1> QED BY <1>1, <1>2 DEF WiresInv

LEMMA WiresStep ==
  ASSUME WiresInv, W!Next
  PROVE  WiresInv'
  <1>1. WireTyped /\ ~w_overrun
    BY DEF WiresInv, W!Next
  <1>2. CASE W!ReceiveSide
    BY <1>1, <1>2, ReceiveSideStep DEF WiresInv
  <1>3. CASE W!SendSide
    <2>1. WireTyped' /\ UNCHANGED <<w_route, WireReceives>>
      BY <1>1, <1>3, SendSideStep
    <2>2. W!ReceivedAsSent'
      BY <2>1 DEF WiresInv, W!ReceivedAsSent, W!GossipArrives, W!ReadsAll, WireReceives
    <2> QED BY <2>1, <2>2 DEF WiresInv
  <1> QED BY <1>2, <1>3 DEF W!Next

-----------------------------------------------------------------------------
(* The machines side by side.                                               *)

WireInv == MessagesInv /\ PortsInv /\ WiresInv

LEMMA WireInitially == MCInit => WireInv
  BY MessagesInitially, PortsInitially, WiresInitially DEF MCInit, WireInv

LEMMA WireStep ==
  ASSUME WireInv, [MCNext]_<<part, vars, p_vars, w_vars>>
  PROVE  WireInv'
  <1>1. MessageConstants
    BY WireAssumption
  <1>2. MessagesInv /\ PortsInv /\ WiresInv
    BY DEF WireInv
  <1>3. UNCHANGED vars => MessagesInv'
    BY <1>2, MessagesStutter
  <1>4. UNCHANGED p_vars => PortsInv'
    BY <1>2, PortsStutter DEF p_vars, P!vars
  <1>9. UNCHANGED w_vars => WiresInv'
    BY <1>2, WiresStutter
  <1>5. CASE WireNext
    BY <1>2, <1>3, <1>4, <1>5, WiresStep DEF WireNext, WireInv
  <1>6. CASE MessagesNext
    BY <1>1, <1>2, <1>4, <1>6, <1>9, MessagesStep DEF MessagesNext, WireInv
  <1>7. CASE PortsNext
    BY <1>2, <1>3, <1>7, <1>9, PortsStep DEF PortsNext, WireInv
  <1>8. CASE UNCHANGED <<part, vars, p_vars, w_vars>>
    BY <1>3, <1>4, <1>8, <1>9 DEF WireInv
  <1> QED BY <1>5, <1>6, <1>7, <1>8 DEF MCNext

THEOREM WireInvariance == MCSpec => []WireInv
  <1>1. MCInit => WireInv
    BY WireInitially
  <1>2. WireInv /\ [MCNext]_<<part, vars, p_vars, w_vars>> => WireInv'
    BY WireStep
  <1> QED BY <1>1, <1>2, PTL DEF MCSpec

(* An object counts the bytes of its frames, after any calls and any errors. *)
THEOREM ContentSizeAlways == MCSpec => []ContentSizeExact
  <1>1. WireInv => ContentSizeExact
    BY DEF WireInv, MessagesInv, ListsExact
  <1> QED BY <1>1, WireInvariance, PTL

(* decode() finds in an encoding what was encoded, of one that is cut at most *)
(* its first frames, and reads behind the end of neither; load() finds in a   *)
(* file what save() wrote there, up to an empty frame.                       *)
THEOREM CodecAlways == MCSpec => []CodecTotal
  <1>1. WireInv => CodecTotal
    BY CodecHolds DEF WireInv
  <1> QED BY <1>1, WireInvariance, PTL

(* Every call of bind() and attach() leaves what it says: each endpoint has  *)
(* what it asked for, and a scan that fails had nothing to find.            *)
THEOREM AttachedAsAskedAlways == MCSpec => []AttachedAsAsked
  <1>1. WireInv => AttachedAsAsked
    BY PortsAsAsked DEF WireInv
  <1> QED BY <1>1, WireInvariance, PTL

(* The variables of the three machines keep their types: what is on the wire  *)
(* is never an empty message, the status of a receiving call is -1, 0 or one  *)
(* that was signalled, and a GossipFrame holds bytes whatever was parsed.      *)
THEOREM WireTypes == MCSpec => []TypesOK
  <1>1. WireInv => TypesOK
    BY MessagesTypes DEF WireInv, PortsInv, WiresInv, WireTyped, TypesOK
  <1> QED BY <1>1, WireInvariance, PTL

(* A message received with the picture it was sent with gives back what was   *)
(* put in, whatever was sent and received before; a gossip frame and the      *)
(* status of a signal are received as they were sent.                         *)
THEOREM ReceivedAsSentAlways == MCSpec => []ReceivedAsSent
  <1>1. WireInv => ReceivedAsSent
    BY DEF WireInv, WiresInv, ReceivedAsSent
  <1> QED BY <1>1, WireInvariance, PTL
=============================================================================
